----------------------------- MODULE ProductMemo -----------------------------
(***************************************************************************)
(* The incremental product memo of compiler2 (src/compiler2/pull.rs).  A   *)
(* root's products are formulas over World facts and other products.  The  *)
(* memo keeps each answer with the observations it was computed from, and  *)
(* repairs itself when an observation moves: a product is displaced when   *)
(* an input changed, marked dirty when an input of an input may have       *)
(* changed, and cleared again when its inputs turn out equal.              *)
(*                                                                         *)
(* This module holds the memo operations as operators from memo to memo.   *)
(* A memo m is a record:                                                   *)
(*   produced, displaced  product -> [value, gen, deps], NoEntry for none  *)
(*   pending              product -> deps of a formula that waits, or      *)
(*                        NotPending                                       *)
(*   readers, freaders    pairs <<product or fact, reader>>                *)
(*   stale                pairs <<reader, fact>> (fact_stale_dependencies) *)
(*   dirty                dirty_descendants                                *)
(*   current, spoiled     the key in progress, and whether it was          *)
(*                        invalidated meanwhile                            *)
(*   observed, changes    observed_products, external_changes              *)
(* deps is [products: sequence of <<product, generation>>, facts: fact use *)
(* -> state]; generation 0 and revision 0 stand for None.                  *)
(***************************************************************************)
EXTENDS Naturals, SequencesExt

CONSTANTS
    NProducts,   \* products are 1..NProducts, numbered in semantic order
    Facts,       \* World facts, numbers in semantic order
    Kind,        \* product -> ProductKey::kind
    Uses,        \* product -> set of fact uses its formula reads
    Inputs,      \* product -> content of those facts -> sequence of products read
    Callees,     \* product -> value so far -> sequence of products read recursively
    Refused      \* product -> values its producer refuses to lower

Products == 1..NProducts
FactState == [rev : Nat, settled : BOOLEAN]
Absent == [rev |-> 0, settled |-> FALSE]
NoDeps == [products |-> <<>>, facts |-> <<>>]
NotPending == [products |-> <<<<0, 0>>>>, facts |-> <<>>]
NoEntry == [value |-> 0, gen |-> 0, deps |-> NoDeps]

NewMemo ==
    [produced |-> [k \in Products |-> NoEntry], displaced |-> [k \in Products |-> NoEntry],
     pending |-> [k \in Products |-> NotPending], readers |-> {},
     freaders |-> {}, stale |-> {}, dirty |-> {}, current |-> 0, spoiled |-> FALSE,
     observed |-> {}, changes |-> <<>>]

IsProduced(m, k) == m.produced[k].gen # 0
IsDisplaced(m, k) == m.displaced[k].gen # 0
IsPending(m, k) == m.pending[k] # NotPending

Read(deps) == {deps.products[i][1] : i \in DOMAIN deps.products}
Generation(m, k) == m.produced[k].gen

\* IndexMap::insert: a repeated read keeps its place and takes the new generation.
RecordRead(deps, k, g) ==
    IF k \in Read(deps)
    THEN [deps EXCEPT !.products[CHOOSE i \in DOMAIN deps.products : deps.products[i][1] = k] = <<k, g>>]
    ELSE [deps EXCEPT !.products = Append(@, <<k, g>>)]

HasUnsettledInputs(m, k) ==
    \/ IsDisplaced(m, k)
    \/ \E s \in m.stale : s[1] = k
    \/ k \in m.dirty

DependenciesAreUnsettled(m, k) ==
    IsProduced(m, k) /\ \E d \in Read(m.produced[k].deps) : HasUnsettledInputs(m, d)

\* What the work graph sees of a product: its generation and whether it is ready.
ExternalState(m, k) ==
    [rev |-> IF IsProduced(m, k) THEN m.produced[k].gen ELSE m.displaced[k].gen,
     settled |-> IsProduced(m, k) /\ ~HasUnsettledInputs(m, k)]

RecordExternalChange(m, k, before) ==
    IF k \in m.observed /\ before # ExternalState(m, k)
    THEN [m EXCEPT !.changes = Append(@, [key |-> k, old |-> before, new |-> ExternalState(m, k)])]
    ELSE m

\* A formula's own reads are not indexed as readers of itself.
Install(m, k, deps) ==
    [m EXCEPT !.readers = @ \cup {<<d, k>> : d \in Read(deps) \ {k}},
              !.freaders = @ \cup {<<u.fact, k>> : u \in DOMAIN deps.facts}]

\* Mutant: the reverse index of facts is not cleaned.
UninstallKeepsFacts(m, k, deps) ==
    [m EXCEPT !.readers = @ \ {<<d, k>> : d \in Read(deps)}]

Uninstall(m, k, deps) ==
    [m EXCEPT !.readers = @ \ {<<d, k>> : d \in Read(deps)},
              !.freaders = @ \ {<<u.fact, k>> : u \in DOMAIN deps.facts}]

TakePending(m, k) ==
    IF IsPending(m, k)
    THEN Uninstall([m EXCEPT !.pending[k] = NotPending], k, m.pending[k])
    ELSE m

ReadersOf(m, k) == {e[2] : e \in {r \in m.readers : r[1] = k}}

\* displace_for_reproduction_shallow
Displaced(m, k) ==
    IF IsProduced(m, k)
    THEN Uninstall([m EXCEPT !.produced[k] = NoEntry, !.displaced[k] = m.produced[k]], k, m.produced[k].deps)
    ELSE m
Displace(m, k) ==
    Displaced(TakePending([m EXCEPT !.spoiled = @ \/ m.current = k], k), k)

-----------------------------------------------------------------------------
(* mutate_product_wave: mutations leave an ordered worklist, smallest key   *)
(* first and Invalidate before Dirty before Refresh; each is admitted once. *)

Invalidate == 0
Dirty == 1
Refresh == 2
Mutate(kind, keys) == {<<k, kind>> : k \in keys}
Smallest(work) ==
    CHOOSE x \in work : \A y \in work : x[1] < y[1] \/ (x[1] = y[1] /\ x[2] <= y[2])

\* The mutations one popped mutation sends on.
SendsOn(m, k, kind) ==
    CASE kind = Invalidate ->
            IF IsPending(m, k) THEN Mutate(Invalidate, ReadersOf(m, k))
            ELSE IF IsProduced(m, k) THEN Mutate(Dirty, ReadersOf(m, k)) ELSE {}
      [] kind = Dirty ->
            IF IsPending(m, k) THEN Mutate(Invalidate, {k})
            ELSE IF k \notin m.dirty THEN Mutate(Dirty, ReadersOf(m, k)) ELSE {}
      [] kind = Refresh ->
            IF ~DependenciesAreUnsettled(m, k) /\ k \in m.dirty
            THEN Mutate(Refresh, ReadersOf(m, k)) ELSE {}

\* Mutant: one input that is good again clears the product.
MutatedClears(m, k, kind) ==
    CASE kind = Invalidate -> Displace(m, k)
      [] kind = Dirty ->
            IF IsPending(m, k) THEN m ELSE [m EXCEPT !.dirty = @ \cup {k}]
      [] kind = Refresh -> [m EXCEPT !.dirty = @ \ {k}]

\* What it does to its own product.
Mutated(m, k, kind) ==
    CASE kind = Invalidate -> Displace(m, k)
      [] kind = Dirty ->
            IF IsPending(m, k) THEN m ELSE [m EXCEPT !.dirty = @ \cup {k}]
      [] kind = Refresh ->
            [m EXCEPT !.dirty = IF DependenciesAreUnsettled(m, k) THEN @ \cup {k} ELSE @ \ {k}]

RECURSIVE WaveFrom(_, _, _)
WaveStep(m, work, admitted, k, kind, sent) ==
    WaveFrom(RecordExternalChange(Mutated(m, k, kind), k, ExternalState(m, k)),
             (work \ {<<k, kind>>}) \cup (sent \ admitted), admitted \cup sent)
WavePop(m, work, admitted, x) ==
    WaveStep(m, work, admitted, x[1], x[2], SendsOn(m, x[1], x[2]))
WaveFrom(m, work, admitted) ==
    IF work = {} THEN m ELSE WavePop(m, work, admitted, Smallest(work))
Wave(m, work) == WaveFrom(m, work, work)

\* prepare_stale_for_reproduction: the fact mark goes first, then the wave runs.
PrepareStale(m, k) ==
    Wave([m EXCEPT !.stale = {s \in @ : s[1] # k}], Mutate(Invalidate, {k}))

-----------------------------------------------------------------------------
(* reconcile_fact_movements: moved maps each moved fact to its final state. *)

\* FactState::projected: a Current use does not look at readiness.
Projected(state, use) == IF use.settled THEN state ELSE [state EXCEPT !.settled = FALSE]
FactMoved(deps, f, state) ==
    \E u \in DOMAIN deps.facts : u.fact = f /\ Projected(state, u) # deps.facts[u]

\* The pairs <<fact, reader>> whose waiting formula saw another state, and the
\* pairs whose answer did.
PendingStale(m, moved) ==
    {e \in m.freaders : /\ e[1] \in DOMAIN moved
                        /\ IsPending(m, e[2])
                        /\ FactMoved(m.pending[e[2]], e[1], moved[e[1]])}
AnswerStale(m, moved, pairs) ==
    {e \in pairs : /\ IsProduced(m, e[2])
                   /\ FactMoved(m.produced[e[2]].deps, e[1], moved[e[1]])}

StaleMarks(m, touched, answers) ==
    (m.stale \ {<<e[2], e[1]>> : e \in touched}) \cup {<<e[2], e[1]>> : e \in answers}
IsStale(marks, k) == \E s \in marks : s[1] = k

RecordAll(m, old, keys) ==
    FoldSet(LAMBDA k, acc : RecordExternalChange(acc, k, ExternalState(old, k)), m, keys)

FactWave(m, marked, rest, waiting) ==
    Wave(marked,
         Mutate(Invalidate, waiting)
           \cup Mutate(Dirty, {k \in rest : ~IsStale(m.stale, k) /\ IsStale(marked.stale, k)})
           \cup Mutate(Refresh, {k \in rest : IsStale(m.stale, k) /\ ~IsStale(marked.stale, k)}))
\* Mutant: changes the facts make to observed products themselves go unrecorded.
ReconcileUnrecorded(m, moved, waiting, touched) ==
    FactWave(m, [m EXCEPT !.stale = StaleMarks(m, touched, AnswerStale(m, moved, touched))],
             {e[2] : e \in touched}, {e[2] : e \in waiting})
ReconcileTouched(m, moved, waiting, touched) ==
    RecordAll(
        FactWave(m, [m EXCEPT !.stale = StaleMarks(m, touched, AnswerStale(m, moved, touched))],
                 {e[2] : e \in touched}, {e[2] : e \in waiting}),
        m, m.observed \cap {e[2] : e \in touched \cup waiting})
ReconcileWaiting(m, moved, waiting) ==
    ReconcileTouched(m, moved, waiting, {e \in m.freaders : e[1] \in DOMAIN moved} \ waiting)
Reconcile(m, moved) ==
    IF moved = <<>> THEN m ELSE ReconcileWaiting(m, moved, PendingStale(m, moved))

-----------------------------------------------------------------------------
(* stale_dependency: the first product to reproduce before k can be used, 0 *)
(* when k is good as it stands.  Only dirty products are walked; a walk     *)
(* that finds nothing clears every product it checked.                      *)

RECURSIVE StaleInner(_, _, _)
RECURSIVE StaleObservation(_, _, _, _)
Found(k, checked) == [stale |-> k, checked |-> checked]
StaleInner(m, k, checked) ==
    IF IsStale(m.stale, k) \/ IsDisplaced(m, k) THEN Found(k, checked)
    ELSE IF k \notin m.dirty \/ ~IsProduced(m, k) \/ k \in checked THEN Found(0, checked)
    ELSE StaleObservation(m, k, 1, checked \cup {k})
StaleBelow(m, k, i, below) ==
    IF below.stale # 0 THEN below ELSE StaleObservation(m, k, i + 1, below.checked)
StaleAt(m, k, i, checked, d, g) ==
    IF Generation(m, d) # g
    THEN Found(IF Generation(m, d) = 0 THEN d ELSE k, checked)
    ELSE IF g = 0 THEN StaleObservation(m, k, i + 1, checked)
    ELSE StaleBelow(m, k, i, StaleInner(m, d, checked))
StaleObservation(m, k, i, checked) ==
    IF i > Len(m.produced[k].deps.products) THEN Found(0, checked)
    ELSE StaleAt(m, k, i, checked, m.produced[k].deps.products[i][1],
                 m.produced[k].deps.products[i][2])

FinishValidation(m, checked) ==
    IF checked = {} THEN m
    ELSE RecordAll(
            Wave([m EXCEPT !.dirty = @ \ checked],
                 Mutate(Refresh, UNION {ReadersOf(m, k) : k \in checked} \ checked)),
            m, checked \cap m.observed)
Validated(m, walk) ==
    [memo |-> IF walk.stale = 0 THEN FinishValidation(m, walk.checked) ELSE m,
     stale |-> walk.stale]
StaleDependency(m, k) == Validated(m, StaleInner(m, k, {}))

-----------------------------------------------------------------------------
(* ProductReadContext: c is [memo, key, deps, values read, waits, group,     *)
(* shrunk].                                                                 *)

Delivered(c, k, fresh) ==
    IF fresh /\ IsProduced(c.memo, k)
    THEN [c EXCEPT !.deps = RecordRead(@, k, Generation(c.memo, k)),
                   !.values = Append(@, c.memo.produced[k].value)]
    ELSE [c EXCEPT !.deps = RecordRead(@, k, Generation(c.memo, k)), !.waits = @ \cup {k}]
ReadValidated(c, k, v) ==
    Delivered([c EXCEPT !.memo = IF v.stale = 0 THEN v.memo ELSE PrepareStale(v.memo, v.stale)],
              k, v.stale = 0)
ReadProduct(c, k) == ReadValidated(c, k, StaleDependency(c.memo, k))

\* The strong component of d among the formulas that wait, the current one included.
Formulas(c) == {k \in Products : k = c.key \/ IsPending(c.memo, k)}
FormulaReads(c, k) == Read(IF k = c.key THEN c.deps ELSE c.memo.pending[k]) \cap Formulas(c)
RECURSIVE Reached(_, _)
Reached(c, ks) ==
    IF UNION {FormulaReads(c, k) : k \in ks} \subseteq ks THEN ks
    ELSE Reached(c, ks \cup UNION {FormulaReads(c, k) : k \in ks})
PendingStrongComponent(c, d) ==
    {k \in Formulas(c) : d \in Formulas(c) /\ k \in Reached(c, {d}) /\ d \in Reached(c, {k})}

\* A further read of the same formula must not shrink the group it closes.
Closes(c, group) == [c EXCEPT !.group = group, !.shrunk = @ \/ ~(c.group \subseteq group)]
ReadInComponent(c, d, component) ==
    IF c.key \in component THEN Closes(c, {k \in component : Kind[k] = Kind[c.key]})
    ELSE ReadProduct(c, d)
ReadRecorded(c, d) == ReadInComponent(c, d, PendingStrongComponent(c, d))
ReadRecursiveProduct(c, d) ==
    ReadRecorded([c EXCEPT !.deps = RecordRead(@, d, Generation(c.memo, d))], d)

RECURSIVE ReadAll(_, _, _)
ReadAll(c, keys, recursive) ==
    IF keys = <<>> THEN c
    ELSE ReadAll(IF recursive THEN ReadRecursiveProduct(c, Head(keys)) ELSE ReadProduct(c, Head(keys)),
                 Tail(keys), recursive)

-----------------------------------------------------------------------------
(* A producer reads its facts, then the products those name, then, for the  *)
(* recursive kind, its callees.  Ordinary answers are a sum of the inputs   *)
(* modulo 2, effect summaries a union (here the largest).                   *)

Ready(use, state) == IF use.settled THEN state.settled ELSE state.rev # 0
Content(facts) == MapThenSumSet(LAMBDA u : facts[u].rev, DOMAIN facts) % 2
Join(k, content, values) ==
    IF Kind[k] = "effects" THEN Max({content} \cup ToSet(values))
    ELSE FoldSeq(+, content, values) % 2

Waiting(c, products, facts) ==
    [memo |-> c.memo, deps |-> c.deps, group |-> {}, outcome |-> "waiting", value |-> 0,
     products |-> products, facts |-> facts]
Outcome(c, outcome, value) ==
    [memo |-> c.memo, deps |-> c.deps, group |-> c.group, outcome |-> outcome, value |-> value,
     products |-> {}, facts |-> {}]

MemberDeps(c, k) ==
    IF k = c.key THEN c.deps ELSE IF IsPending(c.memo, k) THEN c.memo.pending[k] ELSE NoDeps
GroupInputs(c) == UNION {Read(MemberDeps(c, k)) : k \in c.group} \ c.group
\* A member with no waiting formula, or with no local product, is a panic.
GroupPanics(c, inputs) ==
    \/ \E k \in c.group \ {c.key} : ~IsPending(c.memo, k)
    \/ \E d \in inputs : Kind[d] # "effects" /\ ~IsProduced(c.memo, d)
StageGroup(c, inputs) ==
    IF GroupPanics(c, inputs) THEN Outcome(c, "panicked", 0)
    ELSE IF \E d \in inputs : ~IsProduced(c.memo, d)
    THEN Waiting(c, {d \in inputs : ~IsProduced(c.memo, d)}, {})
    ELSE Outcome(c, "produced",
                 Max(ToSet(c.values) \cup {c.memo.produced[d].value : d \in inputs}))

ProduceValue(c, value) ==
    Outcome(c, IF value \in Refused[c.key] THEN "failed" ELSE "produced", value)
ProduceRead(c, content) ==
    IF c.shrunk THEN Outcome(c, "panicked", 0)
    ELSE IF c.waits # {} THEN Waiting(c, c.waits, {})
    ELSE IF c.group # {} THEN StageGroup(c, GroupInputs(c))
    ELSE ProduceValue(c, Join(c.key, content, c.values))
\* Mutant: callees are read although the local product is still missing.
ProduceCalleesAnyway(c, content) ==
    ProduceRead(ReadAll(c, Callees[c.key][Join(c.key, content, c.values)], TRUE), content)
ProduceCallees(c, content) ==
    IF c.waits # {} THEN Waiting(c, c.waits, {})
    ELSE ProduceRead(ReadAll(c, Callees[c.key][Join(c.key, content, c.values)], TRUE), content)
ProduceFacts(c, content, missing) ==
    IF missing # {} THEN Waiting(c, {}, missing)
    ELSE ProduceCallees(ReadAll(c, Inputs[c.key][content], FALSE), content)
ProduceIn(c) ==
    ProduceFacts(c, Content(c.deps.facts),
                 {u \in DOMAIN c.deps.facts : ~Ready(u, c.deps.facts[u])})
Produce(m, k, world) ==
    ProduceIn([memo |-> m, key |-> k, values |-> <<>>, waits |-> {}, group |-> {}, shrunk |-> FALSE,
               deps |-> [NoDeps EXCEPT !.facts =
                            [u \in Uses[k] |-> Projected(world[u.fact], u)]]])

-----------------------------------------------------------------------------
(* commit_members: keys get value, with deps[k] as their observations.      *)

Previous(m, k) ==
    IF IsProduced(m, k) THEN m.produced[k] ELSE m.displaced[k]
Changed(m, k, value) == Previous(m, k).gen = 0 \/ Previous(m, k).value # value
NextGeneration(m, k, value) == Previous(m, k).gen + (IF Changed(m, k, value) THEN 1 ELSE 0)

Removed(m, k) ==
    TakePending(
        Uninstall([m EXCEPT !.produced[k] = NoEntry,
                            !.displaced[k] = IF IsProduced(m, k) THEN @ ELSE NoEntry],
                  k, Previous(m, k).deps), k)
\* Members of a group observe each other's new generations.
MemberEntry(old, k, value, deps, group) ==
    [value |-> value, gen |-> NextGeneration(old, k, value),
     deps |-> [deps EXCEPT !.products =
         [i \in DOMAIN @ |-> IF @[i][1] \in group
                             THEN <<@[i][1], NextGeneration(old, @[i][1], value)>> ELSE @[i]]]]
Installed(m, k, entry) ==
    [Install(m, k, entry.deps) EXCEPT !.stale = {s \in @ : s[1] # k}, !.dirty = @ \ {k},
                                      !.produced[k] = entry]

\* Mutant: readers of a changed answer are told it is the same.
CommitRefreshes(old, m, keys, value, group) ==
    Wave(m, UNION {Mutate(Refresh, ReadersOf(m, k) \ group) : k \in keys})
CommitWave(old, m, keys, value, group) ==
    Wave(m, UNION {Mutate(IF Changed(old, k, value) THEN Invalidate ELSE Refresh,
                          ReadersOf(m, k) \ group) : k \in keys})
CommitMembers(m, keys, value, deps, group) ==
    CommitWave(m,
        RecordAll(
            FoldSet(LAMBDA k, acc : Installed(acc, k, MemberEntry(m, k, value, deps[k], group)),
                    FoldSet(LAMBDA k, acc : Removed(acc, k), [m EXCEPT !.current = 0], keys),
                    keys),
            m, keys \cap m.observed),
        keys, value, group)

\* reject_group: the members keep no observations and are produced again.
RejectMember(m, k) ==
    IF IsDisplaced(m, k) THEN [m EXCEPT !.displaced[k].deps = NoDeps] ELSE m
RejectGroup(m, keys) ==
    Wave(FoldSet(LAMBDA k, acc : RejectMember(Displaced(TakePending(acc, k), k), k),
                 [m EXCEPT !.current = 0, !.spoiled = FALSE], keys),
         UNION {Mutate(Dirty, ReadersOf(m, k)) : k \in {k \in keys : IsProduced(m, k)}})
ObservedTwice(deps, group) ==
    \E k, l \in group :
        \/ \E a \in ToSet(deps[k].products), b \in ToSet(deps[l].products) :
              a[1] = b[1] /\ a[1] \notin group /\ a[2] # b[2]
        \/ \E u \in DOMAIN deps[k].facts \cap DOMAIN deps[l].facts :
              deps[k].facts[u] # deps[l].facts[u]

-----------------------------------------------------------------------------
(* ProductDriver::pull; the result is [memo, outcome, value, products, facts]. *)

Pulled(m, outcome, value, products, facts) ==
    [memo |-> m, outcome |-> outcome, value |-> value, products |-> products, facts |-> facts]
\* Mutant: what a waiting formula has read so far is forgotten.
UnblockForgets(m, k, deps) == TakePending([m EXCEPT !.current = 0, !.spoiled = FALSE], k)
Unblock(m, k, deps) ==
    Install([TakePending([m EXCEPT !.current = 0, !.spoiled = FALSE], k) EXCEPT
                !.pending[k] = deps], k, deps)
Abort(m, k) == TakePending([m EXCEPT !.current = 0, !.spoiled = FALSE], k)

FinishSingle(k, p) ==
    IF p.memo.spoiled
    THEN Pulled([p.memo EXCEPT !.current = 0, !.spoiled = FALSE, !.produced[k] = NoEntry],
                "waiting", 0, {k}, {})
    ELSE Pulled(CommitMembers(p.memo, {k}, p.value, (k :> p.deps), {}), "produced", p.value, {}, {})
FinishGroup(k, p, deps) ==
    IF p.memo.spoiled \/ ObservedTwice(deps, p.group)
    THEN Pulled(RejectGroup(p.memo, p.group), "waiting", 0, {k}, {})
    ELSE Pulled(CommitMembers(p.memo, p.group, p.value, deps, p.group), "produced", p.value, {}, {})
Finish(k, p) ==
    CASE p.outcome = "waiting" -> Pulled(Unblock(p.memo, k, p.deps), "waiting", 0, p.products, p.facts)
      [] p.outcome = "failed" -> Pulled(Abort(p.memo, k), "failed", 0, {}, {})
      [] p.outcome = "panicked" -> Pulled(p.memo, "panicked", 0, {}, {})
      [] p.outcome = "produced" /\ p.group = {} -> FinishSingle(k, p)
      [] p.outcome = "produced" /\ p.group # {} ->
            FinishGroup(k, p, [g \in p.group |-> IF g = k THEN p.deps ELSE p.memo.pending[g]])

PullPrepared(m, k, world) ==
    IF IsProduced(m, k) THEN Pulled(m, "produced", m.produced[k].value, {}, {})
    ELSE Finish(k, Produce([m EXCEPT !.current = k], k, world))
PullValidated(v, k, world) ==
    IF v.stale = 0 THEN PullPrepared(v.memo, k, world)
    ELSE IF v.stale # k THEN Pulled(PrepareStale(v.memo, v.stale), "waiting", 0, {v.stale}, {})
    ELSE PullPrepared(PrepareStale(v.memo, k), k, world)
\* Mutant: a retained answer is handed out without validation.
PullUnvalidated(m, k, world) == PullPrepared(m, k, world)
Pull(m, k, world) == PullValidated(StaleDependency(m, k), k, world)

\* ProductDriver::product_is_current
ProductIsCurrent(m, k) == IsProduced(m, k) /\ ~HasUnsettledInputs(m, k)

=============================================================================
