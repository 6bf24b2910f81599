----------------------------- MODULE DispatchRun -----------------------------
(***************************************************************************)
(* The interpreter's walk of a dispatch plan (src/ir_interp/dispatch_exec  *)
(* .rs), node by node, and the two kinds of door that start one            *)
(* (src/ir_interp/backend.rs): the entry of a function, whose arguments    *)
(* may arrive in lanes or not at all and whose pins are inputs, and a      *)
(* match site (case, with, receive), which has every input as a word,      *)
(* takes its pins from its scope and reads the bindings of the winner.     *)
(*                                                                         *)
(* The walk keeps what it has produced in one slot per subject, with a     *)
(* journal of the slots it wrote; a test that misses clears the slots that *)
(* were written since it began.                                            *)
(***************************************************************************)
EXTENDS DispatchMatrix

CONSTANTS
    Sites,      \* [door, count, prematch, rows (a set), calls (a set of inputs), scope]
    MaxRows,    \* bound: rows in a matrix
    Types       \* [type name -> the values of it that occur]

VARIABLES
    site,       \* the site being compiled and run
    rows,       \* its rows, in source order
    plan,       \* what they compile to
    phase,      \* "build", "refused", "panicked", "ready", "walk", "done"
    ops,        \* the operands of the current run: inputs and pins
    run,        \* [vals, journal]
    node,       \* the node the walk is at
    answer      \* how the last run ended

vars == <<site, rows, plan, phase, ops, run, node, answer>>

----------------------------------------------------------------------------
(* What the walk knows: DispatchExecState. *)

Omitted == <<"omitted">>
Word(v) == <<"word", v>>
Lanes(v) == <<"lanes", v>>
\* What is held of a position of a tuple in lanes for which no lane was sent.
Absent == <<"absent", <<"absent">>>>

RECURSIVE Gaps(_)
Gaps(v) == v = Absent[2] \/ (v[1] = "tuple" /\ \E i \in DOMAIN v[2] : Gaps(v[2][i]))

NewRun == [vals |-> <<>>, journal |-> <<>>]

Set(r, s, held) == [vals |-> (s :> held) @@ r.vals, journal |-> Append(r.journal, s)]

Undo(r, branch) ==
    LET undone == Range(SubSeq(r.journal, branch + 1, Len(r.journal)))
    IN [vals |-> Restrict(r.vals, DOMAIN r.vals \ undone),
        journal |-> SubSeq(r.journal, 1, branch)]

Nil == <<"atom", "nil">>
False == <<"atom", "false">>
True == <<"atom", "true">>
Falsy(v) == v \in {Nil, False}
Bool(b) == IF b THEN True ELSE False

\* How a step ended ("ok", "no_match" or "broken"), the value it gives, and
\* what is known after it.
Ended(is, v, r) == [is |-> is, value |-> v, run |-> r]
Ok(v, r) == Ended("ok", v, r)
NoMatch(r) == Ended("no_match", Nil, r)
Broken(r) == Ended("broken", Nil, r)

\* The question mark of the code: what comes next, if the step went well.
AndThen(step, Continue(_, _)) == IF step.is = "ok" THEN Continue(step.value, step.run) ELSE step

Holding(step, Holds(_)) ==
    AndThen(step, LAMBDA v, r : IF Holds(v) THEN Ok(v, r) ELSE NoMatch(r))

\* What one projection gives of a whole value: a set of at most one value.
Projection(v, step) ==
    CASE step[1] = "field" -> IF v[1] = "tuple" /\ step[2] \in DOMAIN v[2] THEN {v[2][step[2]]} ELSE {}
      [] step[1] = "member" -> IF v[1] = "struct" /\ step[2] \in DOMAIN v[3] THEN {v[3][step[2]]} ELSE {}
      [] step[1] = "head" -> IF v[1] = "list" /\ v[2] # <<>> THEN {Head(v[2])} ELSE {}
      [] step[1] = "tail" -> IF v[1] = "list" /\ v[2] # <<>> THEN {<<"list", Tail(v[2])>>} ELSE {}
      [] step[1] = "key" -> IF v[1] = "map" /\ step[2] \in DOMAIN v[2] THEN {v[2][step[2]]} ELSE {}
      [] step[1] = "bitfield" -> {}

\* A field of a tuple in lanes is a view of some of the lanes.
View(v) == CASE v = Absent[2] -> Absent [] v[1] = "tuple" -> Lanes(v) [] OTHER -> Word(v)

\* A projection of a subject that is held, as it is held then.  A missing part
\* of a word is a miss; lanes that lack a field contradict their own shape.
Projected(held, step, r) ==
    IF Projection(held[2], step) = {}
    THEN IF held[1] = "lanes" THEN Broken(r) ELSE NoMatch(r)
    ELSE LET v == CHOOSE x \in Projection(held[2], step) : TRUE
         IN Ok(IF held[1] = "lanes" THEN View(v) ELSE Word(v), r)

Filling(step, s) == AndThen(step, LAMBDA held, r : Ok(held, Set(r, s, held)))

RECURSIVE ResolveSubject(_, _, _), SubjectWord(_, _, _)

\* resolve_subject: fill the slot of a subject, and give what it holds.
ResolveSubject(o, s, r) ==
    IF s \in DOMAIN r.vals THEN Ok(r.vals[s], r)
    ELSE IF IsInput(s)
    THEN IF o.inputs[Root(s)] = Omitted THEN Broken(r) ELSE Filling(Ok(o.inputs[Root(s)], r), s)
    ELSE CASE Last(s)[1] = "bitfield" -> NoMatch(r)
           [] Last(s)[1] = "field" ->
                Filling(AndThen(ResolveSubject(o, Front(s), r),
                                LAMBDA held, k : Projected(held, Last(s), k)), s)
           [] OTHER ->
                Filling(AndThen(SubjectWord(o, Front(s), r),
                                LAMBDA v, k : Projected(Word(v), Last(s), k)), s)

\* subject_word: the value itself, as one word; a tuple in lanes is built, if
\* every position has its lane.
SubjectWord(o, s, r) ==
    AndThen(ResolveSubject(o, s, r),
            LAMBDA held, k : CASE held[1] = "word" -> Ok(held[2], k)
                               [] Gaps(held[2]) -> Broken(k)
                               [] OTHER -> Ok(held[2], Set(k, s, Word(held[2]))))

----------------------------------------------------------------------------
(* Bitstrings: read_bitstring. *)

\* How many bytes a field takes of those that are left: a set of at most one.
FieldLength(kind, size, last, left) ==
    CASE kind = "integer" -> {1}
      [] kind = "binary" /\ size = {} -> IF last THEN {left} ELSE {}
      [] OTHER -> size

FieldValue(kind, bytes) == IF kind = "integer" THEN <<"int", bytes[1]>> ELSE <<"bits", bytes>>

\* bit_size_value: {} where the field names no size, {n} where it has one;
\* a size that is no integer stops the read.
SizeValue(o, size, r) ==
    CASE size[1] = "none" -> {}
      [] size[1] = "literal" -> {<<"int", size[2]>>}
      [] size[1] = "binding" -> {r.vals[size[2]][2]}
      [] size[1] = "pin" -> {o.pins[size[2]]}

\* The fields one after another, each written to its slot as it is read.
ReadBitstring(o, bytes, fields, r) ==
    LET ReadField(acc, f) ==
          LET spec == Last(f)
              size == SizeValue(o, spec[4], acc.run)
              left == Len(acc.bytes)
              length == FieldLength(spec[3], {v[2] : v \in size}, spec[5], left)
          IN IF ~acc.ok \/ \E v \in size : v[1] # "int" THEN [acc EXCEPT !.ok = FALSE]
             ELSE IF length = {} \/ \E n \in length : n > left THEN [acc EXCEPT !.ok = FALSE]
             ELSE LET n == CHOOSE x \in length : TRUE
                  IN [ok |-> TRUE,
                      bytes |-> SubSeq(acc.bytes, n + 1, left),
                      run |-> Set(acc.run, f, Word(FieldValue(spec[3], SubSeq(acc.bytes, 1, n))))]
        read == FoldLeft(ReadField, [ok |-> TRUE, bytes |-> bytes, run |-> r], fields)
    IN IF read.ok /\ read.bytes = <<>> THEN Ok(True, read.run) ELSE NoMatch(read.run)

----------------------------------------------------------------------------
(* Questions, guards, nodes. *)

HelperPlans == [h \in DOMAIN Helpers |-> Plan(Helpers[h].rows, Helpers[h].arity, <<>>)]

\* apply_edge_evidence: what a match proves is resolved at once.
ApplyEvidence(o, subjects, r) ==
    FoldLeft(LAMBDA acc, s : AndThen(acc, LAMBDA v, k : ResolveSubject(o, s, k)), Ok(True, r), subjects)

RECURSIVE EvalGuard(_, _, _), Walk(_, _, _, _)

\* An operator of a guard applied.  Adding what is no integer gives no value.
Combine(op, a, b, r) ==
    CASE op \in {"and", "or"} -> Ok(Bool(~Falsy(b)), r)
      [] op = "eq" -> Ok(Bool(a = b), r)
      [] op = "add" -> IF a[1] = "int" /\ b[1] = "int" THEN Ok(<<"int", a[2] + b[2]>>, r) ELSE NoMatch(r)

\* Both operands are evaluated, unless the first decides.
EvalBinary(o, e, r) ==
    AndThen(EvalGuard(o, e[2], r), LAMBDA a, k :
        CASE e[1] = "and" /\ Falsy(a) -> Ok(False, k)
          [] e[1] = "or" /\ ~Falsy(a) -> Ok(True, k)
          [] OTHER -> AndThen(EvalGuard(o, e[3], k), LAMBDA b, m : Combine(e[1], a, b, m)))

EvalOperands(o, es, r) ==
    FoldLeft(LAMBDA acc, e : AndThen(acc, LAMBDA vs, k :
                 AndThen(EvalGuard(o, e, k), LAMBDA v, m : Ok(Append(vs, v), m))),
             Ok(<<>>, r), es)

\* A helper is a run of its own over its arguments; one that matches nothing
\* gives no value, and the body of the clause that wins is read off its run.
RunHelper(p, bodies, own) ==
    AndThen(Walk(p, own, p.root, NewRun), LAMBDA row, k :
        EvalGuard(own, GuardExpr(bodies[row], BindingSubjects(p.bindings[row])), k))

EvalCall(o, h, es, r) ==
    AndThen(EvalOperands(o, es, r), LAMBDA vs, k :
        [RunHelper(HelperPlans[h], Helpers[h].bodies,
                   [inputs |-> [i \in DOMAIN vs |-> Word(vs[i])], pins |-> <<>>]) EXCEPT !.run = k])

EvalGuard(o, e, r) ==
    CASE e[1] = "const" -> Ok(e[2], r)
      [] e[1] = "subject" -> SubjectWord(o, e[2], r)
      [] e[1] = "pin" -> Ok(o.pins[e[2]], r)
      [] e[1] = "not" -> AndThen(EvalGuard(o, e[2], r), LAMBDA v, k : Ok(Bool(Falsy(v)), k))
      [] e[1] = "call" -> EvalCall(o, e[2], e[3], r)
      [] OTHER -> EvalBinary(o, e, r)

\* The questions that want the whole value.  A key that is there fills the
\* slot of its value, a bitstring the slots of its fields.
WordHit(o, q, v, r) ==
    LET region == q.region
        Answered(yes) == IF yes THEN Ok(True, r) ELSE NoMatch(r)
    IN CASE region[1] = "equal" -> Answered(v = region[2])
         [] region[1] = "pinned" -> Answered(v = o.pins[region[2]])
         [] region[1] = "empty" -> Answered(v = <<"list", <<>>>>)
         [] region[1] = "cons" -> Answered(v[1] = "list" /\ v[2] # <<>>)
         [] region[1] = "map" -> Answered(v[1] = "map")
         [] region[1] = "key" -> Filling(Projected(Word(v), region, r), q.projections[1])
         [] region[1] = "bits" -> IF v[1] = "bits" THEN ReadBitstring(o, v[2], region[2], r) ELSE NoMatch(r)

\* A type is asked of a tuple in lanes position by position, if it has tuples of
\* that arity; the arity itself shows in the shape of the lanes.
HasTuples(type, n) == \E v \in Types[type] : v[1] = "tuple" /\ Len(v[2]) = n
TypeHit(type, held, r) ==
    IF held = Absent \/ (Gaps(held[2]) /\ HasTuples(type, Len(held[2][2]))) THEN Broken(r)
    ELSE IF held[2] \in Types[type] THEN Ok(True, r) ELSE NoMatch(r)
ArityHit(n, held, r) ==
    IF held = Absent THEN Broken(r)
    ELSE IF held[2][1] = "tuple" /\ Len(held[2][2]) = n THEN Ok(True, r) ELSE NoMatch(r)

\* region_hit.  A guard, a type and an arity take the subject as it is held.
RegionHit(p, o, q, r) ==
    CASE q.region[1] = "guard" -> Holding(EvalGuard(o, p.guards[q.region[2]], r), LAMBDA v : ~Falsy(v))
      [] q.region[1] = "type" ->
           AndThen(ResolveSubject(o, q.subject, r), LAMBDA held, k : TypeHit(q.region[2], held, k))
      [] q.region[1] = "arity" ->
           AndThen(ResolveSubject(o, q.subject, r), LAMBDA held, k : ArityHit(q.region[2], held, k))
      [] OTHER -> AndThen(SubjectWord(o, q.subject, r), LAMBDA v, k : WordHit(o, q, v, k))

Forgetting(step, branch) ==
    IF step.is = "no_match" THEN NoMatch(Undo(step.run, branch)) ELSE step

\* One test: a match keeps what it learned, a miss forgets it.
Test(p, o, q, r) ==
    Forgetting(AndThen(RegionHit(p, o, q, r), LAMBDA v, k : ApplyEvidence(o, q.projections, k)),
               Len(r.journal))

\* Where a test leads.
Target(at, t) == IF t.is = "ok" THEN at.onMatch ELSE at.onMiss

\* The whole walk from a node on, as a helper's run takes it.
Walk(p, o, n, r) ==
    LET Follow(at, t) == IF t.is = "broken" THEN t ELSE Walk(p, o, Target(at, t), t.run)
    IN CASE p.nodes[n].is = "fail" -> NoMatch(r)
         [] p.nodes[n].is = "outcome" -> Ok(p.nodes[n].row, r)
         [] p.nodes[n].is = "test" -> Follow(p.nodes[n], Test(p, o, p.nodes[n].question, r))

----------------------------------------------------------------------------
(* The behaviour: rows are added, compiled, and the plan is run. *)

NoPlan == [nodes |-> <<>>]
NoOperands == [inputs |-> <<>>, pins |-> <<>>]
NoAnswer == [is |-> "none"]

Init ==
    /\ site \in Sites
    /\ rows = <<>>
    /\ plan = NoPlan
    /\ phase = "build"
    /\ ops = NoOperands
    /\ run = NewRun
    /\ node = 0
    /\ answer = NoAnswer

AddRow(row) ==
    /\ phase = "build"
    /\ Len(rows) < MaxRows
    /\ rows' = Append(rows, row)
    /\ UNCHANGED <<site, plan, phase, ops, run, node, answer>>

\* finish: names that no input delivers are refused at an entry, where the
\* captured inputs are all there is; a match site looks its pins up by name.
Finish ==
    /\ phase = "build"
    /\ rows # <<>>
    /\ \E made \in {Plan(rows, site.count, site.prematch)} :
         LET undefined == site.door = "entry" /\ made.pins \ DOMAIN site.prematch # {}
         IN /\ phase' = IF undefined THEN "refused"
                        ELSE IF ~ProjectionsAreCharged(made) THEN "panicked" ELSE "ready"
            /\ plan' = IF undefined THEN NoPlan ELSE made
    /\ UNCHANGED <<site, rows, ops, run, node, answer>>

\* The parts of a value that a demand asks for.
RECURSIVE Sent(_, _)
Sent(v, demand) ==
    CASE demand = Ignore -> Absent[2]
      [] demand[1] = "fields" /\ v[1] = "tuple" ->
           <<"tuple", [i \in DOMAIN v[2] |->
                         Sent(v[2][i], IF i \in DOMAIN demand[2] THEN demand[2][i] ELSE Ignore)]>>
      [] OTHER -> v

\* How an argument may arrive: at an entry any argument may be left out, and a
\* tuple may come in lanes, all of them or those of the positions that the plan
\* demands; a match site has words.
Arrivals(v, demand) ==
    IF site.door = "site" THEN {Word(v)}
    ELSE {Word(v), Omitted} \cup {Lanes(x) : x \in {y \in {v, Sent(v, demand)} : y[1] = "tuple"}}

\* Where a door takes the pins of its plan from.
Pins(inputs) ==
    [n \in plan.pins |-> IF site.door = "entry" THEN inputs[site.prematch[n]]
                         ELSE Word(site.scope[n])]

\* A door: the entry refuses a call without a required input; every pin has
\* to be there as one word; then the walk starts at the root.
Enter(inputs) ==
    LET missing == \E i \in DOMAIN inputs : RequiredInput(plan, i) /\ inputs[i] = Omitted
        pins == Pins(inputs)
        unpinned == \E n \in plan.pins : pins[n][1] # "word"
        refused == (site.door = "entry" /\ missing) \/ unpinned
    IN /\ phase = "ready"
       /\ ops' = [inputs |-> inputs,
                  pins |-> IF refused THEN <<>> ELSE [n \in plan.pins |-> pins[n][2]]]
       /\ phase' = IF refused THEN "done" ELSE "walk"
       /\ answer' = IF refused THEN [is |-> "refused"] ELSE NoAnswer
       /\ node' = plan.root
       /\ run' = NewRun
       /\ UNCHANGED <<site, rows, plan>>

\* node, at a test.
VisitTest ==
    /\ phase = "walk"
    /\ plan.nodes[node].is = "test"
    /\ \E t \in {Test(plan, ops, plan.nodes[node].question, run)} :
         /\ run' = t.run
         /\ node' = Target(plan.nodes[node], t)
         /\ phase' = IF t.is = "broken" THEN "done" ELSE "walk"
         /\ answer' = IF t.is = "broken" THEN [is |-> "broken"] ELSE answer
    /\ UNCHANGED <<site, rows, plan, ops>>

\* What a match site reads off the run that decided: the names the winner
\* bound, one word each.
WinnerWords(row) ==
    FoldLeft(LAMBDA acc, b : AndThen(acc, LAMBDA bound, k :
                 AndThen(SubjectWord(ops, b.subject, k), LAMBDA v, m : Ok((b.name :> v) @@ bound, m))),
             Ok(<<>>, run), IF site.door = "entry" THEN <<>> ELSE plan.bindings[row])

\* node, at an outcome.
VisitOutcome ==
    /\ phase = "walk"
    /\ plan.nodes[node].is = "outcome"
    /\ phase' = "done"
    /\ \E words \in {WinnerWords(plan.nodes[node].row)} :
         /\ run' = words.run
         /\ answer' = IF words.is = "ok"
                      THEN [is |-> "row", row |-> plan.nodes[node].row, bound |-> words.value]
                      ELSE [is |-> "broken"]
    /\ UNCHANGED <<site, rows, plan, ops, node>>

\* node, at the fallback.
VisitFail ==
    /\ phase = "walk"
    /\ plan.nodes[node].is = "fail"
    /\ phase' = "done"
    /\ answer' = [is |-> "no_row"]
    /\ UNCHANGED <<site, rows, plan, ops, run, node>>

\* The plan is kept for the next call.
Return ==
    /\ phase = "done"
    /\ phase' = "ready"
    /\ ops' = NoOperands
    /\ run' = NewRun
    /\ node' = 0
    /\ answer' = NoAnswer
    /\ UNCHANGED <<site, rows, plan>>

Next ==
    \/ \E row \in site.rows : AddRow(row)
    \/ Finish
    \/ phase = "ready" /\ \E call \in site.calls :
         LET arrivals == [i \in 1..site.count |-> Arrivals(call[i], plan.demand[i])]
         IN \E inputs \in [1..site.count -> UNION Range(arrivals)] :
               /\ \A i \in 1..site.count : inputs[i] \in arrivals[i]
               /\ Enter(inputs)
    \/ VisitTest
    \/ VisitOutcome
    \/ VisitFail
    \/ Return

Spec == Init /\ [][Next]_vars

----------------------------------------------------------------------------
(* What a match means, without questions, graphs or slots.  A match is a   *)
(* set of at most one assignment of the names it binds.                    *)

RECURSIVE RefMatch(_, _, _), RefGuard(_, _)

RefAll(ps, vs, scope) ==
    FoldLeft(LAMBDA acc, i : {e @@ f : e \in acc, f \in RefMatch(ps[i], vs[i], scope)},
             {<<>>}, [i \in DOMAIN ps |-> i])

\* A bitstring matches if it can be cut so that every piece has the length
\* its field asks for.
RefBits(fields, bytes, scope) ==
    LET n == Len(fields)
        Piece(cut, i) == FieldValue(fields[i].kind, SubSeq(bytes, cut[i - 1] + 1, cut[i]))
        Named(cut, i, name) ==
            LET by == {j \in 1..(i - 1) : name \in DirectBindings(fields[j].pattern)}
            IN IF by = {} THEN scope[name] ELSE Piece(cut, Max(by))
        Fits(cut, i) ==
            LET f == fields[i]
                length == cut[i] - cut[i - 1]
            IN CASE f.kind = "integer" -> length = 1
                 [] f.kind = "binary" /\ f.size[1] = "none" -> i = n
                 [] f.kind = "binary" /\ f.size[1] = "literal" -> length = f.size[2]
                 [] f.kind = "binary" /\ f.size[1] = "var" -> Named(cut, i, f.size[2]) = <<"int", length>>
        cuts == {cut \in [0..n -> 0..Len(bytes)] :
                   /\ cut[0] = 0 /\ cut[n] = Len(bytes)
                   /\ \A i \in 1..n : cut[i - 1] <= cut[i]
                   /\ \A i \in 1..n : Fits(cut, i)}
    IN UNION {RefAll([i \in 1..n |-> fields[i].pattern], [i \in 1..n |-> Piece(cut, i)], scope) : cut \in cuts}

RefMatch(p, v, scope) ==
    LET When(holds) == IF holds THEN {<<>>} ELSE {}
    IN CASE p[1] = "wild" -> {<<>>}
         [] p[1] = "var" -> {p[2] :> v}
         [] p[1] = "as" -> {(p[2] :> v) @@ e : e \in RefMatch(p[3], v, scope)}
         [] p[1] = "pin" -> When(v = scope[p[2]])
         [] p[1] = "lit" -> When(v = p[2])
         [] p[1] = "tuple" ->
              IF v[1] = "tuple" /\ Len(v[2]) = Len(p[2]) THEN RefAll(p[2], v[2], scope) ELSE {}
         [] p[1] = "list" ->
              LET n == Len(p[2])
                  rest == IF p[3] = NoTail THEN <<"lit", <<"list", <<>>>>>> ELSE p[3]
              IN IF v[1] = "list" /\ Len(v[2]) >= n
                 THEN RefAll(Append(p[2], rest),
                             Append(SubSeq(v[2], 1, n), <<"list", SubSeq(v[2], n + 1, Len(v[2]))>>), scope)
                 ELSE {}
         [] p[1] = "map" ->
              IF v[1] = "map" /\ \A i \in DOMAIN p[2] : p[2][i][1] \in DOMAIN v[2]
              THEN RefAll([i \in DOMAIN p[2] |-> p[2][i][2]], [i \in DOMAIN p[2] |-> v[2][p[2][i][1]]], scope)
              ELSE {}
         [] p[1] = "struct" ->
              IF v \in Types[p[2]]
              THEN RefAll([i \in DOMAIN p[3] |-> p[3][i][2]], [i \in DOMAIN p[3] |-> v[3][p[3][i][1]]], scope)
              ELSE {}
         [] p[1] = "bits" -> IF v[1] = "bits" THEN RefBits(p[2], v[2], scope) ELSE {}

\* The assignments of a row that accepts these arguments.
RefRow(row, args, scope) ==
    {e \in RefAll(row.patterns, args, scope) :
        /\ \A i \in DOMAIN row.types : args[row.types[i][1]] \in Types[row.types[i][2]]
        /\ row.guard = NoGuard \/ \E v \in RefGuard(row.guard, e @@ scope) : ~Falsy(v)}

RefRows(rs, args, scope) == {r \in DOMAIN rs : RefRow(rs[r], args, scope) # {}}

Least(S) == IF S = {} THEN 0 ELSE Min(S)

\* What a helper answers: the body of the first of its rows to accept.
RefHelper(h, args) ==
    UNION {UNION {RefGuard(h.bodies[r], b) : b \in RefRow(h.rows[r], args, <<>>)} :
             r \in {Least(RefRows(h.rows, args, <<>>))} \ {0}}

\* The value of a guard, if it has one.
RefGuard(e, env) ==
    CASE e[1] = "const" -> {e[2]}
      [] e[1] = "name" -> {env[e[2]]}
      [] e[1] = "not" -> {Bool(Falsy(v)) : v \in RefGuard(e[2], env)}
      [] e[1] = "and" -> UNION {IF Falsy(a) THEN {False}
                                ELSE {Bool(~Falsy(b)) : b \in RefGuard(e[3], env)} : a \in RefGuard(e[2], env)}
      [] e[1] = "or" -> UNION {IF Falsy(a) THEN {Bool(~Falsy(b)) : b \in RefGuard(e[3], env)}
                               ELSE {True} : a \in RefGuard(e[2], env)}
      [] e[1] = "eq" -> {Bool(a = b) : a \in RefGuard(e[2], env), b \in RefGuard(e[3], env)}
      [] e[1] = "add" -> UNION {IF a[1] = "int" /\ b[1] = "int" THEN {<<"int", a[2] + b[2]>>} ELSE {} :
                                a \in RefGuard(e[2], env), b \in RefGuard(e[3], env)}
      [] e[1] = "call" ->
           UNION {RefHelper(Helpers[e[2]], args) :
                    args \in {as \in [DOMAIN e[3] -> UNION {RefGuard(e[3][i], env) : i \in DOMAIN e[3]}] :
                                \A i \in DOMAIN e[3] : as[i] \in RefGuard(e[3][i], env)}}

\* The names that were bound before the match.
RefScope(call) ==
    IF site.door = "entry" THEN [n \in DOMAIN site.prematch |-> call[site.prematch[n]]] ELSE site.scope

\* The first row that accepts a call, or 0.
FirstRow(call) == Least(RefRows(rows, call, RefScope(call)))

\* What a call that goes to row r is answered.
RefAnswer(call, r) ==
    IF r = 0 THEN [is |-> "no_row"]
    ELSE [is |-> "row", row |-> r,
          bound |-> IF site.door = "entry" THEN <<>>
                    ELSE CHOOSE e \in RefRow(rows[r], call, RefScope(call)) : TRUE]

----------------------------------------------------------------------------
(* Properties. *)

\* The calls that agree with what was passed.
RECURSIVE Agrees(_, _)
Agrees(part, v) ==
    \/ part \in {v, Absent[2]}
    \/ /\ part[1] = "tuple" /\ v[1] = "tuple" /\ DOMAIN part[2] = DOMAIN v[2]
       /\ \A i \in DOMAIN v[2] : Agrees(part[2][i], v[2][i])
Completions(inputs) ==
    {call \in site.calls : \A i \in DOMAIN call : inputs[i] # Omitted => Agrees(inputs[i][2], call[i])}

\* The walk of the graph decides what the clauses mean: it takes the first row
\* in source order whose patterns, types and guard accept the arguments, it
\* binds the names of that row to the parts they stand for, and it falls
\* through only when no row accepts.  This is so whatever prefixes the graph
\* shares, whether a tuple arrives as a word or in lanes, and whatever the
\* arguments, and the positions of a tuple, that were left out would have been;
\* the walk never reaches for a part it cannot have, and a plan is never found
\* inconsistent with its demand.
DecidesFirstMatch ==
    /\ phase # "panicked"
    /\ phase = "done" /\ answer.is # "refused" =>
          \A call \in Completions(ops.inputs) : answer = RefAnswer(call, FirstRow(call))

RECURSIVE ReadsAreProjected(_, _)
ReadsAreProjected(n, known) ==
    LET at == plan.nodes[n]
        Known(s) == IsInput(s) \/ s \in known
        read == IF at.question.region[1] = "guard"
                THEN {l[2] : l \in {m \in Leaves(plan.guards[at.question.region[2]]) : m[1] = "subject"}}
                ELSE {at.question.subject}
    IN CASE at.is = "fail" -> TRUE
         [] at.is = "outcome" -> \A b \in Range(plan.bindings[at.row]) : Known(b.subject)
         [] at.is = "test" ->
              /\ \A s \in read : Known(s)
              /\ ReadsAreProjected(at.onMatch, known \cup Range(at.question.projections))
              /\ ReadsAreProjected(at.onMiss, known)

\* On every path of the graph, a part of an input is read (by a question, by
\* a guard or by a binding of the row that wins) only after a question whose
\* match proved that the part exists: no miss edge leads to a read that only
\* the match had made safe.
ProjectedBeforeRead == phase = "ready" => ReadsAreProjected(plan.root, {})

\* What a demand lets through of a value.
RECURSIVE Demanded(_, _)
Demanded(v, d) ==
    CASE d = Whole -> v
      [] d = Ignore -> <<"unseen">>
      [] d[1] = "fields" ->
           IF v[1] # "tuple" THEN <<"other">>
           ELSE <<"tuple", [i \in DOMAIN v[2] |-> Demanded(v[2][i], IF i \in DOMAIN d[2] THEN d[2][i] ELSE Ignore)]>>
      [] d[1] = "shape" ->
           IF v[1] # "list" THEN <<"other">>
           ELSE IF v[2] = <<>> THEN v ELSE <<"cons", Demanded(v[2][1], d[2])>>

\* Two calls that agree on the demanded parts of their inputs are decided for
\* the same row: what the plan says it reads of each input is enough to decide.
DemandedPartsDecide ==
    phase = "ready" =>
        \A a, b \in site.calls :
            (\A i \in 1..site.count : Demanded(a[i], plan.demand[i]) = Demanded(b[i], plan.demand[i])) =>
            FirstRow(a) = FirstRow(b)
==============================================================================
