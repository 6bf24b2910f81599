--------------------------- MODULE DispatchMatrix ---------------------------
(***************************************************************************)
(* How clauses become a decision graph (src/dispatch_matrix): patterns are *)
(* turned into questions about subjects (pattern.rs), rows of questions    *)
(* into a graph that shares common prefixes (mod.rs), and every question   *)
(* is charged to the input it reads (mod.rs, demand.rs).                   *)
(*                                                                         *)
(* A value is a tagged tuple: <<"int", n>>, <<"atom", a>>, <<"tuple", vs>>,*)
(* <<"list", vs>>, <<"map", f>>, <<"struct", t, f>>, <<"bits", bytes>>.    *)
(* A pattern is one too: "wild", "var", "as", "pin", "lit", "tuple",       *)
(* "list", "map", "struct", "bits".                                        *)
(*                                                                         *)
(* A subject is the path that leads to it, from an input through the       *)
(* projections taken.  The producer numbers subjects and remembers, per    *)
(* reference and per projection, the number it gave: a path is the same    *)
(* identity without the table.                                             *)
(***************************************************************************)
EXTENDS Naturals, SequencesExt

CONSTANT Helpers    \* the functions guards may call: name -> [arity, rows, bodies]

----------------------------------------------------------------------------
(* Subjects and questions. *)

Input(i) == <<<<"in", i>>>>

Project(s, step) == Append(s, step)

IsInput(s) == Len(s) = 1

Root(s) == s[1][2]

\* A region asked of a subject, and the projections that its match proves.
\* The proofs on the edges repeat the predicate and are left out.
Question(s, region, projections) ==
    [subject |-> s, region |-> region, projections |-> projections]

----------------------------------------------------------------------------
(* Patterns to questions. *)

Produced(questions, bindings) == [questions |-> questions, bindings |-> bindings]

Nothing == Produced(<<>>, <<>>)

Ask(q) == Produced(<<q>>, <<>>)

Bind(name, s) == Produced(<<>>, <<[name |-> name, subject |-> s]>>)

Then(a, b) == Produced(a.questions \o b.questions, a.bindings \o b.bindings)

NoTail == <<"none">>

RECURSIVE DirectBindings(_)
DirectBindings(p) ==
    CASE p[1] = "var" -> {p[2]}
      [] p[1] = "as" -> {p[2]} \cup DirectBindings(p[3])
      [] OTHER -> {}

\* The subjects of a bitstring's fields.  A size that names an earlier field
\* of the same bitstring is read from it; any other name is a pin.
BitstringSubjects(s, fields) ==
    LET AddField(acc, i) ==
          LET f == fields[i]
              size == IF f.size[1] # "var" THEN f.size
                      ELSE IF f.size[2] \in DOMAIN acc.bound
                           THEN <<"binding", acc.bound[f.size[2]]>>
                           ELSE <<"pin", f.size[2]>>
              previous == IF i = 1 THEN <<>> ELSE Last(acc.subjects)
              field == Project(s, <<"bitfield", previous, f.kind, size, i = Len(fields)>>)
          IN [subjects |-> Append(acc.subjects, field),
              bound |-> [n \in DirectBindings(f.pattern) |-> field] @@ acc.bound]
    IN FoldLeft(AddField, [subjects |-> <<>>, bound |-> <<>>],
                [i \in DOMAIN fields |-> i]).subjects

RECURSIVE AppendPattern(_, _), AppendListPattern(_, _, _)

AppendPatterns(ps, subjects) ==
    FoldLeft(LAMBDA acc, i : Then(acc, AppendPattern(ps[i], subjects[i])),
             Nothing, [i \in DOMAIN ps |-> i])

AppendMap(entries, s) ==
    LET AppendEntry(acc, e) ==
          LET value == Project(s, <<"key", e[1]>>)
          IN Then(acc, Then(Ask(Question(s, <<"key", e[1]>>, <<value>>)),
                            AppendPattern(e[2], value)))
    IN FoldLeft(AppendEntry, Ask(Question(s, <<"map">>, <<>>)), entries)

\* Mutant: a cons proves its head and not its tail.
AppendListPatternHead(elems, tail, s) ==
    LET head == Project(s, <<"head">>)
        rest == Project(s, <<"tail">>)
        end(at) == IF tail = NoTail THEN Ask(Question(at, <<"empty">>, <<>>))
                   ELSE AppendPattern(tail, at)
    IN IF elems = <<>> THEN end(s)
       ELSE Then(Ask(Question(s, <<"cons">>, <<head>>)),
                 Then(AppendPattern(elems[1], head),
                      IF Len(elems) = 1 THEN end(rest)
                      ELSE AppendListPattern(Tail(elems), tail, rest)))

\* append_list_pattern: one cons question per element, then the tail.
AppendListPattern(elems, tail, s) ==
    LET head == Project(s, <<"head">>)
        rest == Project(s, <<"tail">>)
        end(at) == IF tail = NoTail THEN Ask(Question(at, <<"empty">>, <<>>))
                   ELSE AppendPattern(tail, at)
    IN IF elems = <<>> THEN end(s)
       ELSE Then(Ask(Question(s, <<"cons">>, <<head, rest>>)),
                 Then(AppendPattern(elems[1], head),
                      IF Len(elems) = 1 THEN end(rest)
                      ELSE AppendListPattern(Tail(elems), tail, rest)))

\* append_pattern: the questions a pattern asks of a subject, in the order in
\* which they are asked, and the names it binds.
AppendPattern(p, s) ==
    CASE p[1] = "wild" -> Nothing
      [] p[1] = "var" -> Bind(p[2], s)
      [] p[1] = "as" -> Then(Bind(p[2], s), AppendPattern(p[3], s))
      [] p[1] = "pin" -> Ask(Question(s, <<"pinned", p[2]>>, <<>>))
      [] p[1] = "lit" -> Ask(Question(s, <<"equal", p[2]>>, <<>>))
      [] p[1] = "tuple" ->
           LET fields == [i \in DOMAIN p[2] |-> Project(s, <<"field", i>>)]
           IN Then(Ask(Question(s, <<"arity", Len(p[2])>>, fields)),
                   AppendPatterns(p[2], fields))
      [] p[1] = "list" -> AppendListPattern(p[2], p[3], s)
      [] p[1] = "map" -> AppendMap(p[2], s)
      [] p[1] = "struct" ->
           LET fields == [i \in DOMAIN p[3] |-> Project(s, <<"member", p[3][i][1]>>)]
           IN Then(Ask(Question(s, <<"type", p[2]>>, fields)),
                   AppendPatterns([i \in DOMAIN p[3] |-> p[3][i][2]], fields))
      [] p[1] = "bits" ->
           LET fields == BitstringSubjects(s, p[2])
           IN Then(Ask(Question(s, <<"bits", fields>>, fields)),
                   AppendPatterns([i \in DOMAIN p[2] |-> p[2][i].pattern], fields))

----------------------------------------------------------------------------
(* Guards, pins, rows. *)

NoGuard == <<"none">>

\* guard_expr_from_ast: a name is a binding of the row, or else a pin.
RECURSIVE GuardExpr(_, _)
GuardExpr(e, bound) ==
    CASE e[1] = "const" -> e
      [] e[1] = "name" -> IF e[2] \in DOMAIN bound THEN <<"subject", bound[e[2]]>>
                          ELSE <<"pin", e[2]>>
      [] e[1] = "not" -> <<"not", GuardExpr(e[2], bound)>>
      [] e[1] = "call" -> <<"call", e[2], [i \in DOMAIN e[3] |-> GuardExpr(e[3][i], bound)]>>
      [] OTHER -> <<e[1], GuardExpr(e[2], bound), GuardExpr(e[3], bound)>>

\* PatternGuardExpr::leaves: the subjects and pins a guard reads.  A helper
\* call reads what its arguments read.
RECURSIVE Leaves(_)
Leaves(e) ==
    CASE e[1] = "const" -> {}
      [] e[1] \in {"subject", "pin"} -> {e}
      [] e[1] = "not" -> Leaves(e[2])
      [] e[1] = "call" -> UNION {Leaves(e[3][i]) : i \in DOMAIN e[3]}
      [] OTHER -> Leaves(e[2]) \cup Leaves(e[3])

BindingSubjects(bindings) ==
    FoldLeft(LAMBDA acc, b : (b.name :> b.subject) @@ acc, <<>>, bindings)

\* add_row: the questions of the patterns, then the annotated types, then the
\* guard, which rides the first input and has an identity of its own.
Arm(rows, r) ==
    LET row == rows[r]
        p == AppendPatterns(row.patterns, [i \in DOMAIN row.patterns |-> Input(i)])
        typed == [i \in DOMAIN row.types |->
                    Question(Input(row.types[i][1]), <<"type", row.types[i][2]>>, <<>>)]
        guarded == IF row.guard = NoGuard THEN <<>>
                   ELSE <<Question(Input(1), <<"guard", r>>, <<>>)>>
    IN [row |-> r,
        questions |-> p.questions \o typed \o guarded,
        bindings |-> p.bindings,
        guard |-> IF row.guard = NoGuard THEN NoGuard
                  ELSE GuardExpr(row.guard, BindingSubjects(p.bindings))]

\* The pins one question reads besides its subject.
QuestionPins(q) ==
    CASE q.region[1] = "pinned" -> {q.region[2]}
      [] q.region[1] = "bits" ->
           {Last(f)[4][2] : f \in {g \in Range(q.region[2]) : Last(g)[4][1] = "pin"}}
      [] OTHER -> {}

GuardPins(guard) ==
    IF guard = NoGuard THEN {} ELSE {l[2] : l \in {m \in Leaves(guard) : m[1] = "pin"}}

\* Every name the rows reach for and do not bind.
PlanPins(arms) ==
    UNION {GuardPins(arms[r].guard)
             \cup UNION {QuestionPins(q) : q \in Range(arms[r].questions)} : r \in DOMAIN arms}

----------------------------------------------------------------------------
(* Arms to a graph: compile_arm_sequence. *)

Node(nodes, node) == [nodes |-> Append(nodes, node), at |-> Len(nodes) + 1]

FailNode == [is |-> "fail"]

OutcomeNode(arm) == [is |-> "outcome", row |-> arm.row]

TestNode(q, onMatch, onMiss) ==
    [is |-> "test", question |-> q, onMatch |-> onMatch, onMiss |-> onMiss]

CompileSingleArm(arm, onMiss, nodes) ==
    FoldLeft(LAMBDA g, q : Node(g.nodes, TestNode(q, g.at, onMiss)),
             Node(nodes, OutcomeNode(arm)), Reverse(arm.questions))

\* How many arms, from the first on, begin with the same question.
SharedCount(arms) ==
    LET differs == {i \in DOMAIN arms : \/ arms[i].questions = <<>>
                                        \/ arms[i].questions[1] # arms[1].questions[1]}
    IN IF differs = {} THEN Len(arms) ELSE Min(differs) - 1

RECURSIVE CompileArms(_, _, _)

\* Mutant: a miss below a shared question skips the arms after the group.
CompileArmsSkip(arms, fallback, nodes) ==
    IF arms = <<>> THEN [nodes |-> nodes, at |-> fallback]
    ELSE IF arms[1].questions = <<>> THEN Node(nodes, OutcomeNode(arms[1]))
    ELSE LET shared == SharedCount(arms)
             after == CompileArms(SubSeq(arms, shared + 1, Len(arms)), fallback, nodes)
             stripped == [i \in 1..shared |-> [arms[i] EXCEPT !.questions = Tail(@)]]
             matched == CompileArms(stripped, fallback, after.nodes)
         IN IF shared > 1
            THEN Node(matched.nodes, TestNode(arms[1].questions[1], matched.at, after.at))
            ELSE CompileSingleArm(arms[1], after.at, after.nodes)

\* An arm with no question left decides; arms that begin with the same
\* question share the test, and what misses below it goes on after them.
CompileArms(arms, fallback, nodes) ==
    IF arms = <<>> THEN [nodes |-> nodes, at |-> fallback]
    ELSE IF arms[1].questions = <<>> THEN Node(nodes, OutcomeNode(arms[1]))
    ELSE LET shared == SharedCount(arms)
             after == CompileArms(SubSeq(arms, shared + 1, Len(arms)), fallback, nodes)
             stripped == [i \in 1..shared |-> [arms[i] EXCEPT !.questions = Tail(@)]]
             matched == CompileArms(stripped, after.at, after.nodes)
         IN IF shared > 1
            THEN Node(matched.nodes, TestNode(arms[1].questions[1], matched.at, after.at))
            ELSE CompileSingleArm(arms[1], after.at, after.nodes)

----------------------------------------------------------------------------
(* What a graph asks of its inputs: the demand lattice. *)

Ignore == <<"ignore">>
Whole == <<"whole">>
TupleFields(f) == <<"fields", f>>
ListShape(d) == <<"shape", d>>

RECURSIVE JoinDemand(_, _)
JoinDemand(a, b) ==
    CASE a = Whole \/ b = Ignore -> a
      [] a = Ignore -> b
      [] b = Whole -> b
      [] a[1] = "shape" /\ b[1] = "shape" -> ListShape(JoinDemand(a[2], b[2]))
      [] a[1] = "fields" /\ b[1] = "fields" ->
           LET At(f, i) == IF i \in DOMAIN f THEN f[i] ELSE Ignore
           IN TupleFields([i \in DOMAIN a[2] \cup DOMAIN b[2] |->
                             JoinDemand(At(a[2], i), At(b[2], i))])
      [] OTHER -> Whole

\* Mutant: the tail of a list asks for no more than the shape.
DemandTailAsShape(step, d) ==
    CASE step[1] = "field" -> TupleFields(step[2] :> d)
      [] step[1] = "head" -> ListShape(d)
      [] step[1] = "tail" -> ListShape(Ignore)
      [] OTHER -> Whole

\* Only a tuple field and a list head are positions the lattice can name.
DemandAtStep(step, d) ==
    CASE step[1] = "field" -> TupleFields(step[2] :> d)
      [] step[1] = "head" -> ListShape(d)
      [] OTHER -> Whole

RECURSIVE SubjectDemand(_, _)
SubjectDemand(s, d) ==
    IF IsInput(s) THEN d ELSE SubjectDemand(Front(s), DemandAtStep(Last(s), d))

RegionDemand(region) ==
    CASE region[1] \in {"empty", "cons"} -> ListShape(Ignore)
      [] region[1] = "arity" -> TupleFields(<<>>)
      [] OTHER -> Whole

\* charge_node: what a test asks of the inputs, as a set of (input, demand).
\* A guard is charged by its leaves, not by the subject it rides; a pin by the
\* input that delivers it, if one does.
Charges(node, guards, prematch) ==
    LET pin(names) == {<<prematch[n], Whole>> : n \in names \cap DOMAIN prematch}
        subject(s, d) == <<Root(s), SubjectDemand(s, d)>>
        q == node.question
    IN CASE node.is # "test" -> {}
         [] node.is = "test" /\ q.region[1] = "guard" ->
              {subject(l[2], Whole) : l \in {m \in Leaves(guards[q.region[2]]) : m[1] = "subject"}}
                \cup pin(GuardPins(guards[q.region[2]]))
         [] OTHER -> {subject(q.subject, RegionDemand(q.region))} \cup pin(QuestionPins(q))

InputDemand(nodes, count, guards, prematch) ==
    LET Charge(demand, c) == [demand EXCEPT ![c[1]] = JoinDemand(@, c[2])]
        ChargeNode(demand, node) ==
            FoldLeft(Charge, demand, SetToSeq(Charges(node, guards, prematch)))
    IN FoldLeft(ChargeNode, [i \in 1..count |-> Ignore], nodes)

\* finish: the plan of these rows over count inputs, of which prematch names
\* those that deliver what was bound before the match.
Plan(rows, count, prematch) ==
    LET arms == [r \in DOMAIN rows |-> Arm(rows, r)]
        guards == [r \in DOMAIN rows |-> arms[r].guard]
        graph == CompileArms(arms, 1, <<FailNode>>)
    IN [nodes |-> graph.nodes,
        root |-> graph.at,
        demand |-> InputDemand(graph.nodes, count, guards, prematch),
        guards |-> guards,
        bindings |-> [r \in DOMAIN rows |-> arms[r].bindings],
        pins |-> PlanPins(arms)]

RequiredInput(plan, i) == plan.demand[i] # Ignore

\* ensure_projections_ride_a_charged_input.
ProjectionsAreCharged(plan) ==
    \A n \in DOMAIN plan.nodes : plan.nodes[n].is = "test" =>
        \A s \in Range(plan.nodes[n].question.projections) : RequiredInput(plan, Root(s))
=============================================================================
