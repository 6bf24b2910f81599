------------------------------ MODULE FactEngine ------------------------------
(***************************************************************************)
(* The compiler's work graph (compiler2): scheduler.rs over the agenda of  *)
(* agenda.rs, the fact table of facts.rs and the dependency index of       *)
(* deps.rs.  Jobs publish facts and read facts; a job runs again when what *)
(* it read moves, waits when what it needs is missing, and a fact is       *)
(* settled when nothing beneath it can still move.                         *)
(*                                                                         *)
(* One thread drives the graph, so a completion, a drain and a delivery of *)
(* external movements are one action each; what a run computes is chosen   *)
(* freely from MayRead, MayClaim and MayWait.  A revision counter is kept  *)
(* as "bottom" (0) or "content" (1): the code compares two revisions only  *)
(* within one replacement, where an increment always shows.  Jobs, answers *)
(* and facts are numbers, in their semantic order.                         *)
(***************************************************************************)
EXTENDS Naturals, Sequences, FiniteSets, FiniteSetsExt, Folds

CONSTANTS Jobs,        \* P::Run; a job is also the publisher of its own answer
          Answers,     \* the publishers: every job, and further answers
          RunOf,       \* Publisher::run, the job that gives an answer
          Facts,       \* fact keys of the table
          Externals,   \* keys whose state is owned outside (products)
          Cumulative,  \* ClaimShape::is_cumulative
          MayRead,     \* MayRead[a]: uses a run may read for answer a
          MayClaim,    \* MayClaim[a]: facts a run may publish for answer a
          MayWait,     \* MayWait[j]: uses a run of j may block on
          Producer,    \* the fact -> producer map of demand_fact_producer
          Fallible,    \* jobs whose run may end in an error
          Programs     \* sets of jobs: what the front door may be given to start

Keys == Facts \cup Externals
Use == [fact : Keys, need : {"current", "settled"}]

ASSUME ShapeAssumption ==
  /\ Jobs \subseteq Answers /\ Answers \subseteq Nat
  /\ RunOf \in [Answers -> Jobs] /\ \A j \in Jobs : RunOf[j] = j
  /\ Facts \subseteq Nat /\ Externals \subseteq Nat /\ Facts \cap Externals = {}
  /\ Cumulative \subseteq Facts
  /\ MayRead \in [Answers -> SUBSET Use] /\ MayWait \in [Jobs -> SUBSET Use]
  /\ MayClaim \in [Answers -> SUBSET Facts] /\ Producer \in [Facts -> Jobs]
  /\ Fallible \subseteq Jobs /\ Programs \subseteq SUBSET Jobs

VARIABLE eng
(***************************************************************************)
(* eng.agenda    the FIFO of runnable jobs, without duplicates             *)
(* eng.slot[f]   FactSlot: publishers, the dirty and the unfinal ones      *)
(* eng.reads[a], eng.outputs[a], eng.waits[j], eng.owned[j]                *)
(*               DependencyIndex; its inverse indexes are computed         *)
(* eng.ran       jobs that have completed a run (has_run)                  *)
(* eng.rebased   answers whose ground shifted since their last conclusion  *)
(* eng.final[a]  ReadFinality; an absent entry is a pending count of 0     *)
(* eng.ext[x]    the state of an external dependency                       *)
(* eng.chg       changes still to be dispatched; empty between actions     *)
(* eng.moved     keys whose content moved in the last action               *)
(* eng.program   the jobs the front door starts                            *)
(* eng.failed    history: jobs whose run failed and that are not queued again *)
(***************************************************************************)
vars == <<eng>>

Slot == [pubs : SUBSET Answers, dirty : SUBSET Answers, unfinal : SUBSET Answers, rev : {0, 1}]
NoSlot == [pubs |-> {}, dirty |-> {}, unfinal |-> {}, rev |-> 0]
Pending(n) == [kind |-> "pending", n |-> n]
Quiescent(n) == IF n = 0 THEN Pending(0) ELSE [kind |-> "quiescent", n |-> n]

TypeOK ==
  /\ eng.agenda \in Seq(Jobs)
  /\ eng.slot \in [Facts -> Slot]
  /\ \A f \in Facts : eng.slot[f].dirty \cup eng.slot[f].unfinal \subseteq eng.slot[f].pubs
  /\ eng.reads \in [Answers -> SUBSET Use] /\ eng.outputs \in [Answers -> SUBSET Facts]
  /\ eng.waits \in [Jobs -> SUBSET Use] /\ eng.owned \in [Jobs -> SUBSET Answers]
  /\ eng.ran \subseteq Jobs /\ eng.rebased \subseteq Answers
  /\ eng.final \in [Answers -> [kind : {"pending", "quiescent"}, n : Nat]]
  /\ eng.ext \in [Externals -> [present : BOOLEAN, settled : BOOLEAN]]
  /\ eng.chg = <<>> /\ eng.moved \subseteq Keys
  /\ eng.program \in Programs /\ eng.failed \subseteq Fallible

Init ==
  \E program \in Programs :
  eng = [agenda |-> <<>>, slot |-> [f \in Facts |-> NoSlot],
         reads |-> [a \in Answers |-> {}], outputs |-> [a \in Answers |-> {}],
         waits |-> [j \in Jobs |-> {}], owned |-> [j \in Jobs |-> {}],
         ran |-> {}, rebased |-> {}, final |-> [a \in Answers |-> Pending(0)],
         ext |-> [x \in Externals |-> [present |-> FALSE, settled |-> FALSE]],
         chg |-> <<>>, moved |-> {}, program |-> program, failed |-> {}]

\* Thread e through op for every member of S, in semantic order.
Each(op(_, _), e, S) == MapThenFoldSet(LAMBDA x, acc : op(acc, x), e, LAMBDA x : x, Max, S)

-----------------------------------------------------------------------------
(* FactSlot and dependency states.                                         *)

LocallySettled(s) == s.pubs # {} /\ s.dirty = {}
QuietSlot(s) == s.dirty = {} /\ s.unfinal = {}
SettledSlot(s) == LocallySettled(s) /\ s.unfinal = {}

Present(e, k) == IF k \in Externals THEN e.ext[k].present ELSE e.slot[k].pubs # {}
Quiet(e, k) == IF k \in Externals THEN e.ext[k].settled ELSE QuietSlot(e.slot[k])
Settled(e, k) == IF k \in Externals THEN e.ext[k].settled ELSE SettledSlot(e.slot[k])
\* dependency_satisfies.
Satisfies(e, u) == Present(e, u.fact) /\ (u.need = "settled" => Settled(e, u.fact))

Subscribers(e, u) == {a \in Answers : u \in e.reads[a]}
Waiters(e, u) == {j \in Jobs : u \in e.waits[j]}
UsesOf(e, a, k) == {u \in e.reads[a] : u.fact = k}
Queued(e, j) == \E i \in DOMAIN e.agenda : e.agenda[i] = j

IsUnfinal(e, a) == e.final[a].kind = "pending" /\ e.final[a].n > 0
CountUnfinalReads(e, a) == Cardinality({u \in e.reads[a] : ~Quiet(e, u.fact)})

\* Agenda::enqueue coalesces a job that is already pending.
Enqueue(e, j) ==
  IF Queued(e, j) THEN e ELSE [e EXCEPT !.agenda = Append(@, j), !.failed = @ \ {j}]

\* A change is noted when a reader can tell.
NoteChange(e, c) ==
  IF c.move # "none" \/ c.appeared \/ c.ready THEN [e EXCEPT !.chg = Append(@, c)] ELSE e

\* Replace f's slot, which was `old`.
Put(e, f, old, new, move) ==
  NoteChange([e EXCEPT !.slot[f] = new],
             [key |-> f, move |-> move, appeared |-> old.pubs = {} /\ new.pubs # {},
              ready |-> SettledSlot(old) # SettledSlot(new)])

Toggle(S, a, member) == IF member THEN S \cup {a} ELSE S \ {a}

\* FactTable::set_publisher_unfinal.
SetPublisherUnfinal(e, f, a, unfinal) ==
  IF a \in e.slot[f].pubs
    THEN Put(e, f, e.slot[f], [e.slot[f] EXCEPT !.unfinal = Toggle(@, a, unfinal)], "none")
    ELSE e

\* FactTable::mark_dirty.
MarkDirty(e, a, fs) ==
  LET dirty(acc, f) == Put(acc, f, acc.slot[f], [acc.slot[f] EXCEPT !.dirty = @ \cup {a}], "none")
  IN Each(dirty, e, {f \in fs : a \in e.slot[f].pubs})

-----------------------------------------------------------------------------
(* Transitive finality: quiet flips travel from a fact to the answers that *)
(* read it and on to the facts those publish.                              *)

\* ReadFinality::after_edge, for every use of one fact at once.
AfterEdges(fin, n, quiet) ==
  IF ~quiet THEN Pending(fin.n + n)
  ELSE LET left == IF fin.n < n THEN 0 ELSE fin.n - n
       IN IF fin.kind = "pending" THEN Pending(left) ELSE Quiescent(left)

\* If a's finality is not what it was, its claims change with it.
CarryFlip(before, e, a) ==
  LET carry(acc, f) == SetPublisherUnfinal(acc, f, a, IsUnfinal(e, a))
  IN IF IsUnfinal(before, a) = IsUnfinal(e, a) THEN e ELSE Each(carry, e, e.outputs[a])

\* One reader takes a flip of k, for each of its uses of k.
ReachReader(e, a, k, quiet) ==
  CarryFlip(e, [e EXCEPT !.final[a] = AfterEdges(@, Cardinality(UsesOf(e, a, k)), quiet)], a)

RECURSIVE QuietWave(_, _, _)
\* propagate_quiet_wave: every key flips at most once, so order is free.
QuietWave(e, frontier, quiet) ==
  IF frontier = {} THEN e
  ELSE LET k == Max(frontier)
           reach(acc, a) == ReachReader(acc, a, k, quiet)
           e1 == Each(reach, e, {a \in Answers : UsesOf(e, a, k) # {}})
           flipped == {f \in Facts : Quiet(e1, f) # Quiet(e, f)}
       IN QuietWave(e1, (frontier \ {k}) \cup flipped, quiet)

\* propagate_quiet_flips: what became unquiet since `before`, then what
\* became quiet, both read off before the first wave.
QuietFlips(before, e, fs) ==
  LET lost == {f \in fs : Quiet(before, f) /\ ~Quiet(e, f)}
      won == {f \in fs : ~Quiet(before, f) /\ Quiet(e, f)}
  IN QuietWave(QuietWave(e, lost, FALSE), won, TRUE)

\* refresh_finality: recount a's reads, and carry a flip into a's claims.
RefreshFinality(e, a) ==
  QuietFlips(e, CarryFlip(e, [e EXCEPT !.final[a] = Pending(CountUnfinalReads(e, a))], a),
             e.outputs[a])

DirtyClaims(e, a) == QuietFlips(e, MarkDirty(e, a, e.outputs[a]), e.outputs[a])

-----------------------------------------------------------------------------
(* Dispatch: a wave of changes becomes wakes.                              *)

\* The ground of a shifted under it.
Rebase(e, a, shift) == IF shift THEN [e EXCEPT !.rebased = @ \cup {a}] ELSE e

\* wake_satisfied_waiters: a job wakes once every use it waits on holds.
WakeSatisfiedWaiters(e, u, shift) ==
  LET wake(acc, j) ==
        IF \A w \in acc.waits[j] : Satisfies(acc, w)
          THEN Enqueue(Rebase(DirtyClaims(acc, j), j, shift), j)
          ELSE acc
  IN Each(wake, e, Waiters(e, u))

\* Mutant: an ascent reopens the readers but does not queue them.
EnqueueOnShift(e, readers, u, shift) ==
  LET reopen(acc, a) == DirtyClaims(Rebase(acc, a, shift), a)
      rerun(acc, a) == IF shift THEN Enqueue(acc, RunOf[a]) ELSE acc
  IN WakeSatisfiedWaiters(Each(rerun, Each(reopen, e, readers), readers), u, shift)

\* enqueue_dependents: the answers that read u are reopened, their jobs
\* queued, and the waiters on u looked at.
EnqueueDependents(e, readers, u, shift) ==
  LET reopen(acc, a) == DirtyClaims(Rebase(acc, a, shift), a)
      rerun(acc, a) == Enqueue(acc, RunOf[a])
  IN WakeSatisfiedWaiters(Each(rerun, Each(reopen, e, readers), readers), u, shift)

Current(k) == [fact |-> k, need |-> "current"]
SettledUse(k) == [fact |-> k, need |-> "settled"]

\* Mutant: an appearance at bottom wakes nobody.
ReachNoAppearance(e, c, need) ==
  LET u == [fact |-> c.key, need |-> need]
  IN IF c.move # "none" \/ (need = "settled" /\ c.ready)
       THEN EnqueueDependents(e, Subscribers(e, u), u, c.move = "shift") ELSE e

\* Mutant: content does not reach the readers of the settled fact.
ReachCurrentOnly(e, c, need) ==
  LET u == [fact |-> c.key, need |-> need]
      readers == IF c.move = "none" /\ need = "current" THEN {} ELSE Subscribers(e, u)
      news == IF need = "current" THEN c.move # "none" \/ c.appeared ELSE c.ready
  IN IF news THEN EnqueueDependents(e, readers, u, c.move = "shift") ELSE e

\* Whom a change reaches among the uses with this need.  Content goes to every
\* reader; an appearance at bottom only to waiters; readiness only to uses that
\* ask for it.
ReachUses(e, c, need) ==
  LET u == [fact |-> c.key, need |-> need]
      readers == IF c.move = "none" /\ need = "current" THEN {} ELSE Subscribers(e, u)
      news == c.move # "none" \/ (IF need = "current" THEN c.appeared ELSE c.ready)
  IN IF news THEN EnqueueDependents(e, readers, u, c.move = "shift") ELSE e

\* One change of the wave.
DispatchChange(e, c) ==
  LET content == IF c.move = "none" THEN {} ELSE {c.key}
  IN ReachUses(ReachUses([e EXCEPT !.moved = @ \cup content], c, "current"), c, "settled")

\* take_next_fact_change: the least key, and its newest change.
NextChange(chg) ==
  CHOOSE i \in DOMAIN chg : \A j \in DOMAIN chg :
    chg[i].key < chg[j].key \/ (chg[i].key = chg[j].key /\ j <= i)

RECURSIVE Dispatch(_)
Dispatch(e) ==
  IF e.chg = <<>> THEN e
  ELSE LET i == NextChange(e.chg)
           rest == SubSeq(e.chg, 1, i - 1) \o SubSeq(e.chg, i + 1, Len(e.chg))
       IN Dispatch(DispatchChange([e EXCEPT !.chg = rest], e.chg[i]))

-----------------------------------------------------------------------------
(* Completion of a run.                                                    *)

\* facts.rs content_movement; `bumped` says the revision was incremented.
ContentMovement(f, old, new, bumped, rebased, withdrew) ==
  IF ~bumped /\ old.rev = new.rev THEN "none"
  ELSE IF old.pubs = {} THEN "ascent"
  ELSE IF new.pubs = {} \/ withdrew \/ rebased \/ f \notin Cumulative THEN "shift"
  ELSE "ascent"

\* Mutant: the publisher's own finality is not recorded.
ClaimAsFinal(e, c, f) ==
  LET old == e.slot[f]
      new == [pubs |-> old.pubs \cup {c.answer},
              dirty |-> IF c.concluding THEN old.dirty \ {c.answer} ELSE old.dirty,
              unfinal |-> old.unfinal \ {c.answer},
              rev |-> IF f \in c.changed \/ (old.pubs = {} /\ f \notin Cumulative) THEN 1 ELSE old.rev]
  IN Put(e, f, old, new, ContentMovement(f, old, new, f \in c.changed /\ old.pubs # {}, c.rebased, FALSE))

\* A listed key gains the publisher; only a conclusion vouches for it.
Claim(e, c, f) ==
  LET old == e.slot[f]
      a == c.answer
      absent == old.pubs = {}
      changed == f \in c.changed
      new == [pubs |-> old.pubs \cup {a},
              dirty |-> IF c.concluding THEN old.dirty \ {a} ELSE old.dirty,
              unfinal |-> Toggle(old.unfinal, a, c.unfinal),
              rev |-> IF changed \/ (absent /\ f \notin Cumulative) THEN 1 ELSE old.rev]
  IN Put(e, f, old, new, ContentMovement(f, old, new, changed /\ ~absent, c.rebased, FALSE))

\* A key no longer listed loses the publisher; the last one retracts it.
Withdraw(e, c, f) ==
  LET old == e.slot[f]
      a == c.answer
      gone == old.pubs \subseteq {a}
      bumped == f \in c.changed /\ ~gone
      new == [pubs |-> old.pubs \ {a}, dirty |-> old.dirty \ {a}, unfinal |-> old.unfinal \ {a},
              rev |-> IF gone THEN 0 ELSE IF bumped THEN 1 ELSE old.rev]
  IN Put(e, f, old, new, ContentMovement(f, old, new, bumped, c.rebased, TRUE))

\* replace_outputs_after_run for a conclusion, extend_outputs_after_run else.
Publish(e, c) ==
  LET claim(acc, f) == Claim(acc, c, f)
      withdraw(acc, f) == Withdraw(acc, c, f)
      e1 == Each(claim, e, c.outputs)
  IN IF c.concluding
       THEN [Each(withdraw, e1, e.outputs[c.answer] \ c.outputs) EXCEPT !.outputs[c.answer] = c.outputs]
       ELSE [e1 EXCEPT !.outputs[c.answer] = @ \cup c.outputs]

\* The reads and the finality of one answer, before anything is published.
Ground(e, d, waiting) ==
  LET concluding == ~(waiting /\ d.answer = RunOf[d.answer])
      e1 == [e EXCEPT !.reads[d.answer] = IF concluding THEN d.reads ELSE @ \cup d.reads,
                      !.rebased = IF concluding THEN @ \ {d.answer} ELSE @]
  IN RefreshFinality(e1, d.answer)

\* What was true of d when its reads had been taken in, for its publication.
Conclusion(before, after, d, waiting) ==
  [answer |-> d.answer, outputs |-> d.outputs, changed |-> d.changed,
   concluding |-> ~(waiting /\ d.answer = RunOf[d.answer]),
   rebased |-> d.answer \in before.rebased, unfinal |-> IsUnfinal(after, d.answer)]

\* Mutant: a retracted answer keeps its count of unfinal reads.
RetractKeepsCount(e, a) ==
  LET c == [answer |-> a, outputs |-> {}, changed |-> {}, concluding |-> TRUE,
            rebased |-> TRUE, unfinal |-> FALSE]
  IN [Publish(e, c) EXCEPT !.reads[a] = {}, !.rebased = @ \ {a}]

\* A finished run did not give answer a again: it is forgotten.
Retract(e, a) ==
  LET c == [answer |-> a, outputs |-> {}, changed |-> {}, concluding |-> TRUE,
            rebased |-> TRUE, unfinal |-> FALSE]
  IN [Publish(e, c) EXCEPT !.reads[a] = {}, !.rebased = @ \ {a}, !.final[a] = Pending(0)]

\* The notes taken so far, with one on d once its reads are taken in.
Note(acc, after, d, waiting) ==
  [eng |-> after, notes |-> Append(acc.notes, Conclusion(acc.eng, after, d, waiting))]

\* The answers the run did not reach: kept dirty while it waits, as is its own
\* answer, and retracted otherwise.  Changes noted so far go first.
LeaveUnreached(before, e, j, unreached, waiting) ==
  LET stale(acc, a) == MarkDirty(acc, a, acc.outputs[a])
      kept == Each(stale, [e EXCEPT !.chg = <<>>], unreached \cup {j})
  IN IF waiting THEN [kept EXCEPT !.chg = before.chg \o @ \o e.chg]
     ELSE [Each(Retract, e, unreached) EXCEPT !.chg = before.chg \o @]

\* Publish the noted answers of j's run and let the flips travel.
Record(e, j, notes, waiting) ==
  LET listed == {notes[i].answer : i \in DOMAIN notes}
      unreached == e.owned[j] \ listed
      touched == UNION {notes[i].outputs : i \in DOMAIN notes}
                 \cup UNION {e.outputs[a] : a \in listed \cup unreached}
      shown[i \in 0..Len(notes)] ==
        IF i = 0 THEN [e EXCEPT !.chg = <<>>] ELSE Publish(shown[i - 1], notes[i])
      left == LeaveUnreached(e, shown[Len(notes)], j, unreached, waiting)
  IN QuietFlips(e, [left EXCEPT !.owned[j] = IF waiting THEN @ \cup listed ELSE listed], touched)

\* complete_ordered_with_external.  ds lists the answers the run reached in
\* emission order, the job's own answer last.
Complete(e, j, ds, waits) ==
  LET start == [e EXCEPT !.waits[j] = waits, !.ran = @ \cup {j}, !.moved = {}]
      taken[i \in 0..Len(ds)] ==
        IF i = 0 THEN [eng |-> start, notes |-> <<>>]
        ELSE Note(taken[i - 1], Ground(taken[i - 1].eng, ds[i], waits # {}), ds[i], waits # {})
      finish(all) == Dispatch(Record(all.eng, j, all.notes, waits # {}))
  IN finish(taken[Len(ds)])

-----------------------------------------------------------------------------
(* The drain arbiter.                                                      *)

\* The facts read by the publishers of f.
ReadBy(e, f) == UNION {{u.fact : u \in e.reads[a]} : a \in e.slot[f].pubs}

RECURSIVE Walk(_, _, _)
\* The walk of quiescent_cone: down from S, ending at quiet and external keys.
Walk(e, S, seen) ==
  LET new == S \ seen
      open == {k \in new : k \in Facts /\ ~Quiet(e, k)}
  IN IF new = {} THEN seen ELSE Walk(e, UNION {ReadBy(e, k) : k \in open}, seen \cup new)

\* Mutant: a dirty publisher beneath does not stop the walk.
ConeIgnoresDirt(e, keys) == \A k \in keys : Quiet(e, k) \/ (k \in Facts /\ Present(e, k))

\* Nothing the walk met can still move.
ConeIsClean(e, keys) ==
  \A k \in keys : Quiet(e, k) \/ (k \in Facts /\ LocallySettled(e.slot[k]))

\* One certified publisher finalizes its own claims together.
Certify(e, a) ==
  LET e1 == [e EXCEPT !.final[a] = Quiescent(@.n)]
      clear(acc, f) == SetPublisherUnfinal(acc, f, a, FALSE)
  IN QuietFlips(e, Each(clear, e1, e.outputs[a]), e.outputs[a])

\* Mutant: the arbiter looks one step down and never certifies a cycle.
SettleOneHop(e, f) ==
  IF Quiet(e, f) \/ ~LocallySettled(e.slot[f]) \/ \E k \in ReadBy(e, f) : ~Quiet(e, k) THEN e
  ELSE Each(Certify, e, e.slot[f].pubs)

\* settle_quiescent_fact.
SettleFact(e, f) ==
  LET keys == Walk(e, {f}, {})
      cone == {k \in keys : k \in Facts /\ ~Quiet(e, k)}
  IN IF Quiet(e, f) \/ ~LocallySettled(e.slot[f]) \/ ~ConeIsClean(e, keys) THEN e
     ELSE Each(Certify, e, UNION {e.slot[k].pubs : k \in cone})

WaitedSettled(e) == {f \in Facts : Waiters(e, SettledUse(f)) # {}}
Waited(e) == {f \in Facts : Waiters(e, SettledUse(f)) \cup Waiters(e, Current(f)) # {}}

\* demand_producer_if_needed: only a producer that never ran, or one that is not
\* blocked and has an answer whose ground shifted, is started.
DemandProducer(e, f) ==
  LET j == Producer[f]
  IN IF j \notin e.ran \/ (e.waits[j] = {} /\ e.owned[j] \cap e.rebased # {})
       THEN Enqueue(e, j) ELSE e

-----------------------------------------------------------------------------
(* Actions.                                                                *)

\* What a run may report for answer a.  Reports that the table cannot tell
\* apart are enumerated once: a fact that appears with content counts as
\* changed, one that vanishes does not.
Derivations(a) ==
  {d \in [answer : {a}, reads : SUBSET MayRead[a], outputs : SUBSET MayClaim[a],
          changed : SUBSET MayClaim[a]] :
     /\ d.changed \subseteq d.outputs \cup {f \in eng.outputs[a] : eng.slot[f].pubs # {a}}
     /\ {f \in d.outputs \ Cumulative : eng.slot[f].pubs = {}} \subseteq d.changed}

\* The front door submits code or a root: a job starts as Ignition.
Ignite(j) == j \in eng.program /\ ~Queued(eng, j) /\ eng' = Enqueue(eng, j)

\* Pop the next job, run it and complete it.  A run reaches at most one
\* further answer before its own, and blocks only on uses that do not hold.
RunNext(j) ==
  /\ eng.agenda # <<>> /\ j = Head(eng.agenda)
  /\ \E own \in Derivations(j),
        reached \in {<<>>} \cup {<<d>> : d \in UNION {Derivations(a) : a \in {b \in Answers \ {j} : RunOf[b] = j}}},
        waits \in SUBSET {u \in MayWait[j] : ~Satisfies(eng, u)} :
       /\ waits # {} => own.changed \subseteq own.outputs
       /\ eng' = Complete([eng EXCEPT !.agenda = Tail(@)], j, Append(reached, own), waits)

\* The run ends in an error, which ends the drive (DriveOutcome::Fatal): the job
\* was popped and is neither completed nor queued again.
RunFails(j) ==
  /\ eng.agenda # <<>> /\ j = Head(eng.agenda) /\ j \in Fallible
  /\ eng' = [eng EXCEPT !.agenda = Tail(@), !.moved = {}, !.failed = @ \cup {j}]

\* settle_quiescent_ordered_with_external, for the facts waiters ask about.
SettledWaits(e) == Dispatch(Each(SettleFact, [e EXCEPT !.moved = {}], WaitedSettled(e)))

\* settle_quiescent_waits at a drained agenda.
SettleWaits ==
  /\ eng.agenda = <<>> /\ WaitedSettled(eng) # {}
  /\ eng' = SettledWaits(eng)

\* demand_blocked_wait_producers at a drained agenda.
DemandBlockedWaits ==
  /\ eng.agenda = <<>> /\ Waited(eng) # {}
  /\ eng' = Each(DemandProducer, eng, Waited(eng))

\* apply_external_changes_ordered: products moved, with the given new states;
\* bumped are those whose revision grew.
ExternalChanges(xs, new, bumped) ==
  LET old == eng.ext
      seen == {x \in xs : old[x] # new[x] \/ x \in bumped}
      change(x) == [key |-> x, appeared |-> ~old[x].present /\ new[x].present,
                    ready |-> old[x].settled # new[x].settled,
                    move |-> IF ~old[x].present /\ new[x].present THEN "ascent"
                             ELSE IF old[x].present # new[x].present \/ x \in bumped THEN "shift"
                             ELSE "none"]
      e1 == [eng EXCEPT !.ext = [x \in Externals |-> IF x \in xs THEN new[x] ELSE @[x]], !.moved = {}]
      note(acc, x) == [acc EXCEPT !.chg = Append(@, change(x))]
      flip(acc, x) == IF change(x).ready THEN QuietWave(acc, {x}, new[x].settled) ELSE acc
  IN /\ seen = xs /\ xs # {}
     /\ eng' = Dispatch(Each(flip, Each(note, e1, xs), xs))

\* The products that the program's jobs may read.
Consumed == {x \in Externals : \E a \in Answers : RunOf[a] \in eng.program /\ x \in {u.fact : u \in MayRead[a]}}

Next ==
  \/ \E j \in Jobs : Ignite(j) \/ RunNext(j) \/ RunFails(j)
  \/ SettleWaits
  \/ DemandBlockedWaits
  \/ \E xs \in SUBSET Consumed, bumped \in SUBSET Consumed :
       \E new \in [xs -> {s \in [present : BOOLEAN, settled : BOOLEAN] : s.settled => s.present}] :
         ExternalChanges(xs, new, bumped)

Spec == Init /\ [][Next]_vars

-----------------------------------------------------------------------------
(* Properties.                                                             *)

\* read_finality holds, for every answer, exactly the number of its uses whose
\* fact can still move: the edge-triggered waves never drift from a recount.
CountsAreExact == \A a \in Answers : eng.final[a].n = CountUnfinalReads(eng, a)

\* The two halves of finality agree: a fact lists a publisher as unfinal
\* exactly when that publisher claims it and has a pending read.
FinalityAgrees ==
  \A f \in Facts, a \in Answers :
    /\ a \in eng.slot[f].pubs <=> f \in eng.outputs[a]
    /\ a \in eng.slot[f].unfinal <=> a \in eng.slot[f].pubs /\ IsUnfinal(eng, a)

RECURSIVE Beneath(_, _)
Beneath(S, seen) ==
  LET new == (S \ seen)
  IN IF new = {} THEN seen
     ELSE Beneath(UNION {ReadBy(eng, f) : f \in new \cap Facts}, seen \cup new)

\* A settled fact is final all the way down: no fact it was derived from, at
\* any depth and through any cycle the drain certified, has a publisher whose
\* claim is dirty, and no product beneath it is unsettled.
SettledIsFinal ==
  \A f \in Facts : Settled(eng, f) =>
    \A k \in Beneath({f}, {}) :
      IF k \in Externals THEN eng.ext[k].settled ELSE eng.slot[k].dirty = {}

\* A job whose standing waits all hold is on the agenda: `satisfies` and the
\* wake path never disagree.  (A job whose run ended in an error is the one
\* exception: nothing queues it again until something it read or awaits moves.)
NoSleepingWaiter ==
  \A j \in Jobs \ eng.failed :
    eng.waits[j] # {} /\ (\A u \in eng.waits[j] : Satisfies(eng, u)) => Queued(eng, j)

\* A dirty claim, or an answer whose ground shifted, belongs to a job that
\* will run again by itself: it is queued, or blocked on a standing wait, unless
\* its run ended in an error.
DirtyRunsAgain ==
  \A a \in Answers :
    a \in eng.rebased \/ (\E f \in Facts : a \in eng.slot[f].dirty) =>
      Queued(eng, RunOf[a]) \/ eng.waits[RunOf[a]] # {} \/ RunOf[a] \in eng.failed

\* When the content of a fact moves, every job holding an answer that read it
\* is queued by the end of the same step.
MovedReadersRun ==
  \A a \in Answers : (\E u \in eng.reads[a] : u.fact \in eng.moved) => Queued(eng, RunOf[a])

\* A drain that wakes nobody leaves no question it could answer: every fact
\* awaited as settled, with no dirty publisher and no unsettled product
\* anywhere beneath it, is settled afterwards, cycle or not.
DrainAnswers ==
  eng.agenda = <<>> =>
    LET e == SettledWaits(eng)
        CanMove(k) == IF k \in Externals THEN ~eng.ext[k].settled ELSE eng.slot[k].dirty # {}
    IN e.agenda # <<>> \/
       \A f \in WaitedSettled(eng) :
         Present(eng, f) /\ (\A k \in Beneath({f}, {}) : ~CanMove(k)) => Settled(e, f)
=============================================================================
