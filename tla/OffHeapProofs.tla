----------------------------- MODULE OffHeapProofs -----------------------------
(***************************************************************************)
(* Reference counts, reachability and destructors of off-heap objects, for *)
(* any number of processes, objects, stubs and messages: OffHeapInv is     *)
(* inductive.                                                              *)
(***************************************************************************)
EXTENDS OffHeap, FiniteSetTheorems, TLAPS

\* The part of the invariant that speaks of stubs and counts alone.
ThingRecord == [state : {"unmade", "live", "freed"}, count : Nat, claimed : BOOLEAN]

StoreInv ==
  /\ stubs \in SUBSET Stub /\ things \in [Things -> ThingRecord]
  /\ IsFiniteSet(stubs) /\ PlacesAreSingle /\ ClaimedIsMade /\ CountsAreExact

\* A step leaves released objects and claims alone.
Lasting ==
  \A x \in Things :
    /\ things[x].state = "freed" => things'[x] = things[x]
    /\ things[x].claimed => things'[x].claimed

LEMMA StoreOfInv == ASSUME OffHeapInv PROVE StoreInv
  BY DEF OffHeapInv, TypeOK, StoreInv, ThingRecord

\* Records with the same fields are the same.
LEMMA SameRecord ==
  ASSUME NEW r \in ThingRecord, NEW t \in ThingRecord,
         r.state = t.state, r.count = t.count, r.claimed = t.claimed
  PROVE  r = t
  BY DEF ThingRecord

-----------------------------------------------------------------------------
(* Counting stubs.                                                         *)

\* The stubs for one object are counted by a natural number, which is zero
\* when there is none.
LEMMA EdgesType ==
  ASSUME NEW E, IsFiniteSet(E), NEW x
  PROVE  /\ Edges(E, x) \in Nat
         /\ Edges(E, x) > 0 <=> \E e \in E : e.thing = x
<1> DEFINE F == {e \in E : e.thing = x}
<1>1. IsFiniteSet(F)
  BY FS_Subset
<1>2. Cardinality(F) \in Nat /\ (Cardinality(F) = 0 <=> F = {})
  BY <1>1, FS_CardinalityType, FS_EmptySet
<1>3. F = {} <=> ~ \E e \in E : e.thing = x
  OBVIOUS
<1> HIDE DEF F
<1>4. Cardinality(F) \in Nat /\ (Cardinality(F) > 0 <=> \E e \in E : e.thing = x)
  BY <1>2, <1>3
<1> QED BY <1>4 DEF F, Edges

\* New stubs add up.
LEMMA EdgesGrow ==
  ASSUME NEW E, IsFiniteSet(E), NEW C, IsFiniteSet(C), E \cap C = {}, NEW x
  PROVE  Edges(E \cup C, x) = Edges(E, x) + Edges(C, x)
<1> DEFINE F == {e \in E : e.thing = x}
           G == {e \in C : e.thing = x}
<1>1. IsFiniteSet(F) /\ IsFiniteSet(G)
  BY FS_Subset
<1>2. {e \in E \cup C : e.thing = x} = F \cup G /\ F \cap G = {}
  OBVIOUS
<1>3. Cardinality(F) \in Nat /\ Cardinality(G) \in Nat
  BY <1>1, FS_CardinalityType
<1> HIDE DEF F, G
<1>4. Cardinality(F \cup G) = Cardinality(F) + Cardinality(G) - Cardinality({})
  BY <1>1, <1>2, FS_Union
<1>5. Cardinality({}) = 0
  BY FS_EmptySet
<1>6. Cardinality(F \cup G) = Cardinality(F) + Cardinality(G)
  BY <1>3, <1>4, <1>5
<1> QED BY <1>2, <1>6 DEF F, G, Edges

\* Released stubs are taken off.
LEMMA EdgesShrink ==
  ASSUME NEW E, IsFiniteSet(E), NEW D \in SUBSET E, NEW x
  PROVE  /\ Edges(E \ D, x) = Edges(E, x) - Edges(D, x)
         /\ Edges(D, x) <= Edges(E, x)
<1>1. IsFiniteSet(D) /\ IsFiniteSet(E \ D)
  BY FS_Subset
<1>2. (E \ D) \cup D = E /\ (E \ D) \cap D = {}
  OBVIOUS
<1>3. Edges(E, x) = Edges(E \ D, x) + Edges(D, x)
  BY <1>1, <1>2, EdgesGrow
<1>4. Edges(E \ D, x) \in Nat /\ Edges(D, x) \in Nat /\ Edges(E, x) \in Nat
  BY <1>1, EdgesType
<1> QED BY <1>3, <1>4

\* An object some stub refers to is live.
LEMMA StubIsLive ==
  ASSUME StoreInv, NEW e \in stubs
  PROVE  things[e.thing].state = "live" /\ e.thing \in Things
<1>1. e.thing \in Things
  BY DEF StoreInv, Stub
<1>2. Edges(stubs, e.thing) > 0
  BY EdgesType DEF StoreInv
<1> QED BY <1>1, <1>2 DEF StoreInv, CountsAreExact

-----------------------------------------------------------------------------
(* The steps seen from the store of off-heap objects.                      *)

\* Stubs at free places for live objects, with a retain for each.
LEMMA StoreGrows ==
  ASSUME StoreInv, NEW C \in SUBSET Stub, IsFiniteSet(C),
         \A e \in C : things[e.thing].state = "live",
         \A e, f \in C : e.heap = f.heap /\ e.id = f.id => e = f,
         \A e \in C, f \in stubs : e.heap = f.heap => e.id # f.id,
         stubs' = stubs \cup C, things' = Retained(things, C)
  PROVE  /\ StoreInv' /\ Lasting
         /\ \A x \in Things : things'[x].state = things[x].state /\ things'[x].claimed = things[x].claimed
<1> USE DEF StoreInv
<1>1. IsFiniteSet(stubs') /\ stubs' \in SUBSET Stub
  BY FS_Union, Zenon
<1>2. PlacesAreSingle'
  BY DEF PlacesAreSingle
<1>3. stubs \cap C = {}
  OBVIOUS
<1>4. ASSUME NEW x \in Things
      PROVE  /\ things'[x] \in ThingRecord
             /\ things'[x].state = things[x].state /\ things'[x].claimed = things[x].claimed
             /\ things'[x].count = things[x].count + Edges(C, x)
             /\ Edges(C, x) \in Nat
             /\ Edges(C, x) > 0 => things[x].state = "live"
             /\ Edges(C, x) = 0 => things'[x] = things[x]
  <2>1. Edges(C, x) \in Nat /\ (Edges(C, x) > 0 => things[x].state = "live")
    BY EdgesType
  <2>2. things'[x] = [things[x] EXCEPT !.count = @ + Edges(C, x)] /\ things[x] \in ThingRecord
    BY DEF Retained
  <2> QED BY <2>1, <2>2 DEF ThingRecord
<1>5. things' \in [Things -> ThingRecord]
  <2>1. things' = [x \in Things |-> things'[x]]
    BY DEF Retained
  <2> QED BY <2>1, <1>4
<1>6. CountsAreExact'
  <2> SUFFICES ASSUME NEW x \in Things
               PROVE  /\ things'[x].count = Edges(stubs', x)
                      /\ things'[x].state = "live" <=> things'[x].count > 0
    BY DEF CountsAreExact, Edges
  <2>1. Edges(stubs', x) = Edges(stubs, x) + Edges(C, x)
    BY <1>3, EdgesGrow
  <2>2. things[x].count = Edges(stubs, x) /\ (things[x].state = "live" <=> things[x].count > 0)
    BY DEF CountsAreExact
  <2>3. things[x].count \in Nat
    BY DEF ThingRecord
  <2> QED BY <2>1, <2>2, <2>3, <1>4
<1>7. Lasting
  <2> SUFFICES ASSUME NEW x \in Things, things[x].state = "freed" PROVE things'[x] = things[x]
    BY <1>4 DEF Lasting
  <2>1. Edges(C, x) = 0
    BY <1>4
  <2> QED BY <2>1, <1>4
<1>8. ClaimedIsMade'
  BY <1>4 DEF ClaimedIsMade
<1> QED BY <1>1, <1>2, <1>4, <1>5, <1>6, <1>7, <1>8

\* Stubs that go, with a release for each: an object is freed by the release
\* of the last of its stubs and not before.
LEMMA StoreShrinks ==
  ASSUME StoreInv, NEW D \in SUBSET stubs,
         stubs' = stubs \ D, things' = Released(things, D)
  PROVE  /\ StoreInv' /\ Lasting
         /\ \A x \in Things :
              /\ things'[x].claimed = things[x].claimed
              /\ things'[x].state = IF Edges(D, x) > 0 /\ Edges(D, x) = things[x].count
                                       THEN "freed" ELSE things[x].state
<1> USE DEF StoreInv
<1>1. IsFiniteSet(D) /\ IsFiniteSet(stubs') /\ stubs' \in SUBSET Stub
  BY FS_Subset
<1>2. PlacesAreSingle'
  BY DEF PlacesAreSingle
<1>4. ASSUME NEW x \in Things
      PROVE  /\ things[x].count = Edges(stubs, x) /\ things[x].count \in Nat
             /\ things[x].state = "live" <=> things[x].count > 0
             /\ Edges(D, x) \in Nat /\ Edges(D, x) <= things[x].count
             /\ things'[x] \in ThingRecord
             /\ things'[x].claimed = things[x].claimed
             /\ things'[x].state = IF Edges(D, x) > 0 /\ Edges(D, x) = things[x].count
                                      THEN "freed" ELSE things[x].state
             /\ things'[x].count = things[x].count - Edges(D, x)
             /\ Edges(D, x) = 0 => things'[x] = things[x]
  <2>1. things[x].count = Edges(stubs, x) /\ (things[x].state = "live" <=> things[x].count > 0)
    BY DEF CountsAreExact
  <2>2. Edges(D, x) \in Nat /\ Edges(D, x) <= Edges(stubs, x)
    BY <1>1, EdgesType, EdgesShrink
  <2>3. /\ things'[x] = [things[x] EXCEPT !.count = @ - Edges(D, x),
              !.state = IF Edges(D, x) > 0 /\ Edges(D, x) = things[x].count THEN "freed" ELSE @]
        /\ things[x] \in ThingRecord
    BY Zenon DEF Released
  <2>4. /\ things[x].count \in Nat /\ things[x].count - Edges(D, x) \in Nat
        /\ things[x].state \in {"unmade", "live", "freed"}
    BY <2>1, <2>2, <2>3 DEF ThingRecord
  <2>5. /\ things'[x].count = things[x].count - Edges(D, x)
        /\ things'[x].claimed = things[x].claimed
        /\ things'[x].state = IF Edges(D, x) > 0 /\ Edges(D, x) = things[x].count
                                 THEN "freed" ELSE things[x].state
    BY <2>3 DEF ThingRecord
  <2>6. things'[x] \in ThingRecord
    BY <2>3, <2>4, Zenon DEF ThingRecord
  <2>7. Edges(D, x) = 0 => things'[x] = things[x]
    <3> SUFFICES ASSUME Edges(D, x) = 0 PROVE things'[x] = things[x]
      OBVIOUS
    <3>1. /\ things'[x].count = things[x].count /\ things'[x].state = things[x].state
          /\ things'[x].claimed = things[x].claimed
      BY <2>4, <2>5
    <3>2. things[x] \in ThingRecord
      BY <2>3
    <3> QED BY <3>1, <3>2, <2>6, SameRecord
  <2> QED BY <2>1, <2>2, <2>4, <2>5, <2>6, <2>7
<1>5. things' \in [Things -> ThingRecord]
  <2>1. things' = [x \in Things |-> things'[x]]
    BY Zenon DEF Released
  <2> QED BY <2>1, <1>4
<1>6. CountsAreExact'
  <2> SUFFICES ASSUME NEW x \in Things
               PROVE  /\ things'[x].count = Edges(stubs', x)
                      /\ things'[x].state = "live" <=> things'[x].count > 0
    BY DEF CountsAreExact, Edges
  <2>1. Edges(stubs', x) = Edges(stubs, x) - Edges(D, x)
    BY EdgesShrink
  <2> QED BY <2>1, <1>4
<1>7. Lasting
  <2> SUFFICES ASSUME NEW x \in Things, things[x].state = "freed" PROVE things'[x] = things[x]
    BY <1>4 DEF Lasting
  <2>1. Edges(D, x) = 0
    BY <1>4
  <2> QED BY <2>1, <1>4
<1>8. ClaimedIsMade'
  BY <1>4 DEF ClaimedIsMade
<1> QED BY <1>1, <1>2, <1>4, <1>5, <1>6, <1>7, <1>8

\* What a reached stub refers to is live.
LEMMA ReachedThing ==
  ASSUME OffHeapInv, NEW p \in Procs, NEW s \in held[p] \cup MailStubs(p)
  PROVE  ThingOf(p, s) \in Things /\ things[ThingOf(p, s)].state = "live"
<1>1. \E e \in Chain(p) : e.id = s
  BY DEF OffHeapInv, RootsAreChained, StubsOf
<1>2. PICK e \in Chain(p) : e = CHOOSE d \in Chain(p) : d.id = s
  BY <1>1, Zenon
<1>3. e \in stubs /\ e.thing = ThingOf(p, s)
  BY <1>2 DEF Chain, ThingOf
<1> QED BY <1>3, StoreOfInv, StubIsLive

\* What deep_copy leaves on the receiver's heap: stubs at free places, one for
\* every stub of S and for the same objects, all of them live.
LEMMA CopyFacts ==
  ASSUME OffHeapInv, NEW p \in Procs, NEW q \in Procs, NEW S \in SUBSET held[p], RoomFor(q, S)
  PROVE  /\ Copies(p, q, S) \in SUBSET Stub /\ IsFiniteSet(Copies(p, q, S))
         /\ CopyIds(q, S) = {e.id : e \in Copies(p, q, S)} /\ CopyIds(q, S) \subseteq StubIds
         /\ \A e \in Copies(p, q, S) : e.heap = q /\ e.id \in FreeIds(q) /\ things[e.thing].state = "live"
         /\ \A e, f \in Copies(p, q, S) : e.id = f.id => e = f
<1> DEFINE at == Place(q, S)
           g == [s \in S |-> [heap |-> q, id |-> at[s], thing |-> ThingOf(p, s)]]
           C == {g[s] : s \in S}
<1>1. at \in [S -> FreeIds(q)] /\ \A s, t \in S : at[s] = at[t] => s = t
  <2>1. at \in Places(q, S)
    BY Zenon DEF RoomFor, Place
  <2> QED BY <2>1 DEF Places
<1>2. ASSUME NEW s \in S PROVE ThingOf(p, s) \in Things /\ things[ThingOf(p, s)].state = "live"
  BY ReachedThing
<1>3. Copies(p, q, S) = C /\ CopyIds(q, S) = {at[s] : s \in S}
  BY DEF Copies, CopyIds
<1> HIDE DEF at
<1>4. ASSUME NEW s \in S
      PROVE  /\ g[s] \in Stub /\ g[s].heap = q /\ g[s].id = at[s] /\ at[s] \in FreeIds(q)
             /\ things[g[s].thing].state = "live"
  <2>1. at[s] \in FreeIds(q) /\ at[s] \in StubIds
    BY <1>1 DEF FreeIds
  <2> QED BY <2>1, <1>2 DEF Stub
<1>5. IsFiniteSet(C)
  <2>1. IsFiniteSet(StubIds)
    BY OffHeapAssumption, FS_Interval DEF StubIds
  <2>2. S \in SUBSET StubIds
    BY DEF OffHeapInv, TypeOK
  <2>3. IsFiniteSet(S)
    BY <2>1, <2>2, FS_Subset
  <2>4. g \in Surjection(S, C)
    BY DEF Surjection
  <2> QED BY <2>3, <2>4, FS_Surjection
<1>6. CopyIds(q, S) \subseteq StubIds
  BY <1>1, <1>3 DEF FreeIds
<1>7. \A s \in S : g[s] \in Stub /\ g[s].heap = q /\ g[s].id = at[s] /\ at[s] \in FreeIds(q)
                    /\ things[g[s].thing].state = "live"
  BY <1>4
<1> HIDE DEF g
<1>8. {at[s] : s \in S} = {e.id : e \in C}
  BY <1>7
<1>9. ASSUME NEW e \in C, NEW f \in C, e.id = f.id PROVE e = f
  BY <1>1, <1>7, <1>9
<1>10. C \in SUBSET Stub /\ \A e \in C : e.heap = q /\ e.id \in FreeIds(q) /\ things[e.thing].state = "live"
  BY <1>7
<1> HIDE DEF C
<1> QED BY <1>3, <1>5, <1>6, <1>8, <1>9, <1>10

\* So a copy is a step of the store.
LEMMA CopyStep ==
  ASSUME OffHeapInv, NEW p \in Procs, NEW q \in Procs, NEW S \in SUBSET held[p], RoomFor(q, S),
         stubs' = stubs \cup Copies(p, q, S), things' = Retained(things, Copies(p, q, S))
  PROVE  /\ StoreInv' /\ Lasting
         /\ \A x \in Things : things'[x].state = things[x].state
         /\ CopyIds(q, S) \subseteq StubsOf(q)' /\ CopyIds(q, S) \subseteq StubIds
<1> DEFINE C == Copies(p, q, S)
<1>1. /\ C \in SUBSET Stub /\ IsFiniteSet(C)
      /\ CopyIds(q, S) = {e.id : e \in C} /\ CopyIds(q, S) \subseteq StubIds
      /\ \A e \in C : e.heap = q /\ e.id \in FreeIds(q) /\ things[e.thing].state = "live"
      /\ \A e, f \in C : e.id = f.id => e = f
  BY CopyFacts
<1>2. stubs' = stubs \cup C /\ things' = Retained(things, C)
  OBVIOUS
<1> HIDE DEF C
<1>3. \A e \in C, f \in stubs : e.heap = f.heap => e.id # f.id
  BY <1>1 DEF FreeIds, StubsOf, Chain
<1>4. /\ StoreInv' /\ Lasting
      /\ \A x \in Things : things'[x].state = things[x].state
  BY <1>1, <1>2, <1>3, StoreOfInv, StoreGrows, Zenon
<1>5. CopyIds(q, S) \subseteq StubsOf(q)'
  BY <1>1, <1>2 DEF StubsOf, Chain
<1> QED BY <1>1, <1>4, <1>5

\* A new object starts with one stub and a count of one.
LEMMA MakeStep ==
  ASSUME StoreInv, NEW p \in Procs, NEW x \in Things, Make(p, x)
  PROVE  /\ StoreInv' /\ Lasting
         /\ \A y \in Things : things'[y].state = "freed" => things[y].state = "freed"
         /\ CopyIds(p, {x}) \subseteq StubsOf(p)' /\ CopyIds(p, {x}) \subseteq StubIds
<1> USE DEF StoreInv
<1> DEFINE at == Place(p, {x})
           n == [heap |-> p, id |-> at[x], thing |-> x]
<1>1. /\ things[x].state = "unmade" /\ RoomFor(p, {x}) /\ stubs' = stubs \cup {n}
      /\ things' = [things EXCEPT ![x] = [state |-> "live", count |-> 1, claimed |-> FALSE]]
  BY DEF Make
<1>2. at[x] \in FreeIds(p) /\ CopyIds(p, {x}) = {at[x]}
  <2>1. at \in Places(p, {x})
    BY <1>1, Zenon DEF RoomFor, Place
  <2> QED BY <2>1 DEF Places, CopyIds
<1>3. n \in Stub /\ n.heap = p /\ n.id = at[x] /\ n.thing = x /\ at[x] \in StubIds
  BY <1>2 DEF Stub, FreeIds
<1> HIDE DEF n, at
<1>4. \A f \in stubs : f.heap = p => f.id # at[x]
  BY <1>2 DEF FreeIds, StubsOf, Chain
<1>5. IsFiniteSet({n}) /\ IsFiniteSet(stubs') /\ stubs \cap {n} = {}
  BY <1>1, <1>3, <1>4, FS_Singleton, FS_Union, Zenon
<1>6. ASSUME NEW y \in Things
      PROVE  Edges(stubs', y) = Edges(stubs, y) + (IF y = x THEN 1 ELSE 0)
  <2>1. Edges(stubs', y) = Edges(stubs, y) + Edges({n}, y)
    BY <1>1, <1>5, EdgesGrow
  <2>2. y = x => {e \in {n} : e.thing = y} = {n}
    BY <1>3
  <2>3. y # x => {e \in {n} : e.thing = y} = {}
    BY <1>3
  <2>4. Edges({n}, y) = IF y = x THEN 1 ELSE 0
    BY <2>2, <2>3, FS_Singleton, FS_EmptySet, Zenon DEF Edges
  <2> QED BY <2>1, <2>4
<1>7. ASSUME NEW y \in Things
      PROVE  things'[y] = IF y = x THEN [state |-> "live", count |-> 1, claimed |-> FALSE] ELSE things[y]
  BY <1>1
<1>8. things[x].count = 0 /\ ~things[x].claimed
  BY <1>1 DEF CountsAreExact, ThingRecord, ClaimedIsMade
<1>9. CountsAreExact'
  <2> SUFFICES ASSUME NEW y \in Things
               PROVE  /\ things'[y].count = Edges(stubs', y)
                      /\ things'[y].state = "live" <=> things'[y].count > 0
    BY DEF CountsAreExact, Edges
  <2>1. things[y].count = Edges(stubs, y) /\ (things[y].state = "live" <=> things[y].count > 0)
    BY DEF CountsAreExact
  <2>2. things[y].count \in Nat
    BY DEF ThingRecord
  <2>3. CASE y = x
    <3>1. things'[y].count = 1 /\ things'[y].state = "live"
      BY <2>3, <1>7
    <3>2. Edges(stubs', y) = 0 + 1
      BY <2>1, <2>3, <1>6, <1>8
    <3> QED BY <3>1, <3>2
  <2>4. CASE y # x
    BY <2>1, <2>2, <2>4, <1>6, <1>7
  <2> QED BY <2>3, <2>4
<1>10. PlacesAreSingle'
  BY <1>1, <1>3, <1>4 DEF PlacesAreSingle
<1>11. things' \in [Things -> ThingRecord]
  BY <1>1 DEF ThingRecord
<1>12. Lasting /\ ClaimedIsMade'
  BY <1>1, <1>7, <1>8 DEF Lasting, ClaimedIsMade
<1>13. \A y \in Things : things'[y].state = "freed" => things[y].state = "freed"
  BY <1>7
<1>14. CopyIds(p, {x}) \subseteq StubsOf(p)' /\ CopyIds(p, {x}) \subseteq StubIds
  BY <1>1, <1>2, <1>3, Zenon DEF StubsOf, Chain
<1>15. stubs' \in SUBSET Stub
  BY <1>1, <1>3
<1> QED BY <1>5, <1>9, <1>10, <1>11, <1>12, <1>13, <1>14, <1>15, Zenon

-----------------------------------------------------------------------------
(* Roots, statuses and destructors.                                        *)

\* Where a process is.
Status == {"absent", "ready", "running", "waiting", "halted", "draining", "dtor", "exited"}

\* What a step must show about the roots it moves: no root is lost, and the
\* new ones of q are on its chain.
LEMMA RootsMove ==
  ASSUME RootsAreChained, NEW q \in Procs, NEW ids,
         \A p \in Procs : StubsOf(p) \subseteq StubsOf(p)',
         ids \subseteq StubsOf(q)',
         \A p \in Procs : p # q => held'[p] = held[p] /\ mailbox'[p] = mailbox[p],
         held'[q] \cup MailStubs(q)' \subseteq held[q] \cup MailStubs(q) \cup ids
  PROVE  RootsAreChained'
<1> SUFFICES ASSUME NEW p \in Procs PROVE held'[p] \cup MailStubs(p)' \subseteq StubsOf(p)'
  BY DEF RootsAreChained
<1>1. CASE p = q
  BY <1>1 DEF RootsAreChained
<1>2. CASE p # q
  BY <1>2 DEF RootsAreChained, MailStubs
<1> QED BY <1>1, <1>2

LEMMA RootsStay ==
  ASSUME RootsAreChained, UNCHANGED <<stubs, held, mailbox>>
  PROVE  RootsAreChained'
  BY DEF RootsAreChained, StubsOf, Chain, MailStubs

\* A collection of p's heap keeps what its roots reach, and nothing of another heap.
LEMMA RootsSurvive ==
  ASSUME RootsAreChained, NEW p \in Procs, NEW kept \in SUBSET held[p], NEW live,
         kept \cup MailStubs(p) \subseteq live,
         stubs' = stubs \ (Chain(p) \ Surviving(p, live)) \/ stubs' = stubs,
         held' = [held EXCEPT ![p] = kept], DOMAIN held = Procs, UNCHANGED mailbox
  PROVE  RootsAreChained'
<1> SUFFICES ASSUME NEW q \in Procs, NEW s \in held'[q] \cup MailStubs(q)'
             PROVE  s \in StubsOf(q)'
  BY DEF RootsAreChained
<1>1. s \in held[q] \cup MailStubs(q) /\ (q = p => s \in live)
  BY DEF MailStubs
<1>2. PICK e \in stubs : e.heap = q /\ e.id = s
  BY <1>1 DEF RootsAreChained, StubsOf, Chain
<1>3. e \in stubs'
  BY <1>1, <1>2 DEF Chain, Surviving
<1> QED BY <1>2, <1>3 DEF StubsOf, Chain

\* A process that runs no destructors has none queued, so it may move on.
LEMMA StatusMoves ==
  ASSUME OffHeapInv, NEW q \in Procs, NEW st \in Status, status' = [status EXCEPT ![q] = st],
         status[q] \notin {"draining", "dtor"}
  PROVE  /\ status' \in [Procs -> Status]
         /\ \A p \in Procs : pending[p] # {} => status'[p] \in {"draining", "dtor"}
<1>1. status \in [Procs -> Status]
  BY DEF OffHeapInv, TypeOK, Status
<1>2. pending[q] = {}
  BY DEF OffHeapInv, DtorInv
<1> QED BY <1>1, <1>2 DEF OffHeapInv, DtorInv

\* A step that neither queues nor runs a destructor, frees nothing in the
\* interpreter and keeps what was freed, keeps the invariant.
LEMMA Assembled ==
  ASSUME OffHeapInv, ~torn, StoreInv', Lasting, RootsAreChained',
         UNCHANGED <<leg, torn, ran, pending>>,
         status' \in [Procs -> Status],
         held' \in [Procs -> SUBSET StubIds], mailbox' \in [Procs -> Seq(SUBSET StubIds)],
         \A p \in Procs : pending[p] # {} => status'[p] \in {"draining", "dtor"},
         leg = "interp" => \A x \in Handles : things'[x].state = "freed" => things[x].state = "freed"
  PROVE  OffHeapInv'
<1>1. TypeOK'
  BY DEF OffHeapInv, TypeOK, StoreInv, Status, ThingRecord
<1>2. \A x \in Handles : things[x].state = "freed" => things'[x] = things[x]
  BY DEF Lasting, Things
<1>3. DtorInv'
  BY <1>2 DEF OffHeapInv, DtorInv, Queued
<1>4. TornInv'
  BY DEF TornInv
<1> QED BY <1>1, <1>3, <1>4 DEF OffHeapInv, StoreInv

\* Program code runs while the runtime stands.
LEMMA NotTorn ==
  ASSUME OffHeapInv, NEW p \in Procs, status[p] # "exited"
  PROVE  ~torn
  BY DEF OffHeapInv, TornInv

-----------------------------------------------------------------------------
(* One lemma per action.                                                   *)

\* The shape of the roots, and their change at one process.
LEMMA RootTypes ==
  ASSUME OffHeapInv
  PROVE  /\ held \in [Procs -> SUBSET StubIds] /\ mailbox \in [Procs -> Seq(SUBSET StubIds)]
         /\ status \in [Procs -> Status] /\ RootsAreChained
         /\ \A p \in Procs : pending[p] # {} => status[p] \in {"draining", "dtor"}
  BY DEF OffHeapInv, TypeOK, Status, DtorInv

LEMMA InvMake ==
  ASSUME OffHeapInv, NEW p \in Procs, NEW x \in Things, Make(p, x)
  PROVE  OffHeapInv' /\ Lasting
<1>1. /\ status[p] # "exited" /\ stubs \subseteq stubs'
      /\ held' = [held EXCEPT ![p] = @ \cup CopyIds(p, {x})]
      /\ UNCHANGED <<leg, status, mailbox, pending, ran, torn>>
  BY DEF Make, InQuantum
<1>2. /\ StoreInv' /\ Lasting
      /\ \A y \in Things : things'[y].state = "freed" => things[y].state = "freed"
      /\ CopyIds(p, {x}) \subseteq StubsOf(p)' /\ CopyIds(p, {x}) \subseteq StubIds
  BY StoreOfInv, MakeStep
<1>3. \A q \in Procs : StubsOf(q) \subseteq StubsOf(q)'
  BY <1>1 DEF StubsOf, Chain
<1>4. RootsAreChained'
  <2>1. \A q \in Procs : q # p => held'[q] = held[q] /\ mailbox'[q] = mailbox[q]
    BY <1>1, RootTypes
  <2>2. held'[p] \cup MailStubs(p)' \subseteq held[p] \cup MailStubs(p) \cup CopyIds(p, {x})
    BY <1>1, RootTypes DEF MailStubs
  <2> QED BY <2>1, <2>2, <1>2, <1>3, RootTypes, RootsMove, Zenon
<1>5. held' \in [Procs -> SUBSET StubIds]
  BY <1>1, <1>2, RootTypes, Zenon
<1>6. ~torn
  BY <1>1, NotTorn
<1>7. \A y \in Handles : things'[y].state = "freed" => things[y].state = "freed"
  BY <1>2 DEF Things
<1> QED BY <1>1, <1>2, <1>4, <1>5, <1>6, <1>7, RootTypes, Assembled, Zenon

\* Copies made for q: the stubs appear on its heap, and the roots that get them
\* are its own values or its mailbox.
LEMMA InvCopy ==
  ASSUME OffHeapInv, NEW p \in Procs, NEW q \in Procs, NEW S \in SUBSET held[p], RoomFor(q, S), ~torn,
         stubs' = stubs \cup Copies(p, q, S), things' = Retained(things, Copies(p, q, S)),
         UNCHANGED <<leg, pending, ran, torn>>,
         status' \in [Procs -> Status],
         \A r \in Procs : pending[r] # {} => status'[r] \in {"draining", "dtor"},
         \/ held' = held
         \/ held' = [held EXCEPT ![q] = CopyIds(q, S)]
         \/ held' = [held EXCEPT ![q] = @ \cup CopyIds(q, S)],
         mailbox' = mailbox \/ mailbox' = [mailbox EXCEPT ![q] = Append(@, CopyIds(q, S))]
  PROVE  OffHeapInv' /\ Lasting
<1> DEFINE ids == CopyIds(q, S)
<1>1. /\ StoreInv' /\ Lasting
      /\ \A x \in Things : things'[x].state = things[x].state
      /\ ids \subseteq StubsOf(q)' /\ ids \subseteq StubIds
  BY CopyStep
<1>2. \A r \in Procs : StubsOf(r) \subseteq StubsOf(r)'
  BY DEF StubsOf, Chain
<1>3. /\ mailbox[q] \in Seq(SUBSET StubIds)
      /\ \/ held' = held
         \/ held' = [held EXCEPT ![q] = ids]
         \/ held' = [held EXCEPT ![q] = @ \cup ids]
      /\ mailbox' = mailbox \/ mailbox' = [mailbox EXCEPT ![q] = Append(@, ids)]
  BY RootTypes
<1> HIDE DEF ids
<1>4. /\ held' \in [Procs -> SUBSET StubIds] /\ held'[q] \subseteq held[q] \cup ids
      /\ \A r \in Procs : r # q => held'[r] = held[r]
  <2>1. held \in [Procs -> SUBSET StubIds] /\ ids \in SUBSET StubIds
    BY <1>1, RootTypes
  <2>2. CASE held' = held
    BY <2>1, <2>2
  <2>3. CASE held' = [held EXCEPT ![q] = ids]
    BY <2>1, <2>3
  <2>4. CASE held' = [held EXCEPT ![q] = @ \cup ids]
    BY <2>1, <2>4
  <2> QED BY <2>2, <2>3, <2>4, <1>3
<1>5. /\ mailbox' \in [Procs -> Seq(SUBSET StubIds)]
      /\ mailbox'[q] = mailbox[q] \/ mailbox'[q] = Append(mailbox[q], ids)
      /\ \A r \in Procs : r # q => mailbox'[r] = mailbox[r]
  <2>1. /\ Append(mailbox[q], ids) \in Seq(SUBSET StubIds)
        /\ mailbox \in [Procs -> Seq(SUBSET StubIds)]
    BY <1>1, <1>3, RootTypes
  <2>2. CASE mailbox' = mailbox
    BY <2>1, <2>2
  <2>3. CASE mailbox' = [mailbox EXCEPT ![q] = Append(@, ids)]
    BY <2>1, <2>3, Zenon
  <2> QED BY <2>2, <2>3, <1>3
<1>6. MailStubs(q)' \subseteq MailStubs(q) \cup ids
  <2>1. CASE mailbox'[q] = mailbox[q]
    BY <2>1 DEF MailStubs
  <2>2. CASE mailbox'[q] = Append(mailbox[q], ids)
    <3>1. \A i \in DOMAIN mailbox'[q] :
            \/ mailbox'[q][i] = ids
            \/ i \in DOMAIN mailbox[q] /\ mailbox'[q][i] = mailbox[q][i]
      BY <2>2, <1>1, <1>3
    <3> QED BY <3>1 DEF MailStubs
  <2> QED BY <2>1, <2>2, <1>5
<1>7. RootsAreChained'
  BY <1>1, <1>2, <1>4, <1>5, <1>6, RootTypes, RootsMove, Zenon
<1>8. \A x \in Handles : things'[x].state = things[x].state
  BY <1>1 DEF Things
<1> QED BY <1>1, <1>4, <1>5, <1>7, <1>8, Assembled

LEMMA InvSuffix ==
  ASSUME OffHeapInv, NEW p \in Procs, NEW s \in held[p], Suffix(p, s)
  PROVE  OffHeapInv' /\ Lasting
<1>1. /\ {s} \in SUBSET held[p] /\ RoomFor(p, {s}) /\ status[p] # "exited"
      /\ stubs' = stubs \cup Copies(p, p, {s}) /\ things' = Retained(things, Copies(p, p, {s}))
      /\ held' = [held EXCEPT ![p] = @ \cup CopyIds(p, {s})]
      /\ UNCHANGED <<leg, status, mailbox, pending, ran, torn>>
  BY Zenon DEF Suffix, InQuantum
<1>2. ~torn /\ status' \in [Procs -> Status]
  BY <1>1, NotTorn, RootTypes
<1>3. \A r \in Procs : pending[r] # {} => status'[r] \in {"draining", "dtor"}
  BY <1>1, RootTypes
<1> QED BY <1>1, <1>2, <1>3, InvCopy, Zenon

\* Copies go to a new process, to a mailbox or into the continuation of a wait.
LEMMA InvTransfer ==
  ASSUME OffHeapInv, NEW p \in Procs, NEW q \in Procs, NEW S \in SUBSET held[p],
         Spawn(p, q, S) \/ Post(p, q, S) \/ Hand(p, q, S)
  PROVE  OffHeapInv' /\ Lasting
<1>1. /\ RoomFor(q, S) /\ status[p] # "exited"
      /\ stubs' = stubs \cup Copies(p, q, S) /\ things' = Retained(things, Copies(p, q, S))
      /\ UNCHANGED <<leg, pending, ran, torn>>
  BY Zenon DEF Spawn, Post, Hand, InQuantum
<1>2. /\ \/ held' = held
         \/ held' = [held EXCEPT ![q] = CopyIds(q, S)]
         \/ held' = [held EXCEPT ![q] = @ \cup CopyIds(q, S)]
      /\ mailbox' = mailbox \/ mailbox' = [mailbox EXCEPT ![q] = Append(@, CopyIds(q, S))]
  BY Zenon DEF Spawn, Post, Hand
<1>3. ~torn
  BY <1>1, NotTorn
<1>4. /\ status' \in [Procs -> Status]
      /\ \A r \in Procs : pending[r] # {} => status'[r] \in {"draining", "dtor"}
  <2>1. CASE Spawn(p, q, S) \/ Hand(p, q, S)
    <3>1. status' = [status EXCEPT ![q] = "ready"] /\ status[q] \notin {"draining", "dtor"}
      BY <2>1 DEF Spawn, Hand
    <3>2. "ready" \in Status
      BY DEF Status
    <3> QED BY <3>1, <3>2, StatusMoves, Zenon
  <2>2. CASE Post(p, q, S)
    <3>1. status' = status
      BY <2>2 DEF Post
    <3> QED BY <3>1, RootTypes
  <2> QED BY <2>1, <2>2
<1> QED BY <1>1, <1>2, <1>3, <1>4, InvCopy, Zenon

LEMMA InvClaim ==
  ASSUME OffHeapInv, NEW p \in Procs, NEW s \in held[p], Claim(p, s)
  PROVE  OffHeapInv' /\ Lasting
<1> DEFINE x == ThingOf(p, s)
<1>1. /\ status[p] # "exited" /\ things' = [things EXCEPT ![x].claimed = TRUE]
      /\ UNCHANGED <<leg, status, stubs, held, mailbox, pending, ran, torn>>
  BY DEF Claim, InQuantum
<1>2. x \in Things /\ things[x].state = "live"
  BY ReachedThing
<1> HIDE DEF x
<1>3. StoreInv
  BY StoreOfInv
<1>4. ASSUME NEW y \in Things
      PROVE  /\ things'[y].state = things[y].state /\ things'[y].count = things[y].count
             /\ things'[y] \in ThingRecord /\ (things[y].claimed => things'[y].claimed)
             /\ y # x => things'[y] = things[y]
  BY <1>1, <1>2, <1>3, Zenon DEF StoreInv, ThingRecord
<1>5. StoreInv'
  <2>1. things' \in [Things -> ThingRecord]
    BY <1>1, <1>3, Zenon DEF StoreInv, ThingRecord
  <2>2. CountsAreExact'
    BY <1>1, <1>3, <1>4 DEF StoreInv, CountsAreExact, Edges
  <2>3. ClaimedIsMade'
    BY <1>2, <1>3, <1>4 DEF StoreInv, ClaimedIsMade
  <2>4. PlacesAreSingle'
    BY <1>1, <1>3 DEF StoreInv, PlacesAreSingle
  <2> QED BY <2>1, <2>2, <2>3, <2>4, <1>1, <1>3 DEF StoreInv
<1>6. Lasting
  BY <1>2, <1>4 DEF Lasting
<1>7. RootsAreChained'
  BY <1>1, RootTypes, RootsStay
<1>8. \A y \in Handles : things'[y].state = things[y].state
  BY <1>4 DEF Things
<1>9. ~torn
  BY <1>1, NotTorn
<1> QED BY <1>1, <1>5, <1>6, <1>7, <1>8, <1>9, RootTypes, Assembled

\* A step that leaves the store alone.
LEMMA StoreStays == ASSUME OffHeapInv, UNCHANGED <<stubs, things>> PROVE StoreInv' /\ Lasting
<1>1. StoreInv
  BY StoreOfInv
<1>2. PlacesAreSingle' /\ ClaimedIsMade' /\ CountsAreExact'
  BY <1>1 DEF StoreInv, PlacesAreSingle, ClaimedIsMade, CountsAreExact, Edges
<1> QED BY <1>1, <1>2 DEF StoreInv, Lasting

\* A process is resumed, its timer fires, or it is done with its destructors.
LEMMA InvMove ==
  ASSUME OffHeapInv, NEW p \in Procs, Dispatch(p) \/ AfterFires(p) \/ Drained(p)
  PROVE  OffHeapInv' /\ Lasting
<1>1. PICK st \in Status :
        /\ status' = [status EXCEPT ![p] = st] /\ status[p] # "exited"
        /\ held' = held \/ held' = [held EXCEPT ![p] = {}]
        /\ pending[p] = {}
        /\ UNCHANGED <<leg, stubs, mailbox, things, pending, ran, torn>>
  <2>1. status[p] \notin {"draining", "dtor"} => pending[p] = {}
    BY RootTypes
  <2> QED BY <2>1 DEF Dispatch, AfterFires, Drained, Status
<1>2. StoreInv' /\ Lasting /\ ~torn
  BY <1>1, StoreStays, NotTorn
<1>3. held' \in [Procs -> SUBSET StubIds] /\ \A q \in Procs : held'[q] \subseteq held[q]
  BY <1>1, RootTypes, Zenon
<1>4. RootsAreChained'
  BY <1>1, <1>3, RootTypes DEF RootsAreChained, StubsOf, Chain, MailStubs
<1>5. /\ status' \in [Procs -> Status]
      /\ \A q \in Procs : pending[q] # {} => status'[q] \in {"draining", "dtor"}
  BY <1>1, RootTypes
<1>6. \A x \in Handles : things'[x].state = "freed" => things[x].state = "freed"
  BY <1>1
<1> QED BY <1>1, <1>2, <1>3, <1>4, <1>5, <1>6, RootTypes, Assembled

\* Taking a message out of a mailbox leaves the others.
LEMMA RemoveAtType ==
  ASSUME NEW T, NEW box \in Seq(T), NEW i \in DOMAIN box
  PROVE  RemoveAt(box, i) \in Seq(T)
<1>1. i \in 1..Len(box) /\ Len(box) \in Nat
  OBVIOUS
<1>2. SubSeq(box, 1, i - 1) \in Seq(T) /\ SubSeq(box, i + 1, Len(box)) \in Seq(T)
  BY <1>1
<1> QED BY <1>2 DEF RemoveAt

LEMMA RemoveAtFacts ==
  ASSUME NEW T, NEW box \in Seq(T), NEW i \in DOMAIN box
  PROVE  /\ RemoveAt(box, i) \in Seq(T)
         /\ \A j \in DOMAIN RemoveAt(box, i) : \E k \in DOMAIN box : RemoveAt(box, i)[j] = box[k]
<1>1. PICK X : X = {box[k] : k \in DOMAIN box}
  BY Zenon
<1>2. box \in Seq(X)
  BY <1>1
<1>3. RemoveAt(box, i) \in Seq(T) /\ RemoveAt(box, i) \in Seq(X)
  BY <1>2, RemoveAtType
<1>4. \A j \in DOMAIN RemoveAt(box, i) : RemoveAt(box, i)[j] \in X
  BY <1>3
<1> QED BY <1>1, <1>3, <1>4

\* A waiting receive takes a queued message: its stubs become the process's own.
LEMMA InvScan ==
  ASSUME OffHeapInv, NEW p \in Procs, NEW i \in DOMAIN mailbox[p], ScanHit(p, i)
  PROVE  OffHeapInv' /\ Lasting
<1>1. /\ status[p] = "waiting" /\ status' = [status EXCEPT ![p] = "running"]
      /\ held' = [held EXCEPT ![p] = @ \cup mailbox[p][i]]
      /\ mailbox' = [mailbox EXCEPT ![p] = RemoveAt(@, i)]
      /\ UNCHANGED <<leg, stubs, things, pending, ran, torn>>
  BY DEF ScanHit
<1>2. StoreInv' /\ Lasting /\ ~torn
  BY <1>1, StoreStays, NotTorn
<1>3. /\ mailbox[p] \in Seq(SUBSET StubIds)
      /\ RemoveAt(mailbox[p], i) \in Seq(SUBSET StubIds)
      /\ \A j \in DOMAIN RemoveAt(mailbox[p], i) :
           \E k \in DOMAIN mailbox[p] : RemoveAt(mailbox[p], i)[j] = mailbox[p][k]
  BY RootTypes, RemoveAtFacts
<1>4. mailbox[p][i] \in SUBSET StubIds
  BY <1>3
<1>5. /\ held' \in [Procs -> SUBSET StubIds] /\ held'[p] = held[p] \cup mailbox[p][i]
      /\ \A q \in Procs : q # p => held'[q] = held[q]
  BY <1>1, <1>4, RootTypes
<1>6. /\ mailbox' \in [Procs -> Seq(SUBSET StubIds)] /\ mailbox'[p] = RemoveAt(mailbox[p], i)
      /\ \A q \in Procs : q # p => mailbox'[q] = mailbox[q]
  BY <1>1, <1>3, RootTypes
<1>7. held'[p] \cup MailStubs(p)' \subseteq held[p] \cup MailStubs(p) \cup {}
  BY <1>3, <1>5, <1>6 DEF MailStubs
<1>8. \A q \in Procs : StubsOf(q) \subseteq StubsOf(q)'
  BY <1>1 DEF StubsOf, Chain
<1>9. RootsAreChained'
  BY <1>5, <1>6, <1>7, <1>8, RootTypes, RootsMove, Zenon
<1>10. /\ status' \in [Procs -> Status]
       /\ \A q \in Procs : pending[q] # {} => status'[q] \in {"draining", "dtor"}
  BY <1>1, StatusMoves, Zenon DEF Status
<1>11. \A x \in Handles : things'[x].state = "freed" => things[x].state = "freed"
  BY <1>1
<1> QED BY <1>1, <1>2, <1>5, <1>6, <1>9, <1>10, <1>11, Assembled

\* The end of a quantum: with a collection, which the interpreter never does,
\* or without one.
LEMMA InvCollect ==
  ASSUME OffHeapInv, NEW p \in Procs, NEW kept \in SUBSET held[p],
         Yield(p, kept) \/ Park(p, kept) \/ (kept = {} /\ HaltCollect(p))
  PROVE  OffHeapInv' /\ Lasting
<1> DEFINE live == kept \cup MailStubs(p)
           D == Chain(p) \ Surviving(p, live)
<1>1. PICK st \in Status :
        /\ status[p] = "running" /\ status' = [status EXCEPT ![p] = st]
        /\ held' = [held EXCEPT ![p] = kept]
        /\ UNCHANGED <<leg, mailbox, pending, ran, torn>>
  BY DEF Yield, Park, HaltCollect, Status
<1>2. \/ leg # "interp" /\ stubs' = stubs \ D /\ things' = Released(things, D)
      \/ UNCHANGED <<stubs, things>>
  <2>1. CASE kept = {} /\ HaltCollect(p)
    <3>1. live = MailStubs(p)
      BY <2>1
    <3> QED BY <2>1, <3>1 DEF HaltCollect, Collect
  <2>2. CASE Yield(p, kept) \/ Park(p, kept)
    BY <2>2, Zenon DEF Yield, Park, MayCollect, Collect
  <2> QED BY <2>1, <2>2
<1>3. ~torn
  BY <1>1, NotTorn
<1>4. D \in SUBSET stubs
  BY DEF Chain
<1> HIDE DEF D
<1>5. /\ StoreInv' /\ Lasting
      /\ leg = "interp" => \A x \in Handles : things'[x].state = "freed" => things[x].state = "freed"
  <2>1. CASE leg # "interp" /\ stubs' = stubs \ D /\ things' = Released(things, D)
    BY <2>1, <1>4, StoreOfInv, StoreShrinks
  <2>2. CASE UNCHANGED <<stubs, things>>
    BY <2>2, StoreStays
  <2> QED BY <2>1, <2>2, <1>2
<1>6. RootsAreChained'
  <2>1. stubs' = stubs \ (Chain(p) \ Surviving(p, live)) \/ stubs' = stubs
    BY <1>2 DEF D
  <2>2. DOMAIN held = Procs /\ RootsAreChained
    BY RootTypes
  <2> QED BY <2>1, <2>2, <1>1, RootsSurvive, Zenon
<1>7. /\ status' \in [Procs -> Status]
      /\ \A q \in Procs : pending[q] # {} => status'[q] \in {"draining", "dtor"}
  BY <1>1, StatusMoves, Zenon
<1>8. held' \in [Procs -> SUBSET StubIds] /\ mailbox' \in [Procs -> Seq(SUBSET StubIds)]
  BY <1>1, RootTypes
<1> QED BY <1>1, <1>3, <1>5, <1>6, <1>7, <1>8, Assembled

\* The exit of a process queues a destructor for what it was the last to hold.
LEMMA InvExit ==
  ASSUME OffHeapInv, NEW p \in Procs, Exit(p)
  PROVE  OffHeapInv' /\ Lasting
<1> DEFINE D == Chain(p)
           O == Orphaned(p)
<1>1. /\ status[p] \in {"running", "halted"}
      /\ status' = [status EXCEPT ![p] = IF O = {} THEN "exited" ELSE "draining"]
      /\ things' = Released(things, D) /\ stubs' = stubs \ D
      /\ pending' = [pending EXCEPT ![p] = O]
      /\ held' = [held EXCEPT ![p] = {}] /\ mailbox' = [mailbox EXCEPT ![p] = <<>>]
      /\ UNCHANGED <<leg, ran, torn>>
  BY DEF Exit
<1>2. ~torn
  BY <1>1, NotTorn
<1>3. D \in SUBSET stubs
  BY DEF Chain
<1>4. /\ StoreInv /\ StoreInv' /\ Lasting
      /\ \A x \in Things :
           /\ things'[x].claimed = things[x].claimed
           /\ things'[x].state = IF Edges(D, x) > 0 /\ Edges(D, x) = things[x].count
                                    THEN "freed" ELSE things[x].state
  BY <1>1, <1>3, StoreOfInv, StoreShrinks, Zenon
<1>5. \A x \in Handles :
        x \in O <=> Edges(D, x) > 0 /\ Edges(D, x) = things[x].count /\ ~things[x].claimed
  BY DEF Orphaned
<1>6. O \subseteq Handles /\ pending[p] = {}
  BY <1>1, RootTypes DEF Orphaned
<1> HIDE DEF D, O
<1>7. /\ \A x \in Handles : x \in O <=> /\ things[x].state = "live" /\ things'[x].state = "freed"
                                       /\ ~things[x].claimed
      /\ \A x \in Handles : things[x].state = "freed" => things'[x] = things[x]
      /\ \A x \in Handles : things'[x].claimed = things[x].claimed
      /\ \A x \in Handles : things'[x].state = "freed" => things[x].state \in {"freed", "live"}
  <2> SUFFICES ASSUME NEW x \in Handles
               PROVE  /\ x \in O <=> /\ things[x].state = "live" /\ things'[x].state = "freed"
                                    /\ ~things[x].claimed
                      /\ things[x].state = "freed" => things'[x] = things[x]
                      /\ things'[x].claimed = things[x].claimed
                      /\ things'[x].state = "freed" => things[x].state \in {"freed", "live"}
    OBVIOUS
  <2>1. x \in Things
    BY DEF Things
  <2>2. things[x].count \in Nat /\ (things[x].state = "live" <=> things[x].count > 0)
    BY <2>1, <1>4 DEF StoreInv, CountsAreExact, ThingRecord
  <2> QED BY <2>1, <2>2, <1>4, <1>5 DEF Lasting
<1>8. /\ pending' \in [Procs -> SUBSET Handles] /\ pending'[p] = O
      /\ \A q \in Procs : q # p => pending'[q] = pending[q]
  BY <1>1, <1>6 DEF OffHeapInv, TypeOK
<1>9. /\ status' \in [Procs -> Status] /\ (O # {} => status'[p] = "draining")
      /\ \A q \in Procs : q # p => status'[q] = status[q]
  BY <1>1, RootTypes DEF Status
<1>10. TypeOK'
  <2>1. held' \in [Procs -> SUBSET StubIds] /\ mailbox' \in [Procs -> Seq(SUBSET StubIds)]
    BY <1>1, RootTypes
  <2>2. leg \in Legs /\ ran \in [Handles -> Nat] /\ torn \in BOOLEAN
    BY DEF OffHeapInv, TypeOK
  <2> QED BY <2>1, <2>2, <1>1, <1>4, <1>8, <1>9 DEF TypeOK, StoreInv, ThingRecord, Status
<1>11. RootsAreChained'
  <2> SUFFICES ASSUME NEW q \in Procs, NEW s \in held'[q] \cup MailStubs(q)'
               PROVE  s \in StubsOf(q)'
    BY DEF RootsAreChained
  <2>1. q # p /\ s \in held[q] \cup MailStubs(q)
    BY <1>1, RootTypes DEF MailStubs
  <2>2. PICK e \in stubs : e.heap = q /\ e.id = s
    BY <2>1, RootTypes DEF RootsAreChained, StubsOf, Chain
  <2>3. e \in stubs'
    BY <2>1, <2>2, <1>1 DEF D, Chain
  <2> QED BY <2>2, <2>3 DEF StubsOf, Chain
<1>12. \A x \in Handles : Queued(x)' <=> Queued(x) \/ x \in O
  BY <1>6, <1>8 DEF Queued
<1>13. DtorInv'
  <2>1. \A q \in Procs : pending'[q] # {} => status'[q] \in {"draining", "dtor"}
    BY <1>8, <1>9, RootTypes, Zenon
  <2>2. \A x \in Handles : Queued(x) \/ ran[x] = 1 => things[x].state = "freed" /\ ~things[x].claimed
    BY DEF OffHeapInv, DtorInv
  <2>3. ASSUME NEW q \in Procs, NEW r \in Procs, pending'[q] \cap pending'[r] # {} PROVE q = r
    <3>1. PICK x \in Handles : x \in pending'[q] /\ x \in pending'[r]
      BY <2>3, <1>8
    <3>2. x \in O => ~Queued(x)
      BY <2>2, <1>7
    <3> QED BY <3>1, <3>2, <1>8 DEF OffHeapInv, DtorInv, Queued
  <2>4. ASSUME NEW x \in Handles
        PROVE  /\ ran'[x] \in {0, 1}
               /\ ran'[x] = 1 => ~Queued(x)'
               /\ ran'[x] = 1 \/ Queued(x)' => things'[x].state = "freed" /\ ~things'[x].claimed
               /\ leg = "interp" /\ ~torn /\ things'[x].state = "freed" /\ ~things'[x].claimed
                    => ran'[x] = 1 \/ Queued(x)'
    <3>1. /\ ran[x] \in {0, 1} /\ (ran[x] = 1 => ~Queued(x))
          /\ leg = "interp" /\ ~torn /\ things[x].state = "freed" /\ ~things[x].claimed
               => ran[x] = 1 \/ Queued(x)
      BY DEF OffHeapInv, DtorInv
    <3> QED BY <3>1, <2>2, <1>1, <1>7, <1>12
  <2> QED BY <2>1, <2>3, <2>4, <1>1, Zenon DEF DtorInv
<1>14. TornInv'
  BY <1>1, <1>2 DEF TornInv
<1> QED BY <1>4, <1>10, <1>11, <1>13, <1>14 DEF OffHeapInv, StoreInv

\* The scheduler takes a destructor off the queue and runs it.
LEMMA InvNextDtor ==
  ASSUME OffHeapInv, NEW p \in Procs, NEW x \in pending[p], NextDtor(p, x)
  PROVE  OffHeapInv' /\ Lasting
<1>1. /\ status[p] \in {"draining", "dtor"} /\ status' = [status EXCEPT ![p] = "dtor"]
      /\ ran' = [ran EXCEPT ![x] = @ + 1] /\ pending' = [pending EXCEPT ![p] = @ \ {x}]
      /\ UNCHANGED <<leg, stubs, held, mailbox, things, torn>>
  BY DEF NextDtor
<1>2. StoreInv' /\ Lasting /\ ~torn
  BY <1>1, StoreStays, NotTorn
<1>3. RootsAreChained'
  BY <1>1, RootTypes, RootsStay
<1>4. x \in Handles /\ ran \in [Handles -> Nat] /\ pending \in [Procs -> SUBSET Handles]
  BY DEF OffHeapInv, TypeOK
<1>5. Queued(x) /\ ran[x] = 0
  BY <1>4 DEF OffHeapInv, DtorInv, Queued
<1>6. /\ pending' \in [Procs -> SUBSET Handles] /\ pending'[p] = pending[p] \ {x}
      /\ \A q \in Procs : q # p => pending'[q] = pending[q]
  BY <1>1, <1>4
<1>7. ran' \in [Handles -> Nat] /\ ran'[x] = 1 /\ \A y \in Handles : y # x => ran'[y] = ran[y]
  BY <1>1, <1>4, <1>5
<1>8. /\ status' \in [Procs -> Status] /\ status'[p] = "dtor"
      /\ \A q \in Procs : q # p => status'[q] = status[q]
  BY <1>1, RootTypes DEF Status
<1>9. TypeOK'
  <2>1. held' \in [Procs -> SUBSET StubIds] /\ mailbox' \in [Procs -> Seq(SUBSET StubIds)]
    BY <1>1, RootTypes
  <2>2. leg \in Legs /\ torn \in BOOLEAN
    BY DEF OffHeapInv, TypeOK
  <2> QED BY <2>1, <2>2, <1>1, <1>2, <1>6, <1>7, <1>8 DEF TypeOK, StoreInv, ThingRecord, Status
<1>10. \A y \in Handles : Queued(y)' <=> Queued(y) /\ y # x
  <2>1. \A q \in Procs : x \in pending[q] => q = p
    BY DEF OffHeapInv, DtorInv
  <2> QED BY <2>1, <1>6 DEF Queued
<1>11. DtorInv'
  <2>1. \A q \in Procs : pending'[q] # {} => status'[q] \in {"draining", "dtor"}
    BY <1>6, <1>8, RootTypes, Zenon
  <2>2. \A q, r \in Procs : pending'[q] \cap pending'[r] # {} => q = r
    BY <1>6 DEF OffHeapInv, DtorInv
  <2>3. ASSUME NEW y \in Handles
        PROVE  /\ ran'[y] \in {0, 1}
               /\ ran'[y] = 1 => ~Queued(y)'
               /\ ran'[y] = 1 \/ Queued(y)' => things[y].state = "freed" /\ ~things[y].claimed
               /\ leg = "interp" /\ ~torn /\ things[y].state = "freed" /\ ~things[y].claimed
                    => ran'[y] = 1 \/ Queued(y)'
    <3>1. /\ ran[y] \in {0, 1} /\ (ran[y] = 1 => ~Queued(y))
          /\ ran[y] = 1 \/ Queued(y) => things[y].state = "freed" /\ ~things[y].claimed
          /\ leg = "interp" /\ ~torn /\ things[y].state = "freed" /\ ~things[y].claimed
               => ran[y] = 1 \/ Queued(y)
      BY DEF OffHeapInv, DtorInv
    <3> QED BY <3>1, <1>5, <1>7, <1>10
  <2> QED BY <2>1, <2>2, <2>3, <1>1 DEF DtorInv
<1>12. TornInv'
  BY <1>1, <1>2 DEF TornInv
<1> QED BY <1>2, <1>3, <1>9, <1>11, <1>12 DEF OffHeapInv, StoreInv

\* Dropping the runtime releases every stub of every heap.
LEMMA InvTeardown == ASSUME OffHeapInv, Teardown PROVE OffHeapInv' /\ Lasting
<1>1. /\ torn' = TRUE /\ things' = Released(things, stubs) /\ stubs' = {}
      /\ held' = [p \in Procs |-> {}] /\ mailbox' = [p \in Procs |-> <<>>]
      /\ pending' = [p \in Procs |-> {}] /\ status' = [p \in Procs |-> "exited"]
      /\ UNCHANGED <<leg, ran>>
  BY DEF Teardown, Emptied
<1>2. stubs' = stubs \ stubs
  BY <1>1
<1>3. StoreInv' /\ Lasting
  BY <1>1, <1>2, StoreOfInv, StoreShrinks
<1>4. TypeOK'
  <2>1. leg \in Legs /\ ran \in [Handles -> Nat]
    BY DEF OffHeapInv, TypeOK
  <2>2. <<>> \in Seq(SUBSET StubIds)
    OBVIOUS
  <2> QED BY <2>1, <2>2, <1>1, <1>3 DEF TypeOK, StoreInv, ThingRecord
<1>5. RootsAreChained'
  BY <1>1 DEF RootsAreChained, MailStubs
<1>6. DtorInv'
  <2>1. \A x \in Handles : ~Queued(x)'
    BY <1>1 DEF Queued
  <2>2. ASSUME NEW x \in Handles, ran[x] = 1
        PROVE  things'[x].state = "freed" /\ ~things'[x].claimed
    <3>1. things[x].state = "freed" /\ ~things[x].claimed
      BY <2>2 DEF OffHeapInv, DtorInv
    <3>2. things'[x] = things[x]
      BY <3>1, <1>3 DEF Lasting, Things
    <3> QED BY <3>1, <3>2
  <2>3. \A x \in Handles : ran[x] \in {0, 1}
    BY DEF OffHeapInv, DtorInv
  <2> QED BY <2>1, <2>2, <2>3, <1>1 DEF DtorInv
<1>7. TornInv'
  BY <1>1 DEF TornInv
<1> QED BY <1>3, <1>4, <1>5, <1>6, <1>7 DEF OffHeapInv, StoreInv

\* The initial state: no stub, no object.
LEMMA InvInit == Init => OffHeapInv
<1> SUFFICES ASSUME Init PROVE OffHeapInv
  OBVIOUS
<1> USE DEF Init
<1>1. TypeOK
  <2>1. <<>> \in Seq(SUBSET StubIds)
    OBVIOUS
  <2> QED BY <2>1, Zenon DEF TypeOK
<1>2. CountsAreExact
  <2> SUFFICES ASSUME NEW x \in Things
               PROVE  things[x].count = Edges(stubs, x) /\ things[x].state # "live" /\ things[x].count = 0
    BY DEF CountsAreExact
  <2>1. {e \in stubs : e.thing = x} = {}
    OBVIOUS
  <2> QED BY <2>1, FS_EmptySet DEF Edges
<1>3. IsFiniteSet(stubs)
  BY FS_EmptySet
<1>4. PlacesAreSingle /\ ClaimedIsMade /\ RootsAreChained /\ TornInv
  BY DEF PlacesAreSingle, ClaimedIsMade, RootsAreChained, TornInv, MailStubs
<1>5. DtorInv
  BY DEF DtorInv, Queued, Things
<1> QED BY <1>1, <1>2, <1>3, <1>4, <1>5 DEF OffHeapInv

LEMMA InvNext == ASSUME OffHeapInv, [Next]_vars PROVE OffHeapInv' /\ Lasting
<1>1. CASE UNCHANGED vars
  <2>1. StoreInv' /\ Lasting /\ RootsAreChained'
    BY <1>1, StoreStays, RootTypes, RootsStay DEF vars
  <2>2. TypeOK' /\ DtorInv' /\ TornInv'
    BY <1>1 DEF vars, OffHeapInv, TypeOK, DtorInv, Queued, TornInv
  <2> QED BY <2>1, <2>2 DEF OffHeapInv, StoreInv
<1>2. CASE Teardown
  BY <1>2, InvTeardown
<1>3. ASSUME NEW p \in Procs, Mutate(p) PROVE OffHeapInv' /\ Lasting
  BY <1>3, InvMake, InvSuffix, InvClaim, InvTransfer, Zenon DEF Mutate
<1>4. ASSUME NEW p \in Procs, Schedule(p) PROVE OffHeapInv' /\ Lasting
  <2>1. CASE HaltCollect(p)
    <3>1. {} \in SUBSET held[p]
      OBVIOUS
    <3> QED BY <2>1, <3>1, InvCollect, Zenon
  <2> QED BY <1>4, <2>1, InvMove, InvCollect, InvExit, InvNextDtor, InvScan, Zenon DEF Schedule
<1> QED BY <1>1, <1>2, <1>3, <1>4, Zenon DEF Next, Done

-----------------------------------------------------------------------------
\* The invariant of the store, the roots and the destructors holds throughout,
\* whatever the processes make, copy, claim, send and drop.
THEOREM OffHeapInvariant == Spec => []OffHeapInv
<1>1. OffHeapInv /\ [Next]_vars => OffHeapInv'
  BY InvNext
<1> QED BY <1>1, InvInit, PTL DEF Spec

\* The count of an object is the number of stubs of all heaps, and it is freed
\* exactly when the last goes (retain, release, mso_sweep, mso_drop_all).
THEOREM OffHeapCountsAreExact == Spec => []CountsAreExact
<1>1. OffHeapInv => CountsAreExact
  BY DEF OffHeapInv
<1> QED BY <1>1, OffHeapInvariant, PTL

\* No value and no unread message reaches a stub whose object was released
\* (deep_copy, gc_process_roots, the exit of a process).
THEOREM OffHeapReachedIsAlive == Spec => []ReachedIsAlive
<1>1. ASSUME OffHeapInv PROVE ReachedIsAlive
  <2> SUFFICES ASSUME NEW p \in Procs, NEW s \in held[p] \cup MailStubs(p)
               PROVE  /\ s \in StubsOf(p)
                      /\ \A e, f \in Chain(p) : e.id = s /\ f.id = s => e = f
                      /\ things[ThingOf(p, s)].state = "live"
    BY DEF ReachedIsAlive
  <2>1. s \in StubsOf(p)
    BY <1>1, RootTypes DEF RootsAreChained
  <2>2. \A e, f \in Chain(p) : e.id = s /\ f.id = s => e = f
    BY <1>1 DEF OffHeapInv, PlacesAreSingle, Chain
  <2> QED BY <1>1, <2>1, <2>2, ReachedThing
<1> QED BY <1>1, OffHeapInvariant, PTL

\* A destructor is due once when it was run or is queued, and not at all else.
LEMMA DueFacts ==
  ASSUME OffHeapInv, NEW x \in Handles
  PROVE  Due(x) = IF ran[x] = 1 \/ Queued(x) THEN 1 ELSE 0
<1> DEFINE Q == {p \in Procs : x \in pending[p]}
<1>1. ran[x] \in {0, 1} /\ (ran[x] = 1 => ~Queued(x))
  BY DEF OffHeapInv, DtorInv
<1>2. CASE Queued(x)
  <2>1. PICK p \in Procs : x \in pending[p]
    BY <1>2 DEF Queued
  <2>2. Q = {p}
    BY <2>1 DEF OffHeapInv, DtorInv
  <2>3. Cardinality(Q) = 1
    BY <2>2, FS_Singleton, Zenon
  <2> QED BY <1>1, <1>2, <2>3 DEF Due
<1>3. CASE ~Queued(x)
  <2>1. Q = {}
    BY <1>3 DEF Queued
  <2>2. Cardinality(Q) = 0
    BY <2>1, FS_EmptySet
  <2> QED BY <1>1, <1>3, <2>2 DEF Due
<1> QED BY <1>2, <1>3

\* No destructor is queued or run twice, early, or for a claimed resource
\* (mso_drop_all_deferred, drain_pending_dtors_backend, fz_resource_claim).
THEOREM OffHeapDtorAtMostOnce == Spec => []DtorAtMostOnce
<1>1. ASSUME OffHeapInv PROVE DtorAtMostOnce
  <2> SUFFICES ASSUME NEW x \in Handles, Due(x) > 0
               PROVE  Due(x) = 1 /\ things[x].state = "freed" /\ ~things[x].claimed
    BY DEF DtorAtMostOnce
  <2>1. Due(x) = 1 /\ (ran[x] = 1 \/ Queued(x))
    BY <1>1, DueFacts
  <2> QED BY <1>1, <2>1 DEF OffHeapInv, DtorInv
<1> QED BY <1>1, OffHeapInvariant, PTL

\* The interpreter queues or runs the destructor of every unclaimed resource
\* that was released before the runtime was dropped.
THEOREM OffHeapInterpDtorFires == Spec => []InterpDtorFires
<1>1. ASSUME OffHeapInv PROVE InterpDtorFires
  <2> SUFFICES ASSUME NEW x \in Handles, leg = "interp", ~torn, things[x].state = "freed", ~things[x].claimed
               PROVE  Due(x) = 1
    BY DEF InterpDtorFires
  <2>1. ran[x] = 1 \/ Queued(x)
    BY <1>1 DEF OffHeapInv, DtorInv
  <2> QED BY <1>1, <2>1, DueFacts
<1> QED BY <1>1, OffHeapInvariant, PTL

\* A released object is never retained, remade or released again, and a claim
\* is never taken back.
THEOREM OffHeapReleasedForGood == Spec => ReleasedForGood
<1>1. OffHeapInv /\ [Next]_vars =>
        [\A x \in Things :
           /\ things[x].state = "freed" => things'[x] = things[x]
           /\ things[x].claimed => things'[x].claimed]_vars
  BY InvNext DEF Lasting
<1> QED BY <1>1, OffHeapInvariant, PTL DEF Spec, ReleasedForGood

\* Dropping the runtime releases everything: no object is live afterwards.
THEOREM OffHeapTornIsReleased == Spec => [](torn => \A x \in Things : things[x].state # "live")
<1>1. ASSUME OffHeapInv, torn, NEW x \in Things PROVE things[x].state # "live"
  <2>1. stubs = {}
    BY <1>1 DEF OffHeapInv, TornInv
  <2>2. Edges(stubs, x) = 0
    BY <2>1, FS_EmptySet DEF Edges
  <2> QED BY <1>1, <2>2 DEF OffHeapInv, CountsAreExact
<1>2. OffHeapInv => (torn => \A x \in Things : things[x].state # "live")
  BY <1>1
<1> QED BY <1>2, OffHeapInvariant, PTL
=============================================================================
