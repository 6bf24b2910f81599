-------------------------- MODULE HeapSizingProofs --------------------------
(***************************************************************************)
(* The to-space a collection picks, for every size table, every allocation *)
(* pattern and every choice of survivors.                                  *)
(***************************************************************************)
EXTENDS HeapSizing, WellFoundedInduction, TLAPS

\* A non-empty set of naturals has a least element.
LEMMA LeastNatural ==
  ASSUME NEW T \in SUBSET Nat, T # {}
  PROVE  \E m \in T : \A n \in T : m <= n
<1> DEFINE R == {p \in Nat \X Nat : p[1] < p[2]}
<1>1. R = OpToRel(<, Nat)
  BY DEF OpToRel
<1>2. IsWellFoundedOn(R, Nat)
  BY <1>1, NatLessThanWellFounded
<1>3. PICK m \in T : \A n \in T : ~ (<<n, m>> \in R)
  BY <1>2, WFMin, Zenon
<1>4. ASSUME NEW n \in T PROVE m <= n
  <2>1. <<n, m>> \in Nat \X Nat /\ ~ (<<n, m>> \in R)
    BY <1>3
  <2>2. ~ (n < m)
    BY <2>1
  <2> QED BY <2>1, <2>2
<1> QED BY <1>4

\* The block sizes grow with the class.
LEMMA SizesGrow ==
  ASSUME NEW c \in Classes, NEW d \in Classes, c <= d
  PROVE  SizeTable[c] <= SizeTable[d]
BY SizeTableAssumption DEF Classes

\* pick_size_class returns a class that holds the bytes, or the last class.
LEMMA PickHolds ==
  ASSUME NEW b \in Nat
  PROVE  /\ PickSizeClass(b) \in Classes
         /\ SizeTable[PickSizeClass(b)] >= b \/ (PickSizeClass(b) = Last /\ SizeTable[Last] < b)
<1>1. CASE Fitting(b) = {}
  BY <1>1, SizeTableAssumption DEF PickSizeClass, Fitting, Classes, Last
<1>2. CASE Fitting(b) # {}
  <2>1. Fitting(b) \in SUBSET Nat
    BY SizeTableAssumption DEF Fitting, Classes
  <2>2. \E m \in Fitting(b) : \A n \in Fitting(b) : m <= n
    BY <1>2, <2>1, LeastNatural
  <2>3. PickSizeClass(b) \in Fitting(b)
    BY <1>2, <2>2 DEF PickSizeClass
  <2> QED BY <2>3 DEF Fitting
<1> QED BY <1>1, <1>2

-----------------------------------------------------------------------------
\* Objects lie in the bytes the heap counts, and the threshold of a leg that
\* clears its flag is reached whenever the flag is up.
SizeInv ==
  /\ TypeOK
  /\ filled <= Occupied
  /\ Leg = "jit" => FlagIsEarned /\ FitsWithoutFragments

\* Larger is one of its arguments and at least both.
LEMMA LargerOf ==
  ASSUME NEW m \in Int, NEW n \in Int
  PROVE  Larger(m, n) \in {m, n} /\ Larger(m, n) >= m /\ Larger(m, n) >= n
BY DEF Larger

\* The class above the current one is a class, and not below it.
LEMMA NextClassAbove ==
  ASSUME TypeOK
  PROVE  NextClass \in Classes /\ NextClass >= class
BY SizeTableAssumption DEF NextClass, TypeOK, Classes, Last

\* The to-space class is a class.
LEMMA ToClassType ==
  ASSUME TypeOK
  PROVE  /\ TargetBytes \in Nat
         /\ ToClass \in Classes
         /\ PlainClass \in Classes
<1>1. SizeTable[class] \in Nat /\ SizeTable[1] \in Nat /\ top \in Nat
  BY SizeTableAssumption DEF TypeOK, Classes
<1>2. Occupied \in Nat /\ FitToLive \in Nat
  BY <1>1 DEF TypeOK, Occupied, FitToLive
<1>3. Larger(FitToLive, 2 * Occupied) \in Nat
  BY <1>2, LargerOf
<1>4. TargetBytes \in Nat
  BY <1>1, <1>2, <1>3 DEF TargetBytes
<1>5. Larger(TargetBytes, SizeTable[1]) \in Nat
  BY <1>1, <1>4, LargerOf
<1>6. PlainClass \in Classes
  BY <1>5, PickHolds DEF PlainClass
<1>7. Larger(PlainClass, NextClass) \in {PlainClass, NextClass}
  BY <1>6, NextClassAbove, SizeTableAssumption, LargerOf DEF Classes
<1> QED BY <1>4, <1>6, <1>7, NextClassAbove DEF ToClass

\* A collection that counts as pressured takes a larger block than twice what
\* the heap occupies, or the largest block there is.
LEMMA PressuredGrows ==
  ASSUME TypeOK, WasPressured
  PROVE  /\ ToClass >= class
         /\ SizeTable[ToClass] >= 2 * Occupied \/ ToClass = Last
<1>1. SizeTable[class] \in Nat /\ SizeTable[1] \in Nat /\ top \in Nat
  BY SizeTableAssumption DEF TypeOK, Classes
<1>2. Occupied \in Nat /\ FitToLive \in Nat
  BY <1>1 DEF TypeOK, Occupied, FitToLive
<1>3. TargetBytes >= 2 * Occupied /\ TargetBytes \in Nat
  BY <1>2, LargerOf, ToClassType DEF TargetBytes
<1>4. PICK b \in Nat : b = Larger(TargetBytes, SizeTable[1]) /\ b >= 2 * Occupied
  BY <1>1, <1>2, <1>3, LargerOf
<1>5. /\ PlainClass \in Classes
      /\ SizeTable[PlainClass] >= b \/ PlainClass = Last
  BY <1>4, PickHolds DEF PlainClass
<1>6. ToClass = Larger(PlainClass, NextClass)
  BY DEF ToClass
<1>7. ToClass >= PlainClass /\ ToClass >= NextClass /\ ToClass \in Classes
  BY <1>5, <1>6, NextClassAbove, ToClassType, LargerOf, SizeTableAssumption DEF Classes
<1>8. ToClass >= class
  BY <1>7, NextClassAbove, SizeTableAssumption DEF TypeOK, Classes
<1>9. CASE PlainClass = Last
  BY <1>7, <1>8, <1>9, SizeTableAssumption DEF Classes, Last
<1>10. CASE SizeTable[PlainClass] >= b
  <2>1. SizeTable[ToClass] >= SizeTable[PlainClass]
    BY <1>5, <1>7, SizesGrow
  <2>2. SizeTable[ToClass] \in Nat /\ SizeTable[PlainClass] \in Nat
    BY <1>5, <1>7, SizeTableAssumption
  <2> QED BY <1>2, <1>4, <1>8, <1>10, <2>1, <2>2
<1> QED BY <1>5, <1>9, <1>10

-----------------------------------------------------------------------------
\* The first block is the smallest, empty, with half of it as threshold.
LEMMA SizeInit == Init => SizeInv
<1> SUFFICES ASSUME Init PROVE SizeInv
  OBVIOUS
<1>1. SizeTable[1] \in Nat /\ SizeTable[Last] \in Nat
  BY SizeTableAssumption DEF Classes, Last
<1>2. class \in Classes /\ SizeTable[class] \in Nat
  BY <1>1, PickHolds, SizeTableAssumption DEF Init
<1>3. SizeTable[class] \div 2 \in Nat /\ 0 \in 0..SizeTable[class]
  BY <1>2
<1>4. TypeOK
  BY <1>2, <1>3 DEF Init, TypeOK
<1> QED
  BY <1>1, <1>4 DEF SizeInv, Init, Occupied, FlagIsEarned, FitsWithoutFragments, ToSpaceFits

\* An allocation keeps the objects inside counted bytes, and raises the flag
\* only at the threshold.
LEMMA SizeAlloc ==
  ASSUME SizeInv, NEW size \in AllocSizes, Alloc(size)
  PROVE  SizeInv'
<1>1. size \in Nat /\ SizeTable[class] \in Nat /\ SizeTable[Last] \in Nat /\ top \in Nat
  BY SizeTableAssumption, BoundsAssumption DEF SizeInv, TypeOK, Classes, Last
<1>2. UNCHANGED <<threshold, prevLive, exhausted>> /\ exhausted = 0
  BY DEF Alloc
<1> USE <1>1, <1>2
<1>3. CASE AllocFragment(size)
  <2>1. TypeOK'
    BY <1>3 DEF AllocFragment, NotePressure, SizeInv, TypeOK
  <2> QED
    BY <1>3, <2>1 DEF AllocFragment, NotePressure, SizeInv, TypeOK, Occupied, BytesUsed,
      FlagIsEarned, FitsWithoutFragments, ToSpaceFits
<1>4. CASE AllocBump(size)
  <2>1. TypeOK'
    BY <1>4 DEF AllocBump, NotePressure, SizeInv, TypeOK
  <2> QED
    BY <1>4, <2>1 DEF AllocBump, NotePressure, SizeInv, TypeOK, Occupied, BytesUsed,
      FlagIsEarned, FitsWithoutFragments, ToSpaceFits
<1>5. CASE AllocGrow(size)
  <2>1. PICK k \in Classes : k = PickSizeClass(size) /\ SizeTable[k] >= size
    BY <1>5, PickHolds DEF AllocGrow
  <2>2. class' \in Classes /\ class' >= k
    <3>1. NextClass \in Classes /\ Classes \subseteq Int
      BY NextClassAbove, SizeTableAssumption DEF SizeInv, Classes
    <3>2. class' = Larger(k, NextClass)
      BY <1>5, <2>1 DEF AllocGrow
    <3> QED BY <3>1, <3>2, LargerOf
  <2>3. SizeTable[class'] \in Nat /\ SizeTable[k] \in Nat /\ SizeTable[class'] >= SizeTable[k]
    BY <2>1, <2>2, SizesGrow, SizeTableAssumption
  <2>4. top' \in 0..SizeTable[class']
    BY <1>5, <2>1, <2>3 DEF AllocGrow
  <2>5. TypeOK'
    BY <1>5, <2>2, <2>4 DEF AllocGrow, NotePressure, SizeInv, TypeOK
  <2>6. filled' <= Occupied'
    BY <1>5 DEF AllocGrow, SizeInv, TypeOK, Occupied
  <2>7. Leg = "jit" => FlagIsEarned'
    BY <1>5 DEF AllocGrow, NotePressure, SizeInv, TypeOK, Occupied, BytesUsed, FlagIsEarned
  <2> QED
    BY <2>5, <2>6, <2>7 DEF SizeInv, FitsWithoutFragments, ToSpaceFits
<1> QED BY <1>3, <1>4, <1>5 DEF Alloc

\* On a leg that clears its flag, a collection without fragments is pressured.
LEMMA FlagMeansPressured ==
  ASSUME SizeInv, Leg = "jit", pressure, frags = 0
  PROVE  WasPressured
<1>1. top \in Nat
  BY SizeTableAssumption DEF SizeInv, TypeOK, Classes
<1> QED BY <1>1 DEF SizeInv, TypeOK, FlagIsEarned, BytesUsed, Occupied, WasPressured

\* A collection installs survivors that fit, or stops a leg that clears its
\* flag only for survivors beyond the largest class or beside a fragment.
LEMMA SizeBoundary ==
  ASSUME SizeInv, Boundary
  PROVE  SizeInv'
<1>1. PICK live \in 0..filled :
        (\E kept \in {0, frags} : Install(live, kept)) \/ Exhaust(live)
  BY DEF Boundary
<1>2. live \in Nat /\ live <= Occupied /\ top \in Nat /\ Occupied \in Nat
  BY <1>1, SizeTableAssumption DEF SizeInv, TypeOK, Classes, Occupied
<1>3. ToClass \in Classes /\ SizeTable[ToClass] \in Nat /\ SizeTable[Last] \in Nat
  BY ToClassType, SizeTableAssumption DEF SizeInv, Classes, Last
<1>4. pressure' \in BOOLEAN /\ (Leg = "jit" => pressure' = FALSE)
  BY DEF Boundary, FlagAfterBoundary
<1>5. ASSUME NEW kept \in {0, frags}, Install(live, kept)
      PROVE  SizeInv'
  <2>1. TypeOK'
    BY <1>2, <1>3, <1>4, <1>5 DEF Install, SizeInv, TypeOK
  <2>2. filled' <= Occupied'
    BY <1>2, <1>5 DEF Install, Occupied
  <2>3. exhausted' = 0
    BY <1>5 DEF Install, Boundary
  <2> QED
    BY <1>4, <2>1, <2>2, <2>3 DEF SizeInv, FlagIsEarned, FitsWithoutFragments, ToSpaceFits
<1>6. CASE Exhaust(live)
  <2>1. TypeOK' /\ filled' <= Occupied' /\ UNCHANGED frags
    BY <1>2, <1>4, <1>6 DEF Exhaust, SizeInv, TypeOK, Occupied
  <2>2. ASSUME Leg = "jit", frags = 0
        PROVE  live > SizeTable[Last]
    <3>1. SizeTable[ToClass] >= 2 * Occupied \/ ToClass = Last
      BY <2>2, FlagMeansPressured, PressuredGrows DEF Boundary, SizeInv
    <3> QED BY <1>2, <1>3, <1>6, <3>1 DEF Exhaust
  <2>3. Leg = "jit" => FitsWithoutFragments'
    BY <1>6, <2>1, <2>2 DEF Exhaust, FitsWithoutFragments, ToSpaceFits, SizeInv, TypeOK
  <2> QED
    BY <1>4, <2>1, <2>3 DEF SizeInv, FlagIsEarned
<1> QED BY <1>1, <1>5, <1>6

\* SizeInv is inductive.
LEMMA SizeStep == SizeInv /\ [Next]_vars => SizeInv'
<1> SUFFICES ASSUME SizeInv, [Next]_vars PROVE SizeInv'
  OBVIOUS
<1>1. CASE \E size \in AllocSizes : Alloc(size)
  BY <1>1, SizeAlloc
<1>2. CASE Boundary
  BY <1>2, SizeBoundary
<1>3. CASE UNCHANGED vars
  BY <1>3 DEF vars, SizeInv, TypeOK, Occupied, BytesUsed, FlagIsEarned, FitsWithoutFragments, ToSpaceFits
<1> QED BY <1>1, <1>2, <1>3 DEF Next, Aborted

\* SizeInv holds in every reachable state of either leg.
LEMMA SizeAlways == Spec => []SizeInv
BY SizeInit, SizeStep, PTL DEF Spec

\* A JIT heap's collection never runs out of to-space, except for survivors
\* beyond the largest size class or while a fragment is attached: the sizing of
\* gc_with_extra_roots is enough for any table, program and survivors.
THEOREM JitCollectionFits ==
  ASSUME Leg = "jit"
  PROVE  Spec => [](TypeOK /\ FitsWithoutFragments /\ FlagIsEarned)
<1>1. SizeInv => TypeOK /\ FitsWithoutFragments /\ FlagIsEarned
  BY DEF SizeInv
<1> QED BY <1>1, SizeAlways, PTL

\* A JIT heap without fragments never moves to a smaller size class: the flag
\* that starts its collections always selects the GROW band.
THEOREM JitNeverShrinks ==
  ASSUME Leg = "jit"
  PROVE  Spec => NeverShrinks
<1>1. ASSUME SizeInv, [Next]_vars
      PROVE  [frags = 0 => class' >= class]_vars
  <2>0. class \in Nat
    BY <1>1, SizeTableAssumption DEF SizeInv, TypeOK, Classes
  <2> SUFFICES ASSUME frags = 0, Next PROVE class' >= class
    BY <1>1, <2>0
  <2>1. CASE \E size \in AllocSizes : Alloc(size)
    <3>1. PICK size \in AllocSizes : Alloc(size)
      BY <2>1
    <3>2. size \in Nat
      BY BoundsAssumption
    <3>3. PickSizeClass(size) \in Classes
      BY <3>2, PickHolds
    <3>4. CASE AllocGrow(size)
      <4>1. class' = Larger(PickSizeClass(size), NextClass)
        BY <3>4 DEF AllocGrow
      <4>2. NextClass \in Classes /\ NextClass >= class
        BY <1>1, NextClassAbove DEF SizeInv
      <4>3. PickSizeClass(size) \in Int /\ NextClass \in Int
        BY <3>3, <4>2, SizeTableAssumption DEF Classes
      <4>4. class' \in {PickSizeClass(size), NextClass} /\ class' >= NextClass
        BY <4>1, <4>3, LargerOf
      <4> QED BY <2>0, <4>2, <4>3, <4>4
    <3> QED BY <2>0, <3>1, <3>4 DEF Alloc, AllocFragment, AllocBump
  <2>2. CASE Boundary
    <3>1. ToClass >= class
      BY <1>1, <2>2, FlagMeansPressured, PressuredGrows DEF Boundary, SizeInv
    <3> QED BY <2>0, <2>2, <3>1 DEF Boundary, Install, Exhaust
  <2>3. CASE Aborted
    BY <2>0, <2>3 DEF Aborted, vars
  <2> QED BY <2>1, <2>2, <2>3 DEF Next
<1> QED BY <1>1, SizeAlways, PTL DEF Spec, NeverShrinks

\* Below the largest class, a JIT collection without fragments leaves the
\* survivors within the new threshold.
THEOREM JitGcMakesRoom ==
  ASSUME Leg = "jit"
  PROVE  Spec => GcMakesRoom
<1>1. ASSUME SizeInv, Boundary, frags = 0, class' < Last, exhausted' = 0
      PROVE  BytesUsed' <= threshold'
  <2>1. PICK live \in 0..filled :
          (\E kept \in {0, frags} : Install(live, kept)) \/ Exhaust(live)
    BY <1>1 DEF Boundary
  <2>2. top \in Nat /\ live \in Nat /\ live <= Occupied /\ Occupied \in Nat
    BY <1>1, <2>1, SizeTableAssumption DEF SizeInv, TypeOK, Classes, Occupied
  <2>3. ToClass \in Classes /\ SizeTable[ToClass] \in Nat
    BY <1>1, ToClassType, SizeTableAssumption DEF SizeInv
  <2>4. ~ Exhaust(live)
    BY <1>1, <2>2, <2>3 DEF Exhaust
  <2>5. PICK kept \in {0, frags} : Install(live, kept)
    BY <2>1, <2>4
  <2>6. SizeTable[ToClass] >= 2 * Occupied
    <3>1. ToClass # Last
      BY <1>1, <2>5, SizeTableAssumption DEF Install, Last
    <3> QED BY <1>1, <3>1, FlagMeansPressured, PressuredGrows DEF Boundary, SizeInv
  <2>7. SizeTable[ToClass] \div 2 >= live
    BY <2>2, <2>3, <2>6
  <2>8. BytesUsed' = live /\ threshold' = SizeTable[ToClass] \div 2
    BY <1>1, <2>2, <2>5 DEF Install, BytesUsed, Occupied
  <2> QED BY <2>2, <2>3, <2>7, <2>8
<1>2. SizeInv /\ [Next]_vars =>
        [Boundary /\ frags = 0 /\ class' < Last /\ exhausted' = 0
           => BytesUsed' <= threshold']_vars
  BY <1>1
<1> QED BY <1>2, SizeAlways, PTL DEF Spec, GcMakesRoom
=============================================================================
