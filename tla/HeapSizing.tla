----------------------------- MODULE HeapSizing -----------------------------
(***************************************************************************)
(* The sizes of one process heap: the bump block and its size class, the   *)
(* blocks abandoned by growth, the oversize fragments, the pressure flag   *)
(* and the to-space a collection picks (runtime/src/heap/imp.rs and        *)
(* block_pool.rs).  Objects are reduced to the bytes they take; which of   *)
(* them survive a collection is chosen freely.                             *)
(*                                                                         *)
(* Leg is the scheduler that owns the boundary: "jit" clears the pressure  *)
(* flag after every boundary (ir_codegen/compiled.rs, process.rs), "aot"   *)
(* never does (aot_shim.rs dispatch_quantum).                              *)
(***************************************************************************)
EXTENDS Integers

CONSTANTS
  NClasses,    \* number of size classes
  SizeTable,   \* SIZE_TABLE: class |-> block size
  AllocSizes,  \* sizes a program allocates, oversize ones included
  MaxFilled,   \* bound: object bytes in the blocks of the heap
  MaxFrags,    \* bound: bytes in fragments
  Leg

Classes == 1..NClasses
Last == NClasses

ASSUME SizeTableAssumption ==
  /\ NClasses \in Nat \ {0}
  /\ SizeTable \in [Classes -> Nat \ {0}]
  /\ \A c, d \in Classes : c < d => SizeTable[c] < SizeTable[d]

ASSUME BoundsAssumption ==
  /\ AllocSizes \subseteq Nat \ {0}
  /\ MaxFilled \in Nat
  /\ MaxFrags \in Nat
  /\ Leg \in {"jit", "aot"}

VARIABLES
  class,      \* size_class of the current block
  top,        \* bump_top - block_start
  abandoned,  \* bytes of the abandoned blocks, whole blocks
  filled,     \* bytes of objects in the current and abandoned blocks
  frags,      \* bytes of the attached fragments
  threshold,  \* gc_threshold_bytes
  prevLive,   \* last_gc_live_bytes
  pressure,   \* the should_gc flag
  exhausted   \* survivors of the collection that ran out of to-space, else 0

vars == <<class, top, abandoned, filled, frags, threshold, prevLive, pressure, exhausted>>

Larger(m, n) == IF m >= n THEN m ELSE n

\* The smallest class that holds `bytes`, the last one when none does.
Fitting(bytes) == {c \in Classes : SizeTable[c] >= bytes}

PickSizeClass(bytes) ==
  IF Fitting(bytes) = {} THEN Last
  ELSE CHOOSE c \in Fitting(bytes) : \A d \in Fitting(bytes) : c <= d

NextClass == IF class = Last THEN Last ELSE class + 1

Occupied == top + abandoned
BytesUsed == Occupied + frags

-----------------------------------------------------------------------------
\* Heap::with_node with the capacity of Process::from_consts.
Init ==
  /\ class = PickSizeClass(SizeTable[1])
  /\ top = 0
  /\ abandoned = 0
  /\ filled = 0
  /\ frags = 0
  /\ threshold = SizeTable[class] \div 2
  /\ prevLive = 0
  /\ pressure = FALSE
  /\ exhausted = 0

\* note_alloc_pressure, after the allocation moved `used`.
NotePressure(used) == pressure' = (pressure \/ used >= threshold)

\* alloc_kind, an object no block can hold.
AllocFragment(size) ==
  /\ size > SizeTable[Last]
  /\ frags + size <= MaxFrags
  /\ frags' = frags + size
  /\ NotePressure(BytesUsed + size)
  /\ UNCHANGED <<class, top, abandoned, filled>>

\* alloc_kind, the bump fits the current block.
AllocBump(size) ==
  /\ size <= SizeTable[Last]
  /\ filled + size <= MaxFilled
  /\ top + size <= SizeTable[class]
  /\ top' = top + size
  /\ filled' = filled + size
  /\ NotePressure(BytesUsed + size)
  /\ UNCHANGED <<class, abandoned, frags>>

\* alloc_kind, the bump overflows: abandon the block for a larger one.
AllocGrow(size) ==
  /\ size <= SizeTable[Last]
  /\ filled + size <= MaxFilled
  /\ top + size > SizeTable[class]
  /\ class' = Larger(PickSizeClass(size), NextClass)
  /\ abandoned' = abandoned + SizeTable[class]
  /\ top' = size
  /\ filled' = filled + size
  /\ NotePressure(abandoned + SizeTable[class] + size + frags)
  /\ UNCHANGED frags

Alloc(size) ==
  /\ exhausted = 0
  /\ AllocFragment(size) \/ AllocBump(size) \/ AllocGrow(size)
  /\ UNCHANGED <<threshold, prevLive, exhausted>>

-----------------------------------------------------------------------------
\* The three bands of gc_with_extra_roots.
FitToLive == IF prevLive > 0 THEN 2 * prevLive ELSE Occupied

WasPressured == abandoned > 0 \/ Occupied >= threshold

\* Mutant: the pressured heap gets what it occupies now, not twice that.
TargetOccupied == Larger(FitToLive, Occupied)

TargetBytes ==
  IF WasPressured THEN Larger(FitToLive, 2 * Occupied)
  ELSE IF prevLive = 0 \/ 4 * prevLive <= SizeTable[class] THEN FitToLive
  ELSE SizeTable[class]

PlainClass == PickSizeClass(Larger(TargetBytes, SizeTable[1]))

ToClass == IF WasPressured THEN Larger(PlainClass, NextClass) ELSE PlainClass

\* Survivors fit: to-space becomes the block, from-space goes to the pool.
Install(live, kept) ==
  /\ live <= SizeTable[ToClass]
  /\ class' = ToClass
  /\ top' = live
  /\ abandoned' = 0
  /\ filled' = live
  /\ frags' = kept
  /\ threshold' = SizeTable[ToClass] \div 2
  /\ prevLive' = live
  /\ UNCHANGED exhausted

\* Mutant: the assertion also refuses the object that fills the block exactly.
ExhaustWhenFull(live) ==
  /\ live >= SizeTable[ToClass]
  /\ exhausted' = live
  /\ UNCHANGED <<class, top, abandoned, filled, frags, threshold, prevLive>>

\* "Cheney: to-space exhausted": the copy asserts and the program aborts.
Exhaust(live) ==
  /\ live > SizeTable[ToClass]
  /\ exhausted' = live
  /\ UNCHANGED <<class, top, abandoned, filled, frags, threshold, prevLive>>

\* Does the boundary of this leg lower the flag once it has collected?
FlagAfterBoundary == Leg = "aot"

\* A quantum boundary with the flag up collects; with the flag down it leaves
\* the sizes alone.
Boundary ==
  /\ exhausted = 0
  /\ pressure
  /\ \E live \in 0..filled :
       \/ \E kept \in {0, frags} : Install(live, kept)
       \/ Exhaust(live)
  /\ pressure' = FlagAfterBoundary

\* The aborted program does nothing more.
Aborted == exhausted > 0 /\ UNCHANGED vars

Next == (\E size \in AllocSizes : Alloc(size)) \/ Boundary \/ Aborted

Spec == Init /\ [][Next]_vars

-----------------------------------------------------------------------------
\* Every size is a natural number, and the bump pointer is inside its block.
TypeOK ==
  /\ class \in Classes
  /\ top \in 0..SizeTable[class]
  /\ abandoned \in Nat
  /\ filled \in Nat
  /\ frags \in Nat
  /\ threshold \in Nat
  /\ prevLive \in Nat
  /\ pressure \in BOOLEAN
  /\ exhausted \in Nat

\* A collection finds room for every survivor (the assertion of
\* copy_object_to_space) unless the survivors exceed the largest size class.
ToSpaceFits == exhausted = 0 \/ exhausted > SizeTable[Last]

\* The collector of a leg that clears its flag runs out of room only for
\* survivors that exceed the largest class, or when a fragment (which raises
\* the flag without counting as pressure in the sizing) is attached.
FitsWithoutFragments == ToSpaceFits \/ frags > 0

\* Between collections the flag is exact: it is only up while the heap holds
\* at least the threshold, so a boundary never collects a heap that has room.
FlagIsEarned == pressure => BytesUsed >= threshold

\* A heap without fragments never moves to a smaller class: the flag that
\* starts a collection also selects its GROW band, so the SHRINK and KEEP
\* bands are never taken.
NeverShrinks == [][frags = 0 => class' >= class]_vars

\* A collection leaves room to allocate: unless the largest class is reached
\* or a fragment was attached, the survivors stay within the new threshold, so
\* the next boundary does not collect again for nothing.
GcMakesRoom ==
  [][Boundary /\ frags = 0 /\ class' < Last /\ exhausted' = 0
       => BytesUsed' <= threshold']_vars
=============================================================================
