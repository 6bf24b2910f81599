----------------------------- MODULE MCOffHeap -----------------------------
\* Two processes, two handles and a shared binary.
EXTENDS OffHeap, TLC

HandlesAreAlike == Permutations(Handles)
=============================================================================
