----------------------------- MODULE SwapSpace -----------------------------
(***************************************************************************)
(* What the swap-space allocator promises (salloc and sfree, sys/malloc.c):*)
(* each process image on disk has a run of blocks of its own, and a block  *)
(* is free exactly when no image has it.                                   *)
(***************************************************************************)
EXTENDS Integers

CONSTANTS
  Slot,       \* processes that can be swapped out
  Sizes,      \* sizes of core images, p->nsegs << 3, in blocks
  SwapAddr,   \* first block of the swap area
  SwapSize    \* its length

VARIABLES free, held

Blocks == SwapAddr .. SwapAddr + SwapSize - 1
Run(a, n) == a .. a + n - 1

Init ==
  /\ free = Blocks
  /\ held = [p \in Slot |-> {}]

Alloc(p, n) ==
  /\ held[p] = {}
  /\ \E a \in Blocks :
       /\ Run(a, n) \subseteq free
       /\ free' = free \ Run(a, n)
       /\ held' = [held EXCEPT ![p] = Run(a, n)]

Release(p) ==
  /\ held[p] # {}
  /\ free' = free \cup held[p]
  /\ held' = [held EXCEPT ![p] = {}]

Next == \E p \in Slot : Release(p) \/ \E n \in Sizes : Alloc(p, n)

Spec == Init /\ [][Next]_<<free, held>>
=============================================================================
