------------------------------ MODULE SwapMap ------------------------------
(***************************************************************************)
(* The swap map of sys/malloc.c: the free runs of the swap area in         *)
(* increasing-address order, ended by an entry of size 0.  salloc takes    *)
(* the first run that is long enough; sfree puts a run back in its place   *)
(* and joins it with its neighbours.                                       *)
(***************************************************************************)
EXTENDS Integers, SequencesExt

CONSTANTS
  Slot,       \* processes that can be swapped out
  Sizes,      \* sizes of core images, p->nsegs << 3, in blocks
  SwapAddr,   \* first block of the swap area
  SwapSize,   \* its length
  MapSize     \* MAPSIZE: entries of swapmap[], the end mark included

ASSUME SwapAssumption ==
  /\ Sizes \subseteq Nat \ {0}
  /\ SwapAddr \in Nat \ {0}
  /\ SwapSize \in Nat \ {0}
  /\ MapSize \in Nat

VARIABLES
  map,    \* swapmap[], without the end mark
  image,  \* p->swap and the size of p's image while it is on disk
  peak    \* auxiliary: the most entries swapmap[] has had to hold, end mark included

vars == <<map, image, peak>>

Entry(a, n) == [addr |-> a, size |-> n]
Nowhere == Entry(0, 0)
End(e) == e.addr + e.size

Init ==
  /\ map = <<Entry(SwapAddr, SwapSize)>>
  /\ image = [p \in Slot |-> Nowhere]
  /\ peak = 2
-----------------------------------------------------------------------------
LongEnough(n) == {j \in DOMAIN map : map[j].size >= n}

\* Mutant of salloc: a run that fits exactly stays in the map, cut to nothing
\* but one block.
sallocKeep(p, n) ==
  /\ image[p] = Nowhere
  /\ LongEnough(n) # {}
  /\ LET j == Min(LongEnough(n))
     IN /\ image' = [image EXCEPT ![p] = Entry(map[j].addr, n)]
        /\ map' = IF map[j].size = n
                  THEN [map EXCEPT ![j] = Entry(@.addr + n - 1, 1)]
                  ELSE [map EXCEPT ![j] = Entry(@.addr + n, @.size - n)]
  /\ UNCHANGED peak

\* The first run of at least n blocks: lshift drops it if it fits exactly,
\* else its head is cut off.
salloc(p, n) ==
  /\ image[p] = Nowhere
  /\ LongEnough(n) # {}
  /\ LET j == Min(LongEnough(n))
     IN /\ image' = [image EXCEPT ![p] = Entry(map[j].addr, n)]
        /\ map' = IF map[j].size = n
                  THEN RemoveAt(map, j)
                  ELSE [map EXCEPT ![j] = Entry(@.addr + n, @.size - n)]
  /\ UNCHANGED peak

\* Where the scan of sfree stops: at the first run not below blk, or the end.
Place(blk) == Min({j \in DOMAIN map : map[j].addr >= blk} \cup {Len(map) + 1})

\* The last of the entries of m that follow k without a gap.
LastJoined(m, k) ==
  Max({n \in k .. Len(m) : \A j \in k .. n - 1 : End(m[j]) = m[j + 1].addr})

\* The entries k..n of m become one.
Join(m, k, n) ==
  SubSeq(m, 1, k - 1) \o <<Entry(m[k].addr, End(m[n]) - m[k].addr)>> \o SubSeq(m, n + 1, Len(m))

\* Mutant of sfree: the run is put back one entry too late.
sfreeLate(p) ==
  /\ image[p] # Nowhere
  /\ LET j == Min({Place(image[p].addr) + 1, Len(map) + 1})
         m == InsertAt(map, j, image[p])
         k == Max({j - 1, 1})
     IN map' = Join(m, k, LastJoined(m, k)) /\ peak' = Max({peak, Len(m) + 1})
  /\ image' = [image EXCEPT ![p] = Nowhere]

\* rshift makes room for the run; the joining starts with the entry before it
\* and goes on as long as there is no gap.
sfree(p) ==
  /\ image[p] # Nowhere
  /\ LET j == Place(image[p].addr)
         m == InsertAt(map, j, image[p])
         k == Max({j - 1, 1})
     IN map' = Join(m, k, LastJoined(m, k)) /\ peak' = Max({peak, Len(m) + 1})
  /\ image' = [image EXCEPT ![p] = Nowhere]
-----------------------------------------------------------------------------
Next == \E p \in Slot : sfree(p) \/ \E n \in Sizes : salloc(p, n)

Spec == Init /\ [][Next]_vars
-----------------------------------------------------------------------------
Run(e) == e.addr .. End(e) - 1
Free == UNION {Run(map[j]) : j \in DOMAIN map}

Space == INSTANCE SwapSpace WITH free <- Free, held <- [p \in Slot |-> Run(image[p])]

\* The map implements the allocator: no two images overlap, no free block
\* belongs to an image, and none is ever forgotten (malloc.c:341-412).
Implements == Space!Spec

\* "in increasing-address order" (malloc.c:309-310), without overlaps and
\* without an entry of size 0 before the end mark, which would hide the rest.
MapInOrder ==
  /\ \A j \in DOMAIN map : map[j].size > 0
  /\ \A j \in 1 .. Len(map) - 1 : End(map[j]) <= map[j + 1].addr

\* rshift never writes beyond swapmap[MAPSIZE] (malloc.c:314-320, 401-412).
MapFits == peak <= MapSize
=============================================================================
