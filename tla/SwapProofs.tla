----------------------------- MODULE SwapProofs -----------------------------
(***************************************************************************)
(* Proofs about Swap, for any number of processes, any sizes of core, swap *)
(* space and images, with and without swap errors: core is conserved,      *)
(* every process is in one place, and who sleeps for memory is known to    *)
(* want it.                                                                *)
(***************************************************************************)
EXTENDS Swap, FiniteSetTheorems, TLAPS

\* A set of naturals has a least element: what Min and Max choose exists.
LEMMA LeastExists ==
  ASSUME NEW T \in SUBSET Nat, T # {}
  PROVE  \E x \in T : \A y \in T : x <= y
<1> DEFINE R == OpToRel(<, Nat)
<1>1. IsWellFoundedOn(R, Nat)
  BY NatLessThanWellFounded
<1>2. PICK x \in T : \A y \in T : ~(<<y, x>> \in R)
  <2> HIDE DEF R
  <2> QED
    BY <1>1, WFMin
<1>3. ASSUME NEW y \in T PROVE x <= y
  <2>1. ~(y < x)
    BY <1>2 DEF OpToRel
  <2> QED
    BY <2>1
<1> QED
  BY <1>3

\* Min chooses a process of the set.
LEMMA MinIn ==
  ASSUME NEW T \in SUBSET Proc, T # {}
  PROVE  Min(T) \in T
<1>1. T \in SUBSET Nat
  BY SwapAssumption DEF Proc
<1>2. \E x \in T : \A y \in T : x =< y
  BY <1>1, LeastExists
<1> QED
  BY <1>2 DEF Min

\* Max chooses a process of the set.
LEMMA MaxIn ==
  ASSUME NEW T \in SUBSET Proc, T # {}
  PROVE  Max(T) \in T
<1> DEFINE U == {NPROC - x : x \in T}
<1>1. NPROC \in Nat /\ \A x \in T : x \in Nat /\ NPROC - x \in Nat
  BY SwapAssumption DEF Proc
<1>2. U \in SUBSET Nat /\ U # {}
  BY <1>1
<1>3. PICK u \in U : \A v \in U : u <= v
  BY <1>2, LeastExists
<1>4. PICK x \in T : u = NPROC - x
  OBVIOUS
<1>5. ASSUME NEW y \in T PROVE x >= y
  <2>1. u <= NPROC - y
    BY <1>3
  <2> QED
    BY <1>1, <1>4, <2>1
<1> QED
  BY <1>5 DEF Max

\* findout and fork find what they look for.
LEMMA findoutIs == Candidates # {} => findout \in Candidates
<1> SUFFICES ASSUME Candidates # {} PROVE findout \in Candidates
  OBVIOUS
<1>1. Candidates \in SUBSET Proc /\ {p \in Candidates : "AWAKE" \notin mode[p]} \in SUBSET Proc
  BY DEF Candidates
<1> QED
  BY <1>1, MinIn, MaxIn DEF findout

\* fork takes a free slot of plist if there is one.
LEMMA childIs == FreeSlots # {} => child \in FreeSlots
<1>1. FreeSlots \in SUBSET Proc
  BY DEF FreeSlots
<1> QED
  BY <1>1, MinIn DEF child

\* TypeOK, but for the bounds of nsegs, which take CoreConserved.
TInv ==
  /\ mode \in [Plist -> SUBSET Mode]
  /\ event \in [Plist -> Event]
  /\ time \in [Proc -> 0..MINRUN]
  /\ size \in [Proc -> 0..MaxSize]
  /\ seg \in [Proc -> 0..MaxSize]
  /\ swap \in [Proc -> BOOLEAN]
  /\ pc \in [Proc -> PcLabel]
  /\ kid \in [Proc -> Plist]
  /\ execing \in Plist
  /\ nsegs \in Int
  /\ memwant \in BOOLEAN
  /\ swapping \in BOOLEAN
  /\ spc \in SpcLabel
  /\ n \in Plist
  /\ free \subseteq Space!Blocks
  /\ held \in [Proc -> SUBSET Space!Blocks]
  /\ killed \subseteq Proc
  /\ err \in BOOLEAN

(***************************************************************************)
(* Where the image of p is: in core, on disk, on its way out or in, or the *)
(* image its parent writes as its child's.                                 *)
(***************************************************************************)
Out(p) == spc \in {"outlock", "outio"} /\ n = p
In(p) == spc \in {"inlock", "inio"} /\ n = p
IsKid(p) == \E q \in Proc : kid[q] = p
Forking(p) == pc[p] \in {"forklock", "forkio"}
Nowhere(p) == mode[p] \cap {"LOADED", "SWAPPED"} = {}
InCore(p) ==
  /\ seg[p] <= size[p]
  /\ p \in killed \/ IF pc[p] = "grow" THEN seg[p] >= size[p] - 1 ELSE seg[p] = size[p]
Imaged(p) == Cardinality(held[p]) = size[p] /\ swap[p]

\* In core.  p->swap tells grow whether its segment has come with the rest.
LoadedP(p) == {"ALIVE", "LOADED"} \subseteq mode[p] =>
  /\ "SWAPPED" \notin mode[p] /\ held[p] = {}
  /\ InCore(p)
  /\ pc[p] = "grow" => p \in killed \/ seg[p] = IF swap[p] THEN size[p] ELSE size[p] - 1

\* On disk, on the way out, on the way in, and written by the parent.
SwappedP(p) == "SWAPPED" \in mode[p] => seg[p] = 0 /\ Imaged(p)
OutP(p) == Out(p) => "ALIVE" \in mode[p] /\ Nowhere(p) /\ InCore(p) /\ Imaged(p)
InP(p) == In(p) => "ALIVE" \in mode[p] /\ Nowhere(p) /\ seg[p] = size[p] /\ Imaged(p)
KidP(p) == IsKid(p) =>
  /\ "ALIVE" \in mode[p] /\ Nowhere(p) /\ ~Out(p) /\ ~In(p) /\ seg[p] = 0 /\ Imaged(p)
  /\ event[p] = "none" /\ pc[p] = "user"

\* There is no other place for a process, until a swap error hangs it.
AliveP(p) == "ALIVE" \in mode[p] =>
  /\ "ALLOC" \in mode[p] /\ size[p] >= MinSize
  /\ Nowhere(p) => Out(p) \/ In(p) \/ IsKid(p) \/ err

\* A zombie or a free slot has nothing.
DeadP(p) == "ALIVE" \notin mode[p] =>
  /\ "SWAPPED" \notin mode[p] /\ seg[p] = 0 /\ held[p] = {} /\ event[p] = "none" /\ pc[p] = "user"

\* A parent that writes its child's image is locked in core.
ForkP(p) ==
  /\ Forking(p) <=> kid[p] # 0
  /\ Forking(p) => {"ALIVE", "AWAKE", "LOADED", "LOCKED"} \subseteq mode[p]

KillP(p) == p \in killed => err /\ "ALLOC" \in mode[p]
WaitP(p) == event[p] # "none" => "AWAKE" \notin mode[p]

PlaceP(p) ==
  /\ LoadedP(p) /\ SwappedP(p) /\ OutP(p) /\ InP(p) /\ KidP(p)
  /\ AliveP(p) /\ DeadP(p) /\ ForkP(p) /\ KillP(p) /\ WaitP(p)
PlaceInv == \A p \in Proc : PlaceP(p)
KidInv == \A p, q \in Proc : kid[p] = kid[q] /\ kid[p] # 0 => p = q
MoveInv == spc \in {"outlock", "outio", "inlock", "inio"} => n # 0

\* The constants.
LEMMA ConstFacts ==
  /\ NPROC \in Nat \ {0} /\ MinSize \in Nat \ {0} /\ MaxSize \in Nat /\ MinSize <= MaxSize
  /\ Segs \in Nat /\ MaxSize <= Segs /\ MINRUN \in Nat /\ SwapSize \in Nat /\ IoErrors \in BOOLEAN
  /\ Proc \subseteq Plist /\ Swapper \in Plist /\ Swapper \notin Proc /\ 0 \in Plist
  /\ \A p \in Plist : p \in Proc <=> p # 0
  BY SwapAssumption DEF Proc, Plist, Swapper

\* run changes nothing but AWAKE and event.
LEMMA RunType ==
  ASSUME NEW md \in [Plist -> SUBSET Mode], NEW R, TInv, run(md, R)
  PROVE  mode' \in [Plist -> SUBSET Mode] /\ event' \in [Plist -> Event]
  BY DEF run, Awake, Quiet, TInv, Mode, Event

\* run adds AWAKE and ends the sleep, and changes nothing else.
LEMMA RunFacts ==
  ASSUME NEW md, NEW R, run(md, R), NEW p \in Plist
  PROVE  /\ mode'[p] = md[p] \/ mode'[p] = md[p] \cup {"AWAKE"}
         /\ event'[p] = event[p] \/ event'[p] = "none"
         /\ event'[p] # "none" => mode'[p] = md[p]
         /\ p \in R => event'[p] = "none"
  BY DEF run, Awake, Quiet, Woken

\* sleep keeps modes and events in their types.
LEMMA SleepType ==
  ASSUME TInv, NEW p \in Plist, NEW e \in Event, NEW want, sleep(p, e, want)
  PROVE  mode' \in [Plist -> SUBSET Mode] /\ event' \in [Plist -> Event]
  BY ConstFacts DEF sleep, Awake, Quiet, TInv, Mode, Event

\* sleep changes its own process only.
LEMMA SleepFacts ==
  ASSUME TInv, NEW p \in Proc, NEW e, NEW want, sleep(p, e, want)
  PROVE  /\ mode'[p] = mode[p] \ {"AWAKE"} /\ event'[p] = e
         /\ \A q \in Proc : q # p => mode'[q] = mode[q] /\ event'[q] = event[q]
  BY ConstFacts DEF sleep, Awake, Quiet, TInv

\* mwake keeps the types and clears memwant.
LEMMA MwakeType ==
  ASSUME NEW md \in [Plist -> SUBSET Mode], TInv, mwake(md)
  PROVE  mode' \in [Plist -> SUBSET Mode] /\ event' \in [Plist -> Event] /\ memwant' = FALSE
  BY RunType DEF mwake

\* After mwake nobody sleeps for memory.
LEMMA MwakeWakes ==
  ASSUME TInv, NEW md, mwake(md), SleeperWantsMemory
  PROVE  SleeperWantsMemory'
  BY ConstFacts DEF TInv, SleeperWantsMemory, mwake, run, Quiet, Woken

\* A signal puts nobody to sleep.
LEMMA KillQuiet ==
  ASSUME NEW md, NEW p, SendKill(p, md), NEW q \in Plist
  PROVE  event'[q] = event[q] \/ event'[q] = "none"
  BY RunFacts DEF SendKill

\* A signal keeps modes and events in their types.
LEMMA KillType ==
  ASSUME NEW md \in [Plist -> SUBSET Mode], TInv, NEW p \in Proc, SendKill(p, md)
  PROVE  /\ mode' \in [Plist -> SUBSET Mode] /\ event' \in [Plist -> Event]
         /\ killed' \subseteq Proc
<1>1. CASE run(md, {q \in {p} : event[q] = "io"})
  BY <1>1, RunType DEF SendKill, TInv
<1>2. CASE mode' = md /\ UNCHANGED event
  BY <1>2 DEF SendKill, TInv
<1> QED
  BY <1>1, <1>2 DEF SendKill

\* The operations on swap space keep it within the swap area.
LEMMA SpaceType ==
  ASSUME TInv, NEW p \in Proc, NEW k, Space!Alloc(p, k) \/ Space!Release(p) \/ Leak(p)
  PROVE  free' \subseteq Space!Blocks /\ held' \in [Proc -> SUBSET Space!Blocks]
  BY DEF TInv, Space!Alloc, Space!Release, Leak

\* Every step keeps the types.
LEMMA TypeStep == ASSUME TInv, MoveInv, [Next]_vars PROVE TInv'
<1> USE ConstFacts DEF TInv, MoveInv, SwapGoto, procVars, memVars, swapVars, space,
                       PcLabel, SpcLabel, Mode, Event
<1>1. ASSUME NEW p \in Proc, SleepIo(p) PROVE TInv'
  BY <1>1, SleepType DEF SleepIo
<1>2. ASSUME NEW p \in Proc, grow(p) PROVE TInv'
  <2>1. CASE nsegs = 0 /\ GrowSleep(p)
    <3>1. mode' \in [Plist -> SUBSET Mode] /\ event' \in [Plist -> Event]
      BY <2>1, SleepType DEF GrowSleep
    <3> QED
      BY <1>2, <2>1, <3>1 DEF grow, GrowSleep
  <2>2. CASE nsegs > 0 /\ segalloc(p) /\ UNCHANGED <<mode, event, pc, memwant>>
    BY <1>2, <2>2 DEF grow, segalloc
  <2> QED
    BY <1>2, <2>1, <2>2 DEF grow
<1>3. ASSUME NEW p \in Proc, exec(p) PROVE TInv'
  <2>1. mode \in [Plist -> SUBSET Mode]
    BY <1>3 DEF exec
  <2>2. mwake(mode)
    BY <1>3 DEF exec, mrelse
  <2>3. mode' \in [Plist -> SUBSET Mode] /\ event' \in [Plist -> Event] /\ memwant' = FALSE
    BY <2>1, <2>2, MwakeType
  <2>4. nsegs' \in Int /\ seg' \in [Proc -> 0..MaxSize] /\ size' \in [Proc -> 0..MaxSize]
    BY <1>3 DEF exec, mrelse
  <2> QED
    BY <1>3, <2>3, <2>4 DEF exec, mrelse
<1>4. ASSUME NEW p \in Proc, ForkInCore(p) PROVE TInv'
  BY <1>4, childIs DEF ForkInCore, mget, FreeSlots
<1>5. ASSUME NEW p \in Proc, ForkToDisk(p) PROVE TInv'
  <2>1. child \in Proc
    BY <1>5, childIs DEF ForkToDisk, FreeSlots
  <2>2. free' \subseteq Space!Blocks /\ held' \in [Proc -> SUBSET Space!Blocks]
    BY <1>5, <2>1, SpaceType DEF ForkToDisk
  <2> DEFINE c == child
  <2> HIDE DEF c
  <2>3. c \in Proc
    BY <2>1 DEF c
  <2>4. mode' = [mode EXCEPT ![c] = mode[p] \ {"LOADED"}, ![p] = @ \cup {"LOCKED"}]
    BY <1>5 DEF ForkToDisk, c
  <2>5. /\ size' = [size EXCEPT ![c] = size[p]] /\ time' = [time EXCEPT ![c] = 0]
        /\ swap' = [swap EXCEPT ![c] = TRUE] /\ kid' = [kid EXCEPT ![p] = c]
    BY <1>5 DEF ForkToDisk, c
  <2>6. pc' \in [Proc -> PcLabel] /\ UNCHANGED <<event, seg, execing, killed, memVars, swapVars, err>>
    BY <1>5 DEF ForkToDisk
  <2>7. mode' \in [Plist -> SUBSET Mode]
    BY <2>3, <2>4
  <2>8. size' \in [Proc -> 0..MaxSize] /\ kid' \in [Proc -> Plist]
    BY <2>3, <2>5
  <2>9. time' \in [Proc -> 0..MINRUN]
    BY <2>3, <2>5
  <2>10. swap' \in [Proc -> BOOLEAN]
    BY <2>3, <2>5
  <2> QED
    BY <2>2, <2>6, <2>7, <2>8, <2>9, <2>10
<1>6. ASSUME NEW p \in Proc, exit(p) PROVE TInv'
  <2>1. [mode EXCEPT ![p] = @ \ {"ALIVE", "AWAKE"}] \in [Plist -> SUBSET Mode]
    BY <1>6 DEF exit
  <2>2. mwake([mode EXCEPT ![p] = @ \ {"ALIVE", "AWAKE"}])
    BY <1>6 DEF exit, mfree
  <2>3. mode' \in [Plist -> SUBSET Mode] /\ event' \in [Plist -> Event] /\ memwant' = FALSE
    BY <2>1, <2>2, MwakeType
  <2>4. nsegs' \in Int /\ seg' \in [Proc -> 0..MaxSize]
    BY <1>6 DEF exit, mfree
  <2> QED
    BY <1>6, <2>3, <2>4 DEF exit, mfree
<1>7. ASSUME NEW p \in Proc, GrowAgain(p) PROVE TInv'
  <2>1. CASE nsegs = 0 /\ GrowSleep(p)
    BY <1>7, <2>1, SleepType DEF GrowAgain, GrowSleep
  <2>2. CASE nsegs > 0 /\ swap[p]
    BY <1>7, <2>2 DEF GrowAgain
  <2>3. CASE nsegs > 0 /\ ~swap[p]
    BY <1>7, <2>3 DEF GrowAgain, segalloc
  <2> QED
    BY <1>7, <2>1, <2>2, <2>3 DEF GrowAgain
<1>8. ASSUME NEW p \in Proc, readin(p) PROVE TInv'
  BY <1>8 DEF readin
<1>9. ASSUME NEW p \in Proc, ExecDone(p) PROVE TInv'
  BY <1>9 DEF ExecDone
<1>10. ASSUME NEW p \in Proc, ForkLock(p) PROVE TInv'
  BY <1>10 DEF ForkLock
<1>11. ASSUME NEW p \in Proc, ForkDone(p) PROVE TInv'
  BY <1>11, RunType DEF ForkDone
<1>12. ASSUME NEW p \in Proc, ForkError(p) PROVE TInv'
  <2>1. mode' \in [Plist -> SUBSET Mode] /\ killed' \subseteq Proc
    BY <1>12 DEF ForkError, ZeroProc
  <2>0. 0 \in 0..MaxSize /\ 0 \in 0..MINRUN
    OBVIOUS
  <2>0a. size' = [size EXCEPT ![kid[p]] = 0] /\ time' = [time EXCEPT ![kid[p]] = 0]
    BY <1>12 DEF ForkError, ZeroProc
  <2>2b. size' \in [Proc -> 0..MaxSize]
    BY <2>0, <2>0a
  <2>2. time' \in [Proc -> 0..MINRUN]
    BY <2>0, <2>0a
  <2>2a. swap' \in [Proc -> BOOLEAN]
    BY <1>12 DEF ForkError, ZeroProc
  <2>3. kid' \in [Proc -> Plist] /\ pc' \in [Proc -> PcLabel] /\ err'
    BY <1>12 DEF ForkError
  <2>4. free' \subseteq Space!Blocks /\ held' \in [Proc -> SUBSET Space!Blocks]
    BY <1>12 DEF ForkError, Leak
  <2>5. UNCHANGED <<event, seg, execing, memVars, swapVars>> /\ err' = TRUE
    BY <1>12 DEF ForkError
  <2> QED
    BY <2>1, <2>2, <2>2a, <2>2b, <2>3, <2>4, <2>5
<1>13. ASSUME NEW p \in Proc, Reap(p) PROVE TInv'
  BY <1>13 DEF Reap, ZeroProc
<1>14. ASSUME NEW p \in Proc, Wake(p) PROVE TInv'
  BY <1>14, RunType DEF Wake
<1>15. CASE NothingToDo
  BY <1>15 DEF NothingToDo
<1>16. CASE Top
  BY <1>16 DEF Top
<1>17. CASE SwapOut
  <2>1. findout \in Proc
    BY <1>17, findoutIs DEF SwapOut, Candidates
  <2>2. free' \subseteq Space!Blocks /\ held' \in [Proc -> SUBSET Space!Blocks]
    BY <1>17, <2>1, SpaceType DEF SwapOut
  <2> QED
    BY <1>17, <2>1, <2>2 DEF SwapOut
<1>18. CASE NoSpace
  <2>1. findout \in Proc
    BY <1>18, findoutIs DEF NoSpace, Candidates
  <2>2. /\ mode' \in [Plist -> SUBSET Mode] /\ event' \in [Plist -> Event]
        /\ killed' \subseteq Proc
    BY <1>18, <2>1, KillType DEF NoSpace
  <2> QED
    BY <1>18, <2>1, <2>2 DEF NoSpace
<1>19. CASE SwapLock
  BY <1>19 DEF SwapLock
<1>20. CASE OutDone
  <2>1. [mode EXCEPT ![n] = @ \cup {"SWAPPED"}] \in [Plist -> SUBSET Mode]
    BY <1>20 DEF OutDone
  <2>2. mwake([mode EXCEPT ![n] = @ \cup {"SWAPPED"}])
    BY <1>20 DEF OutDone, mfree
  <2>3. mode' \in [Plist -> SUBSET Mode] /\ event' \in [Plist -> Event] /\ memwant' = FALSE
    BY <2>1, <2>2, MwakeType
  <2>4. nsegs' \in Int /\ seg' \in [Proc -> 0..MaxSize] /\ time' \in [Proc -> 0..MINRUN]
    BY <1>20 DEF OutDone, mfree
  <2> QED
    BY <1>20, <2>3, <2>4 DEF OutDone, mfree
<1>21. CASE WantCore
  BY <1>21 DEF WantCore
<1>22. CASE SwapIn
  BY <1>22 DEF SwapIn, mget
<1>23. CASE InDone
  BY <1>23, SpaceType DEF InDone
<1>24. CASE Quit
  BY <1>24 DEF Quit
<1>25. CASE Doze
  BY <1>25, SleepType DEF Doze
<1>26. CASE WakeUp
  BY <1>26 DEF WakeUp
<1>27. CASE OutError
  <2>1. /\ mode' \in [Plist -> SUBSET Mode] /\ event' \in [Plist -> Event]
        /\ killed' \subseteq Proc
    BY <1>27, KillType DEF OutError
  <2> QED
    BY <1>27, <2>1 DEF OutError, Leak
<1>28. CASE InError
  <2>1. mode \in [Plist -> SUBSET Mode]
    BY <1>28 DEF InError
  <2>2. mwake(mode)
    BY <1>28 DEF InError, mfree
  <2>3. mode' \in [Plist -> SUBSET Mode] /\ event' \in [Plist -> Event] /\ memwant' = FALSE
    BY <2>1, <2>2, MwakeType
  <2>4. nsegs' \in Int /\ seg' \in [Proc -> 0..MaxSize] /\ time' \in [Proc -> 0..MINRUN]
    BY <1>28 DEF InError, mfree
  <2>5. free' \subseteq Space!Blocks /\ held' \in [Proc -> SUBSET Space!Blocks]
    BY <1>28 DEF InError, Leak
  <2> QED
    BY <1>28, <2>3, <2>4, <2>5 DEF InError, mfree
<1>29. ASSUME NEW fourth \in BOOLEAN, clock(fourth) PROVE TInv'
  <2>1. mode' \in [Plist -> SUBSET Mode] /\ event' \in [Plist -> Event]
    BY <1>29, RunType DEF clock
  <2>2. time' \in [Proc -> 0..MINRUN]
    BY <1>29 DEF clock
  <2> QED
    BY <1>29, <2>1, <2>2 DEF clock
<1>30. CASE UNCHANGED vars
  BY <1>30 DEF vars
<1> QED
  BY <1>1, <1>2, <1>3, <1>4, <1>5, <1>6, <1>7, <1>8, <1>9, <1>10, <1>11, <1>12, <1>13, <1>14,
     <1>15, <1>16, <1>17, <1>18, <1>19, <1>20, <1>21, <1>22, <1>23,
     <1>24, <1>25, <1>26, <1>27, <1>28, <1>29, <1>30
     DEF Next, Call, Continue, SwapperStep, SwapError

\* An image gets a run of its size, and nobody else's changes.
LEMMA AllocFacts ==
  ASSUME TInv, NEW p \in Proc, NEW k \in Nat, Space!Alloc(p, k)
  PROVE  /\ held[p] = {} /\ Cardinality(held'[p]) = k
         /\ \A r \in Proc : r # p => held'[r] = held[r]
<1>1. PICK a \in Space!Blocks : held' = [held EXCEPT ![p] = Space!Run(a, k)]
  BY DEF Space!Alloc
<1>2. a \in Int /\ a + k - 1 \in Int
  BY ConstFacts DEF Space!Blocks
<1>3. Cardinality(a .. a + k - 1) = k
  BY <1>2, FS_Interval
<1>4. held[p] = {}
  BY DEF Space!Alloc
<1> QED
  BY <1>1, <1>3, <1>4 DEF TInv, Space!Run

(***************************************************************************)
(* Every step leaves every process in one place: an action per step, and   *)
(* under it the process it is about and the others.                        *)
(***************************************************************************)
LEMMA PlaceStep ==
  ASSUME TInv, PlaceInv, KidInv, MoveInv, [Next]_vars, NEW q \in Proc
  PROVE  PlaceP(q)'
<1>0. PlaceP(q) /\ (\A p \in Proc : PlaceP(p))
  BY DEF PlaceInv
<1> USE <1>0, ConstFacts DEF TInv, MoveInv, SwapGoto, procVars, memVars, swapVars, space,
                       PlaceP, LoadedP, SwappedP, OutP, InP, KidP, AliveP, DeadP, ForkP, KillP, WaitP,
                       Out, In, IsKid, Forking, Nowhere, InCore, Imaged
<1>1. ASSUME NEW p \in Proc, SleepIo(p) PROVE PlaceP(q)'
  BY <1>1, SleepFacts DEF SleepIo, Runs
<1>2. ASSUME NEW p \in Proc, grow(p) PROVE PlaceP(q)'
  <2>1. CASE nsegs = 0 /\ GrowSleep(p)
    <3>1. /\ mode'[p] = mode[p] \ {"AWAKE"} /\ event'[p] = "mfree"
          /\ \A r \in Proc : r # p => mode'[r] = mode[r] /\ event'[r] = event[r]
      BY <2>1, SleepFacts DEF GrowSleep
    <3>2. CASE q = p
      BY <1>2, <2>1, <3>1, <3>2 DEF grow, GrowSleep, Runs
    <3>3. CASE q # p
      BY <1>2, <2>1, <3>1, <3>3 DEF grow, GrowSleep, Runs
    <3> QED
      BY <3>2, <3>3
  <2>2. CASE nsegs > 0 /\ segalloc(p) /\ UNCHANGED <<mode, event, pc, memwant>>
    <3>2. CASE q = p
      BY <1>2, <2>2, <3>2 DEF grow, segalloc, Runs
    <3>3. CASE q # p
      BY <1>2, <2>2, <3>3 DEF grow, segalloc, Runs
    <3> QED
      BY <3>2, <3>3
  <2> QED
    BY <1>2, <2>1, <2>2 DEF grow
<1>3. ASSUME NEW p \in Proc, exec(p) PROVE PlaceP(q)'
  <2>1. /\ mode'[q] = (mode)[q] \/ mode'[q] = (mode)[q] \cup {"AWAKE"}
        /\ event'[q] = event[q] \/ event'[q] = "none"
        /\ event'[q] # "none" => mode'[q] = (mode)[q]
    BY <1>3, RunFacts DEF exec, mrelse, mwake
  <2>8. CASE q = p
    BY <1>3, <2>8, <2>1 DEF exec, mrelse, InUser, Runs
  <2>9. CASE q # p
    BY <1>3, <2>9, <2>1 DEF exec, mrelse, InUser, Runs
  <2> QED
    BY <2>8, <2>9
<1>4. ASSUME NEW p \in Proc, ForkInCore(p) PROVE PlaceP(q)'
  <2> DEFINE c == child
  <2>1. c \in Proc /\ "ALLOC" \notin mode[c]
    BY <1>4, childIs DEF ForkInCore, FreeSlots
  <2> HIDE DEF c
  <2>2. PlaceP(c) /\ PlaceP(p) /\ c # p
    BY <1>4, <2>1 DEF PlaceInv, ForkInCore, InUser, Runs
  <2>3. /\ seg' = [seg EXCEPT ![c] = size[p]] /\ mode' = [mode EXCEPT ![c] = mode[p]]
        /\ size' = [size EXCEPT ![c] = size[p]] /\ swap' = [swap EXCEPT ![c] = swap[p]]
        /\ UNCHANGED <<event, pc, kid, execing, killed, swapVars, space, err>>
        /\ {"ALIVE", "AWAKE", "LOADED"} \subseteq mode[p] /\ pc[p] = "user" /\ p \notin killed
    BY <1>4 DEF ForkInCore, mget, InUser, Runs, c
  <2>4. CASE q = c
    BY <2>1, <2>2, <2>3, <2>4
  <2>5. CASE q # c
    BY <2>1, <2>2, <2>3, <2>5
  <2> QED
    BY <2>4, <2>5
<1>5. ASSUME NEW p \in Proc, ForkToDisk(p) PROVE PlaceP(q)'
  <2> DEFINE c == child
  <2>1. c \in Proc /\ "ALLOC" \notin mode[c]
    BY <1>5, childIs DEF ForkToDisk, FreeSlots
  <2> HIDE DEF c
  <2>2. PlaceP(c) /\ PlaceP(p) /\ c # p
    BY <1>5, <2>1 DEF PlaceInv, ForkToDisk, InUser, Runs
  <2>3. /\ mode' = [mode EXCEPT ![c] = mode[p] \ {"LOADED"}, ![p] = @ \cup {"LOCKED"}]
        /\ size' = [size EXCEPT ![c] = size[p]] /\ swap' = [swap EXCEPT ![c] = TRUE]
        /\ kid' = [kid EXCEPT ![p] = c] /\ pc'[p] \in {"forklock", "forkio"}
        /\ \A r \in Proc : r # p => pc'[r] = pc[r]
        /\ UNCHANGED <<event, seg, execing, killed, swapVars, err>>
    BY <1>5 DEF ForkToDisk, c
  <2>3a. {"ALIVE", "AWAKE", "LOADED"} \subseteq mode[p] /\ pc[p] = "user" /\ p \notin killed
    BY <1>5 DEF ForkToDisk, InUser, Runs
  <2>3b. /\ Cardinality(held'[c]) = size[p]
         /\ \A r \in Proc : r # c => held'[r] = held[r]
    BY <1>5, <2>1, AllocFacts DEF ForkToDisk, c
  <2>3c. ~Out(c) /\ ~In(c) /\ ~IsKid(c) /\ "ALIVE" \notin mode[c] /\ kid[p] = 0
    BY <2>1, <2>2, <2>3a
  <2>4. CASE q = c
    BY <2>1, <2>2, <2>3, <2>3a, <2>3b, <2>3c, <2>4
  <2>5. CASE q = p
    BY <2>1, <2>2, <2>3, <2>3a, <2>3b, <2>5
  <2>6. CASE q # c /\ q # p
    <3>1. IsKid(q)' <=> IsKid(q)
      BY <2>1, <2>3, <2>3c, <2>6
    <3> QED
      BY <2>3, <2>3b, <2>6, <3>1
  <2> QED
    BY <2>4, <2>5, <2>6
<1>6. ASSUME NEW p \in Proc, exit(p) PROVE PlaceP(q)'
  <2> DEFINE md == [mode EXCEPT ![p] = @ \ {"ALIVE", "AWAKE"}]
  <2>1. /\ mode'[q] = md[q] \/ mode'[q] = md[q] \cup {"AWAKE"}
        /\ event'[q] = event[q] \/ event'[q] = "none"
        /\ event'[q] # "none" => mode'[q] = md[q]
    BY <1>6, RunFacts DEF exit, mfree, mwake
  <2>8. CASE q = p
    BY <1>6, <2>8, <2>1 DEF exit, mfree, Runs
  <2>9. CASE q # p
    BY <1>6, <2>9, <2>1 DEF exit, mfree, Runs
  <2> QED
    BY <2>8, <2>9
<1>7. ASSUME NEW p \in Proc, GrowAgain(p) PROVE PlaceP(q)'
  <2>1. CASE nsegs = 0 /\ GrowSleep(p)
    <3>1. /\ mode'[p] = mode[p] \ {"AWAKE"} /\ event'[p] = "mfree"
          /\ \A r \in Proc : r # p => mode'[r] = mode[r] /\ event'[r] = event[r]
      BY <2>1, SleepFacts DEF GrowSleep
    <3>2. CASE q = p
      BY <1>7, <2>1, <3>1, <3>2 DEF GrowAgain, GrowSleep, Runs
    <3>3. CASE q # p
      BY <1>7, <2>1, <3>1, <3>3 DEF GrowAgain, GrowSleep, Runs
    <3> QED
      BY <3>2, <3>3
  <2>2. CASE nsegs > 0 /\ swap[p]
    <3>0. nsegs # 0
      BY <2>2
    <3>1. pc' = [pc EXCEPT ![p] = "user"] /\ UNCHANGED <<seg, mode, event, memwant, size, swap>>
      BY ONLY <1>7, <2>2, <3>0 DEF GrowAgain
    <3> QED
      BY <1>7, <2>2, <3>1 DEF GrowAgain, Runs
  <2>3. CASE nsegs > 0 /\ ~swap[p]
    <3>0. nsegs # 0
      BY <2>3
    <3>1. pc' = [pc EXCEPT ![p] = "user"] /\ segalloc(p) /\ UNCHANGED <<mode, event, memwant, size, swap>>
      BY ONLY <1>7, <2>3, <3>0 DEF GrowAgain
    <3>2. CASE q = p
      BY <1>7, <2>3, <3>1, <3>2 DEF GrowAgain, segalloc, Runs
    <3>3. CASE q # p
      BY <1>7, <2>3, <3>1, <3>3 DEF GrowAgain, segalloc, Runs
    <3> QED
      BY <3>2, <3>3
  <2> QED
    BY <1>7, <2>1, <2>2, <2>3 DEF GrowAgain
<1>8. ASSUME NEW p \in Proc, readin(p) PROVE PlaceP(q)'
  BY <1>8 DEF readin, Runs
<1>9. ASSUME NEW p \in Proc, ExecDone(p) PROVE PlaceP(q)'
  BY <1>9 DEF ExecDone, Runs
<1>10. ASSUME NEW p \in Proc, ForkLock(p) PROVE PlaceP(q)'
  BY <1>10 DEF ForkLock, Runs
<1>11. ASSUME NEW p \in Proc, ForkDone(p) PROVE PlaceP(q)'
  <2> DEFINE c == kid[p]
  <2>0. c \in Proc /\ c # p /\ IsKid(c) /\ pc[p] = "forkio"
    BY <1>11 DEF ForkDone
  <2>0a. PlaceP(c) /\ PlaceP(p)
    BY <2>0 DEF PlaceInv
  <2> HIDE DEF c
  <2>0b. kid' = [kid EXCEPT ![p] = 0] /\ pc' = [pc EXCEPT ![p] = "user"]
    BY <1>11 DEF ForkDone
  <2>0c. IsKid(q)' <=> (IsKid(q) /\ q # c)
    BY <2>0, <2>0b DEF KidInv, c
  <2> DEFINE md == [mode EXCEPT ![c] = @ \cup {"SWAPPED"}, ![p] = @ \ {"LOCKED"}]
  <2>1. /\ mode'[q] = md[q] \/ mode'[q] = md[q] \cup {"AWAKE"}
        /\ event'[q] = event[q] \/ event'[q] = "none"
        /\ event'[q] # "none" => mode'[q] = md[q]
    BY <1>11, RunFacts DEF ForkDone, mwake, c
  <2>2. UNCHANGED <<time, size, seg, swap, execing, killed, swapVars, space, err>>
    BY <1>11 DEF ForkDone
  <2>4. CASE q = c
    BY <2>0, <2>0a, <2>0b, <2>0c, <2>1, <2>2, <2>4
  <2>5. CASE q = p
    <3>1. /\ {"ALIVE", "LOADED", "ALLOC"} \subseteq mode'[p] /\ "SWAPPED" \notin mode'[p]
          /\ event'[p] = "none" /\ pc'[p] = "user" /\ kid'[p] = 0
      BY <2>0, <2>0a, <2>0b, <2>1, <2>5
    <3>2. ~IsKid(p) /\ ~IsKid(p)' /\ ~Out(p)' /\ ~In(p)' /\ size[p] >= MinSize
      BY <2>0, <2>0a, <2>0c, <2>2, <2>5
    <3>3. held[p] = {} /\ seg[p] <= size[p] /\ (p \in killed \/ seg[p] = size[p])
      BY <2>0, <2>0a, <2>5
    <3> QED
      BY <2>0a, <2>2, <2>5, <3>1, <3>2, <3>3
  <2>6. CASE q # c /\ q # p
    BY <2>0, <2>0a, <2>0b, <2>0c, <2>1, <2>2, <2>6
  <2> QED
    BY <2>4, <2>5, <2>6
<1>12. ASSUME NEW p \in Proc, ForkError(p) PROVE PlaceP(q)'
  <2> DEFINE c == kid[p]
  <2>0. c \in Proc /\ c # p /\ IsKid(c) /\ pc[p] = "forkio"
    BY <1>12 DEF ForkError
  <2>0a. PlaceP(c) /\ PlaceP(p)
    BY <2>0 DEF PlaceInv
  <2> HIDE DEF c
  <2>0b. kid' = [kid EXCEPT ![p] = 0] /\ pc' = [pc EXCEPT ![p] = "user"]
    BY <1>12 DEF ForkError
  <2>0c. IsKid(q)' <=> (IsKid(q) /\ q # c)
    BY <2>0, <2>0b DEF KidInv, c
  <2>1. /\ mode' = [[mode EXCEPT ![p] = @ \ {"LOCKED"}] EXCEPT ![c] = {}]
        /\ size' = [size EXCEPT ![c] = 0] /\ swap' = [swap EXCEPT ![c] = FALSE]
        /\ killed' = killed \ {c} /\ held' = [held EXCEPT ![c] = {}]
        /\ err' = TRUE /\ UNCHANGED <<event, seg, execing, memVars, swapVars>>
    BY <1>12 DEF ForkError, ZeroProc, Leak, c
  <2>4. CASE q = c
    <3>1. event[c] = "none" /\ pc[c] = "user"
      BY <2>0, <2>0a, <2>4
    <3> QED
      BY <2>0, <2>0a, <2>0b, <2>0c, <2>1, <2>4, <3>1
  <2>5. CASE q = p
    BY <2>0, <2>0a, <2>0b, <2>0c, <2>1, <2>5
  <2>6. CASE q # c /\ q # p
    BY <2>0, <2>0a, <2>0b, <2>0c, <2>1, <2>6
  <2> QED
    BY <2>4, <2>5, <2>6
<1>13. ASSUME NEW p \in Proc, Reap(p) PROVE PlaceP(q)'
  <2>1. TRUE
    OBVIOUS
  <2>8. CASE q = p
    BY <1>13, <2>8, <2>1 DEF Reap, ZeroProc
  <2>9. CASE q # p
    BY <1>13, <2>9, <2>1 DEF Reap, ZeroProc
  <2> QED
    BY <2>8, <2>9
<1>14. ASSUME NEW p \in Proc, Wake(p) PROVE PlaceP(q)'
  <2>1. /\ mode'[q] = mode[q] \/ mode'[q] = mode[q] \cup {"AWAKE"}
        /\ event'[q] = event[q] \/ event'[q] = "none"
        /\ event'[q] # "none" => mode'[q] = mode[q]
    BY <1>14, RunFacts DEF Wake, mwake
  <2> QED
    BY <1>14, <2>1 DEF Wake
<1>15. CASE NothingToDo
  BY <1>15 DEF NothingToDo
<1>16. CASE Top
  BY <1>16 DEF Top
<1>17. CASE SwapOut
  <2> DEFINE f == findout
  <2>1. f \in Proc /\ mode[f] \cap {"ALIVE", "LOADED", "LOCKED"} = {"ALIVE", "LOADED"}
    BY <1>17, findoutIs DEF SwapOut, Candidates
  <2> HIDE DEF f
  <2>2. PlaceP(f) /\ spc = "top" /\ {"ALIVE", "LOADED"} \subseteq mode[f] /\ "LOCKED" \notin mode[f]
    BY <1>17, <2>1 DEF PlaceInv, SwapOut
  <2>3. /\ mode' = [mode EXCEPT ![f] = @ \ {"LOADED"}] /\ swap' = [swap EXCEPT ![f] = TRUE]
        /\ spc' \in {"outio", "outlock"} /\ n' = f
        /\ UNCHANGED <<event, size, seg, pc, kid, execing, killed, err>>
    BY <1>17 DEF SwapOut, f
  <2>4. /\ Cardinality(held'[f]) = size[f]
        /\ \A r \in Proc : r # f => held'[r] = held[r]
    BY <1>17, <2>1, AllocFacts DEF SwapOut, f
  <2>5. CASE q = f
    BY <2>1, <2>2, <2>3, <2>4, <2>5
  <2>6. CASE q # f
    BY <2>1, <2>2, <2>3, <2>4, <2>6
  <2> QED
    BY <2>5, <2>6
<1>18. CASE NoSpace
  <2> DEFINE f == findout
  <2>1. f \in Proc /\ mode[f] \cap {"ALIVE", "LOADED", "LOCKED"} = {"ALIVE", "LOADED"}
    BY <1>18, findoutIs DEF NoSpace, Candidates
  <2> HIDE DEF f
  <2>2. PlaceP(f) /\ spc = "top" /\ {"ALIVE", "LOADED"} \subseteq mode[f] /\ "LOCKED" \notin mode[f]
    BY <1>18, <2>1 DEF PlaceInv, NoSpace
  <2>3. /\ mode'[q] = mode[q] \/ mode'[q] = mode[q] \cup {"AWAKE"}
        /\ event'[q] = event[q] \/ event'[q] = "none"
        /\ event'[q] # "none" => mode'[q] = mode[q]
    <3>1. CASE run(mode, {r \in {f} : event[r] = "io"})
      BY <3>1, RunFacts
    <3>2. CASE mode' = mode /\ UNCHANGED event
      BY <3>2
    <3> QED
      BY <1>18, <3>1, <3>2 DEF NoSpace, SendKill, f
  <2>4. /\ swap' = [swap EXCEPT ![f] = FALSE] /\ killed' = killed \cup {f} /\ err' = TRUE
        /\ spc' = "quit" /\ UNCHANGED <<size, seg, pc, kid, execing, held>>
    BY <1>18 DEF NoSpace, SendKill, f
  <2>5. CASE q = f
    BY <2>1, <2>2, <2>3, <2>4, <2>5
  <2>6. CASE q # f
    BY <2>1, <2>2, <2>3, <2>4, <2>6
  <2> QED
    BY <2>5, <2>6
<1>19. CASE SwapLock
  BY <1>19 DEF SwapLock
<1>20. CASE OutDone
  <2>1. n \in Proc /\ PlaceP(n) /\ Out(n)
    BY <1>20 DEF OutDone, PlaceInv
  <2> DEFINE md == [mode EXCEPT ![n] = @ \cup {"SWAPPED"}]
  <2>2. /\ mode'[q] = md[q] \/ mode'[q] = md[q] \cup {"AWAKE"}
        /\ event'[q] = event[q] \/ event'[q] = "none"
        /\ event'[q] # "none" => mode'[q] = md[q]
    BY <1>20, RunFacts DEF OutDone, mfree, mwake
  <2>3. /\ seg' = [seg EXCEPT ![n] = 0] /\ spc' = "find"
        /\ UNCHANGED <<size, swap, pc, kid, execing, killed, space, err>>
    BY <1>20 DEF OutDone, mfree
  <2>5. CASE q = n
    BY <2>1, <2>2, <2>3, <2>5
  <2>6. CASE q # n
    BY <2>1, <2>2, <2>3, <2>6
  <2> QED
    BY <2>5, <2>6
<1>21. CASE WantCore
  BY <1>21 DEF WantCore
<1>22. CASE SwapIn
  <2>1. PICK p \in Proc :
          /\ "SWAPPED" \in mode[p] /\ seg' = [seg EXCEPT ![p] = size[p]]
          /\ mode' = [mode EXCEPT ![p] = @ \ {"SWAPPED"}] /\ spc' \in {"inio", "inlock"} /\ n' = p
    BY <1>22 DEF SwapIn, mget, findin, Outsiders
  <2>2. PlaceP(p) /\ spc = "find"
    BY <1>22 DEF SwapIn, PlaceInv
  <2>3. UNCHANGED <<event, time, size, swap, pc, kid, execing, killed, memwant, space, err>>
    BY <1>22 DEF SwapIn
  <2>5. CASE q = p
    BY <2>1, <2>2, <2>3, <2>5
  <2>6. CASE q # p
    BY <2>1, <2>2, <2>3, <2>6
  <2> QED
    BY <2>5, <2>6
<1>23. CASE InDone
  <2>1. n \in Proc /\ PlaceP(n) /\ In(n)
    BY <1>23 DEF InDone, PlaceInv
  <2>3. /\ mode' = [mode EXCEPT ![n] = @ \cup {"LOADED"}] /\ spc' = "top" /\ held' = [held EXCEPT ![n] = {}]
        /\ UNCHANGED <<event, size, seg, swap, pc, kid, execing, killed, err>>
    BY <1>23 DEF InDone, Space!Release
  <2>5. CASE q = n
    BY <2>1, <2>3, <2>5
  <2>6. CASE q # n
    BY <2>1, <2>3, <2>6
  <2> QED
    BY <2>5, <2>6
<1>24. CASE Quit
  BY <1>24 DEF Quit
<1>25. CASE Doze
  <2>1. mode'[q] = mode[q]
    BY <1>25 DEF Doze, sleep, Awake, Swapper
  <2>2. event'[q] = event[q]
    BY <1>25 DEF Doze, sleep, Quiet, Swapper
  <2> QED
    BY <1>25, <2>1, <2>2 DEF Doze
<1>26. CASE WakeUp
  BY <1>26 DEF WakeUp
<1>27. CASE OutError
  <2>1. n \in Proc /\ PlaceP(n) /\ Out(n)
    BY <1>27 DEF OutError, PlaceInv
  <2> DEFINE md == [mode EXCEPT ![n] = @ \cup {"LOADED"}]
  <2>2. /\ mode'[q] = md[q] \/ mode'[q] = md[q] \cup {"AWAKE"}
        /\ event'[q] = event[q] \/ event'[q] = "none"
        /\ event'[q] # "none" => mode'[q] = md[q]
    <3>1. CASE run(md, {r \in {n} : event[r] = "io"})
      BY <3>1, RunFacts
    <3>2. CASE mode' = [mode EXCEPT ![n] = @ \cup {"LOADED"}] /\ UNCHANGED event
      BY <3>2
    <3> QED
      BY <1>27, <3>1, <3>2 DEF OutError, SendKill
  <2>3. /\ spc' = "quit" /\ held' = [held EXCEPT ![n] = {}] /\ killed' = killed \cup {n}
        /\ err' = TRUE /\ UNCHANGED <<size, seg, swap, pc, kid, execing>>
    BY <1>27 DEF OutError, SendKill, Leak
  <2>5. CASE q = n
    BY <2>1, <2>2, <2>3, <2>5
  <2>6. CASE q # n
    BY <2>1, <2>2, <2>3, <2>6
  <2> QED
    BY <2>5, <2>6
<1>28. CASE InError
  <2>1. n \in Proc /\ PlaceP(n) /\ In(n)
    BY <1>28 DEF InError, PlaceInv
  <2>2. /\ mode'[q] = (mode)[q] \/ mode'[q] = (mode)[q] \cup {"AWAKE"}
        /\ event'[q] = event[q] \/ event'[q] = "none"
        /\ event'[q] # "none" => mode'[q] = (mode)[q]
    BY <1>28, RunFacts DEF InError, mfree, mwake
  <2>3. /\ seg' = [seg EXCEPT ![n] = 0] /\ spc' = "top" /\ held' = [held EXCEPT ![n] = {}]
        /\ err' = TRUE /\ UNCHANGED <<size, swap, pc, kid, execing, killed>>
    BY <1>28 DEF InError, mfree, Leak
  <2>5. CASE q = n
    BY <2>1, <2>2, <2>3, <2>5
  <2>6. CASE q # n
    BY <2>1, <2>2, <2>3, <2>6
  <2> QED
    BY <2>5, <2>6
<1>29. ASSUME NEW fourth \in BOOLEAN, clock(fourth) PROVE PlaceP(q)'
  <2>1. /\ mode'[q] = mode[q] \/ mode'[q] = mode[q] \cup {"AWAKE"}
        /\ event'[q] = event[q] \/ event'[q] = "none"
        /\ event'[q] # "none" => mode'[q] = mode[q]
    BY <1>29, RunFacts DEF clock, mwake
  <2> QED
    BY <1>29, <2>1 DEF clock
<1>30. CASE UNCHANGED vars
  BY <1>30 DEF vars
<1> QED
  BY <1>1, <1>2, <1>3, <1>4, <1>5, <1>6, <1>7, <1>8, <1>9, <1>10, <1>11, <1>12, <1>13, <1>14,
     <1>15, <1>16, <1>17, <1>18, <1>19, <1>20, <1>21, <1>22, <1>23,
     <1>24, <1>25, <1>26, <1>27, <1>28, <1>29, <1>30
     DEF Next, Call, Continue, SwapperStep, SwapError

\* A child has one parent.
LEMMA KidStep == ASSUME TInv, PlaceInv, KidInv, MoveInv, [Next]_vars PROVE KidInv'
<1> USE ConstFacts DEF TInv, KidInv, procVars, SwapGoto
<1>1. ASSUME NEW p \in Proc, SleepIo(p) PROVE KidInv'
  BY <1>1 DEF SleepIo
<1>2. ASSUME NEW p \in Proc, grow(p) PROVE KidInv'
  BY <1>2 DEF grow
<1>3. ASSUME NEW p \in Proc, exec(p) PROVE KidInv'
  BY <1>3 DEF exec
<1>4. ASSUME NEW p \in Proc, ForkInCore(p) PROVE KidInv'
  BY <1>4 DEF ForkInCore
<1>5. ASSUME NEW p \in Proc, ForkToDisk(p) PROVE KidInv'
  <2> DEFINE c == child
  <2>1. c \in Proc /\ "ALLOC" \notin mode[c]
    BY <1>5, childIs DEF ForkToDisk, FreeSlots
  <2>2. \A r \in Proc : kid[r] # c
    BY <2>1 DEF PlaceInv, PlaceP, KidP, AliveP, IsKid
  <2>3. kid' = [kid EXCEPT ![p] = c]
    BY <1>5 DEF ForkToDisk
  <2> HIDE DEF c
  <2> QED
    BY <2>2, <2>3
<1>6. ASSUME NEW p \in Proc, exit(p) PROVE KidInv'
  BY <1>6 DEF exit
<1>7. ASSUME NEW p \in Proc, GrowAgain(p) PROVE KidInv'
  BY <1>7 DEF GrowAgain
<1>8. ASSUME NEW p \in Proc, readin(p) PROVE KidInv'
  BY <1>8 DEF readin
<1>9. ASSUME NEW p \in Proc, ExecDone(p) PROVE KidInv'
  BY <1>9 DEF ExecDone
<1>10. ASSUME NEW p \in Proc, ForkLock(p) PROVE KidInv'
  BY <1>10 DEF ForkLock
<1>11. ASSUME NEW p \in Proc, ForkDone(p) PROVE KidInv'
  BY <1>11 DEF ForkDone
<1>12. ASSUME NEW p \in Proc, ForkError(p) PROVE KidInv'
  BY <1>12 DEF ForkError
<1>13. ASSUME NEW p \in Proc, Reap(p) PROVE KidInv'
  BY <1>13 DEF Reap
<1>14. ASSUME NEW p \in Proc, Wake(p) PROVE KidInv'
  BY <1>14 DEF Wake
<1>15. CASE NothingToDo
  BY <1>15 DEF NothingToDo
<1>16. CASE Top
  BY <1>16 DEF Top
<1>17. CASE SwapOut
  BY <1>17 DEF SwapOut
<1>18. CASE NoSpace
  BY <1>18 DEF NoSpace
<1>19. CASE SwapLock
  BY <1>19 DEF SwapLock
<1>20. CASE OutDone
  BY <1>20 DEF OutDone
<1>21. CASE WantCore
  BY <1>21 DEF WantCore
<1>22. CASE SwapIn
  BY <1>22 DEF SwapIn
<1>23. CASE InDone
  BY <1>23 DEF InDone
<1>24. CASE Quit
  BY <1>24 DEF Quit
<1>25. CASE Doze
  BY <1>25 DEF Doze
<1>26. CASE WakeUp
  BY <1>26 DEF WakeUp
<1>27. CASE OutError
  BY <1>27 DEF OutError
<1>28. CASE InError
  BY <1>28 DEF InError
<1>29. ASSUME NEW fourth \in BOOLEAN, clock(fourth) PROVE KidInv'
  BY <1>29 DEF clock
<1>30. CASE UNCHANGED vars
  BY <1>30 DEF vars
<1> QED
  BY <1>1, <1>2, <1>3, <1>4, <1>5, <1>6, <1>7, <1>8, <1>9, <1>10, <1>11, <1>12, <1>13, <1>14,
     <1>15, <1>16, <1>17, <1>18, <1>19, <1>20, <1>21, <1>22, <1>23,
     <1>24, <1>25, <1>26, <1>27, <1>28, <1>29, <1>30
     DEF Next, Call, Continue, SwapperStep, SwapError

\* The swapper moves a process, never itself.
LEMMA MoveStep == ASSUME TInv, PlaceInv, KidInv, MoveInv, [Next]_vars PROVE MoveInv'
<1> USE ConstFacts DEF TInv, MoveInv, swapVars, SwapGoto
<1>1. ASSUME NEW p \in Proc, SleepIo(p) PROVE MoveInv'
  BY <1>1 DEF SleepIo
<1>2. ASSUME NEW p \in Proc, grow(p) PROVE MoveInv'
  BY <1>2 DEF grow
<1>3. ASSUME NEW p \in Proc, exec(p) PROVE MoveInv'
  BY <1>3 DEF exec
<1>4. ASSUME NEW p \in Proc, ForkInCore(p) PROVE MoveInv'
  BY <1>4 DEF ForkInCore
<1>5. ASSUME NEW p \in Proc, ForkToDisk(p) PROVE MoveInv'
  BY <1>5 DEF ForkToDisk
<1>6. ASSUME NEW p \in Proc, exit(p) PROVE MoveInv'
  BY <1>6 DEF exit
<1>7. ASSUME NEW p \in Proc, GrowAgain(p) PROVE MoveInv'
  BY <1>7 DEF GrowAgain
<1>8. ASSUME NEW p \in Proc, readin(p) PROVE MoveInv'
  BY <1>8 DEF readin
<1>9. ASSUME NEW p \in Proc, ExecDone(p) PROVE MoveInv'
  BY <1>9 DEF ExecDone
<1>10. ASSUME NEW p \in Proc, ForkLock(p) PROVE MoveInv'
  BY <1>10 DEF ForkLock
<1>11. ASSUME NEW p \in Proc, ForkDone(p) PROVE MoveInv'
  BY <1>11 DEF ForkDone
<1>12. ASSUME NEW p \in Proc, ForkError(p) PROVE MoveInv'
  BY <1>12 DEF ForkError
<1>13. ASSUME NEW p \in Proc, Reap(p) PROVE MoveInv'
  BY <1>13 DEF Reap
<1>14. ASSUME NEW p \in Proc, Wake(p) PROVE MoveInv'
  BY <1>14 DEF Wake
<1>15. CASE NothingToDo
  BY <1>15 DEF NothingToDo
<1>16. CASE Top
  BY <1>16 DEF Top
<1>17. CASE SwapOut
  <2>1. findout \in Proc
    BY <1>17, findoutIs DEF SwapOut, Candidates
  <2> QED
    BY <1>17, <2>1 DEF SwapOut
<1>18. CASE NoSpace
  BY <1>18 DEF NoSpace
<1>19. CASE SwapLock
  BY <1>19 DEF SwapLock
<1>20. CASE OutDone
  BY <1>20 DEF OutDone
<1>21. CASE WantCore
  BY <1>21 DEF WantCore
<1>22. CASE SwapIn
  BY <1>22 DEF SwapIn
<1>23. CASE InDone
  BY <1>23 DEF InDone
<1>24. CASE Quit
  BY <1>24 DEF Quit
<1>25. CASE Doze
  BY <1>25 DEF Doze
<1>26. CASE WakeUp
  BY <1>26 DEF WakeUp
<1>27. CASE OutError
  BY <1>27 DEF OutError
<1>28. CASE InError
  BY <1>28 DEF InError
<1>29. ASSUME NEW fourth \in BOOLEAN, clock(fourth) PROVE MoveInv'
  BY <1>29 DEF clock
<1>30. CASE UNCHANGED vars
  BY <1>30 DEF vars
<1> QED
  BY <1>1, <1>2, <1>3, <1>4, <1>5, <1>6, <1>7, <1>8, <1>9, <1>10, <1>11, <1>12, <1>13, <1>14,
     <1>15, <1>16, <1>17, <1>18, <1>19, <1>20, <1>21, <1>22, <1>23,
     <1>24, <1>25, <1>26, <1>27, <1>28, <1>29, <1>30
     DEF Next, Call, Continue, SwapperStep, SwapError

\* Who sleeps for memory has set memwant, and mwake wakes him when it resets it.
LEMMA WantStep == ASSUME TInv, MoveInv, SleeperWantsMemory, [Next]_vars PROVE SleeperWantsMemory'
<1> USE ConstFacts DEF TInv, SleeperWantsMemory, SwapGoto, procVars, memVars
<1>1. ASSUME NEW p \in Proc, SleepIo(p) PROVE SleeperWantsMemory'
  BY <1>1, SleepFacts DEF SleepIo
<1>2. ASSUME NEW p \in Proc, grow(p) PROVE SleeperWantsMemory'
  <2>1. CASE GrowSleep(p)
    BY <2>1 DEF GrowSleep
  <2>2. CASE UNCHANGED <<mode, event, pc, memwant>>
    BY <2>2
  <2> QED
    BY <1>2, <2>1, <2>2 DEF grow
<1>3. ASSUME NEW p \in Proc, exec(p) PROVE SleeperWantsMemory'
  BY <1>3, MwakeWakes DEF exec, mrelse
<1>4. ASSUME NEW p \in Proc, ForkInCore(p) PROVE SleeperWantsMemory'
  BY <1>4 DEF ForkInCore
<1>5. ASSUME NEW p \in Proc, ForkToDisk(p) PROVE SleeperWantsMemory'
  BY <1>5 DEF ForkToDisk
<1>6. ASSUME NEW p \in Proc, exit(p) PROVE SleeperWantsMemory'
  BY <1>6, MwakeWakes DEF exit, mfree
<1>7. ASSUME NEW p \in Proc, GrowAgain(p) PROVE SleeperWantsMemory'
  <2>1. CASE GrowSleep(p)
    BY <2>1 DEF GrowSleep
  <2>2. CASE UNCHANGED <<mode, event, memwant>>
    BY <2>2
  <2> QED
    BY <1>7, <2>1, <2>2 DEF GrowAgain
<1>8. ASSUME NEW p \in Proc, readin(p) PROVE SleeperWantsMemory'
  BY <1>8 DEF readin
<1>9. ASSUME NEW p \in Proc, ExecDone(p) PROVE SleeperWantsMemory'
  BY <1>9 DEF ExecDone
<1>10. ASSUME NEW p \in Proc, ForkLock(p) PROVE SleeperWantsMemory'
  BY <1>10 DEF ForkLock
<1>11. ASSUME NEW p \in Proc, ForkDone(p) PROVE SleeperWantsMemory'
  BY <1>11, RunFacts DEF ForkDone
<1>12. ASSUME NEW p \in Proc, ForkError(p) PROVE SleeperWantsMemory'
  BY <1>12 DEF ForkError
<1>13. ASSUME NEW p \in Proc, Reap(p) PROVE SleeperWantsMemory'
  BY <1>13 DEF Reap
<1>14. ASSUME NEW p \in Proc, Wake(p) PROVE SleeperWantsMemory'
  BY <1>14, RunFacts DEF Wake
<1>15. CASE NothingToDo
  BY <1>15 DEF NothingToDo
<1>16. CASE Top
  BY <1>16 DEF Top
<1>17. CASE SwapOut
  BY <1>17 DEF SwapOut
<1>18. CASE NoSpace
  BY <1>18, KillQuiet DEF NoSpace
<1>19. CASE SwapLock
  BY <1>19 DEF SwapLock
<1>20. CASE OutDone
  BY <1>20, MwakeWakes DEF OutDone, mfree
<1>21. CASE WantCore
  BY <1>21 DEF WantCore
<1>22. CASE SwapIn
  BY <1>22 DEF SwapIn
<1>23. CASE InDone
  BY <1>23 DEF InDone
<1>24. CASE Quit
  BY <1>24 DEF Quit
<1>25. CASE Doze
  BY <1>25 DEF Doze, sleep, Quiet, Swapper
<1>26. CASE WakeUp
  BY <1>26 DEF WakeUp
<1>27. CASE OutError
  BY <1>27, KillQuiet DEF OutError
<1>28. CASE InError
  BY <1>28, MwakeWakes DEF InError, mfree
<1>29. ASSUME NEW fourth \in BOOLEAN, clock(fourth) PROVE SleeperWantsMemory'
  BY <1>29, RunFacts DEF clock
<1>30. CASE UNCHANGED vars
  BY <1>30 DEF vars
<1> QED
  BY <1>1, <1>2, <1>3, <1>4, <1>5, <1>6, <1>7, <1>8, <1>9, <1>10, <1>11, <1>12, <1>13, <1>14,
     <1>15, <1>16, <1>17, <1>18, <1>19, <1>20, <1>21, <1>22, <1>23,
     <1>24, <1>25, <1>26, <1>27, <1>28, <1>29, <1>30
     DEF Next, Call, Continue, SwapperStep, SwapError

\* The segments f gives to the processes.
Owned(f) == {s \in Proc \X (1..MaxSize) : s[2] <= f[s[1]]}

\* The segments in use are finitely many.
LEMMA OwnedFinite ==
  ASSUME NEW f
  PROVE  IsFiniteSet(Owned(f)) /\ Cardinality(Owned(f)) \in Nat
<1>1. IsFiniteSet(Proc) /\ IsFiniteSet(1..MaxSize)
  BY ConstFacts, FS_Interval DEF Proc
<1>2. IsFiniteSet(Proc \X (1..MaxSize))
  BY <1>1, FS_Product
<1>3. Owned(f) \in SUBSET (Proc \X (1..MaxSize))
  BY DEF Owned
<1> QED
  BY <1>2, <1>3, FS_Subset, FS_CardinalityType

\* p's own.
LEMMA OwnCard ==
  ASSUME NEW p \in Proc, NEW k \in 0..MaxSize
  PROVE  IsFiniteSet({p} \X (1..k)) /\ Cardinality({p} \X (1..k)) = k
<1>1. IsFiniteSet(1..k) /\ Cardinality(1..k) = k
  BY ConstFacts, FS_Interval
<1>2. IsFiniteSet({p}) /\ Cardinality({p}) = 1
  BY FS_Singleton
<1> QED
  BY <1>1, <1>2, FS_Product

\* Changing what one process has changes the total by as much.
LEMMA Regrown ==
  ASSUME NEW f \in [Proc -> 0..MaxSize], NEW p \in Proc, NEW k \in 0..MaxSize
  PROVE  Cardinality(Owned([f EXCEPT ![p] = k])) = Cardinality(Owned(f)) - f[p] + k
<1> DEFINE g == [f EXCEPT ![p] = k]
           R == {s \in Owned(f) : s[1] # p}
<1>0. f[p] \in 0..MaxSize /\ f[p] \in Nat /\ k \in Nat
  BY ConstFacts
<1>1. IsFiniteSet(R) /\ Cardinality(R) \in Nat
  <2>1. R \in SUBSET Owned(f)
    OBVIOUS
  <2> QED
    BY <2>1, OwnedFinite, FS_Subset, FS_CardinalityType
<1>2. Owned(f) = R \cup ({p} \X (1..f[p]))
  BY <1>0, ConstFacts DEF Owned
<1>3. Owned(g) = R \cup ({p} \X (1..k))
  BY <1>0, ConstFacts DEF Owned
<1>4. R \cap ({p} \X (1..f[p])) = {} /\ R \cap ({p} \X (1..k)) = {}
  OBVIOUS
<1> HIDE DEF R, g
<1>5. ASSUME NEW j \in 0..MaxSize, R \cap ({p} \X (1..j)) = {}
      PROVE  Cardinality(R \cup ({p} \X (1..j))) = Cardinality(R) + j
  <2> DEFINE O == {p} \X (1..j)
  <2>1. IsFiniteSet(O) /\ Cardinality(O) = j /\ R \cap O = {}
    BY <1>5, OwnCard
  <2>2. Cardinality({}) = 0
    BY FS_EmptySet
  <2> HIDE DEF O
  <2>3. Cardinality(R \cup O) = Cardinality(R) + Cardinality(O) - Cardinality(R \cap O)
    BY <1>1, <2>1, FS_Union
  <2>3a. Cardinality(R \cap O) = 0 /\ Cardinality(O) = j
    BY <2>1, <2>2
  <2>3b. j \in Int /\ Cardinality(R) \in Int
    BY <1>1, ConstFacts
  <2> DEFINE a == Cardinality(R \cup O)
             b == Cardinality(R)
             c == Cardinality(O)
             d == Cardinality(R \cap O)
  <2>3c. a = b + c - d /\ d = 0 /\ c = j /\ b \in Int
    BY <2>3, <2>3a, <2>3b
  <2> HIDE DEF a, b, c, d
  <2>3d. a = b + j
    BY ONLY <2>3b, <2>3c
  <2>4. Cardinality(R \cup O) = Cardinality(R) + j
    BY <2>3d DEF a, b
  <2> QED
    BY <2>4 DEF O
<1>6. Cardinality(Owned(f)) = Cardinality(R) + f[p] /\ Cardinality(Owned(g)) = Cardinality(R) + k
  BY <1>0, <1>2, <1>3, <1>4, <1>5
<1> QED
  BY <1>0, <1>1, <1>6 DEF g

\* There is never less than no free core, and none is lost or given twice.
SegInv == nsegs >= 0 /\ CoreConserved

\* Their number is a natural number.
LEMMA OwnedNat == InUse = Owned(seg) /\ Cardinality(InUse) \in Nat
  BY OwnedFinite DEF InUse, Owned

\* A step that leaves the segments alone conserves core.
LEMMA CoreKeep == ASSUME SegInv, TInv, UNCHANGED <<nsegs, seg>>, err => err' PROVE SegInv'
<1>1. InUse' = InUse
  BY DEF InUse
<1> QED
  BY <1>1 DEF SegInv, CoreConserved

\* A step that gives p k segments, and takes them from or returns them to nsegs,
\* conserves core.
LEMMA CoreMoved ==
  ASSUME SegInv, TInv, NEW p \in Proc, NEW k \in 0..MaxSize, seg' = [seg EXCEPT ![p] = k],
         nsegs' = nsegs + seg[p] - k, nsegs + seg[p] - k >= 0, err => err'
  PROVE  SegInv'
<1>1. InUse' = Owned([seg EXCEPT ![p] = k])
  BY DEF InUse, Owned
<1>2. seg \in [Proc -> 0..MaxSize] /\ nsegs \in Int /\ seg[p] \in Int /\ k \in Int
  BY ConstFacts DEF TInv
<1>3. Cardinality(InUse') = Cardinality(InUse) - seg[p] + k
  BY <1>1, <1>2, OwnedNat, Regrown
<1>4. Cardinality(InUse) \in Nat /\ Segs \in Nat
  BY OwnedNat, ConstFacts
<1>5. nsegs' + Cardinality(InUse') = nsegs + Cardinality(InUse)
  BY <1>2, <1>3, <1>4
<1> QED
  BY <1>5 DEF SegInv, CoreConserved

\* segalloc, mget, mfree and mrelse keep the total.
LEMMA SegStep == ASSUME TInv, PlaceInv, KidInv, MoveInv, SegInv, [Next]_vars PROVE SegInv'
<1> USE ConstFacts DEF TInv, MoveInv, SwapGoto, procVars, memVars, swapVars
<1>1. ASSUME NEW p \in Proc, SleepIo(p) PROVE SegInv'
  BY <1>1, CoreKeep DEF SleepIo
<1>2. ASSUME NEW p \in Proc, grow(p) PROVE SegInv'
  <2>1. CASE nsegs = 0 /\ GrowSleep(p)
    BY <1>2, <2>1, CoreKeep DEF grow, GrowSleep
  <2>2. CASE nsegs > 0 /\ segalloc(p)
    <3>1. segalloc(p) /\ nsegs > 0
      BY <2>2
    <3>2. size'[p] = size[p] + 1 /\ size'[p] \in 0..MaxSize
      BY <1>2 DEF grow
    <3>3. seg[p] < size'[p] => SegInv'
      <4> SUFFICES ASSUME seg[p] < size'[p] PROVE SegInv'
        OBVIOUS
      <4>1. /\ seg' = [seg EXCEPT ![p] = seg[p] + 1] /\ nsegs' = nsegs + seg[p] - (seg[p] + 1)
            /\ seg[p] + 1 \in 0..MaxSize /\ nsegs + seg[p] - (seg[p] + 1) >= 0
        BY <3>1, <3>2 DEF segalloc
      <4>2. err => err'
        BY <1>2 DEF grow
      <4> QED
        BY <4>1, <4>2, CoreMoved
    <3>4. seg[p] <= size[p]
      BY <1>2 DEF grow, Runs, PlaceInv, PlaceP, LoadedP, InCore
    <3> QED
      BY <3>2, <3>3, <3>4
  <2> QED
    BY <1>2, <2>1, <2>2 DEF grow
<1>3. ASSUME NEW p \in Proc, exec(p) PROVE SegInv'
  <2>1. p \in Proc /\ PlaceP(p) /\ seg[p] >= MinSize
    BY <1>3 DEF PlaceInv, exec, InUser, Runs, PlaceP, LoadedP, AliveP, InCore
  <2>2. seg' = [seg EXCEPT ![p] = MinSize] /\ nsegs' = nsegs + seg[p] - (MinSize) /\ (err => err')
    BY <1>3, <2>1 DEF exec, mrelse
  <2>3. MinSize \in 0..MaxSize /\ nsegs + seg[p] - (MinSize) >= 0
    BY <2>1 DEF SegInv
  <2> QED
    BY <2>1, <2>2, <2>3, CoreMoved
<1>4. ASSUME NEW p \in Proc, ForkInCore(p) PROVE SegInv'
  <2> DEFINE c == child
  <2>1. c \in Proc /\ seg[c] = 0
    BY <1>4, childIs DEF ForkInCore, FreeSlots, PlaceInv, PlaceP, AliveP, DeadP
  <2>2. /\ seg' = [seg EXCEPT ![c] = size[p]] /\ nsegs' = nsegs - size[p] /\ (err => err')
        /\ size[p] <= nsegs
    BY <1>4 DEF ForkInCore, mget, CanGet
  <2> HIDE DEF c
  <2>3. size[p] \in 0..MaxSize /\ nsegs + seg[c] - size[p] >= 0 /\ nsegs' = nsegs + seg[c] - size[p]
    BY <2>1, <2>2
  <2> QED
    BY <2>1, <2>2, <2>3, CoreMoved
<1>5. ASSUME NEW p \in Proc, ForkToDisk(p) PROVE SegInv'
  BY <1>5, CoreKeep DEF ForkToDisk
<1>6. ASSUME NEW p \in Proc, exit(p) PROVE SegInv'
  <2>1. p \in Proc
    OBVIOUS
  <2>2. seg' = [seg EXCEPT ![p] = 0] /\ nsegs' = nsegs + seg[p] - (0) /\ (err => err')
    BY <1>6, <2>1 DEF exit, mfree
  <2>3. 0 \in 0..MaxSize /\ nsegs + seg[p] - (0) >= 0
    BY <2>1 DEF SegInv
  <2> QED
    BY <2>1, <2>2, <2>3, CoreMoved
<1>7. ASSUME NEW p \in Proc, GrowAgain(p) PROVE SegInv'
  <2>1. CASE nsegs = 0 /\ GrowSleep(p)
    BY <1>7, <2>1, CoreKeep DEF GrowAgain, GrowSleep
  <2>2. CASE nsegs > 0 /\ ~swap[p] /\ segalloc(p)
    <3>1. segalloc(p) /\ nsegs > 0
      BY <2>2
    <3>2. size'[p] = size[p] /\ size'[p] \in 0..MaxSize
      BY <1>7 DEF GrowAgain
    <3>3. seg[p] < size'[p] => SegInv'
      <4> SUFFICES ASSUME seg[p] < size'[p] PROVE SegInv'
        OBVIOUS
      <4>1. /\ seg' = [seg EXCEPT ![p] = seg[p] + 1] /\ nsegs' = nsegs + seg[p] - (seg[p] + 1)
            /\ seg[p] + 1 \in 0..MaxSize /\ nsegs + seg[p] - (seg[p] + 1) >= 0
        BY <3>1, <3>2 DEF segalloc
      <4>2. err => err'
        BY <1>7 DEF GrowAgain
      <4> QED
        BY <4>1, <4>2, CoreMoved
    <3>4. seg[p] < size[p] \/ err
      BY <1>7, <2>2 DEF GrowAgain, Runs, PlaceInv, PlaceP, LoadedP, KillP, InCore
    <3>5. CASE ~(seg[p] < size'[p])
      <4>1. seg' = [seg EXCEPT ![p] = seg[p]]
        BY <3>1, <3>5 DEF segalloc
      <4>2. seg' = seg /\ nsegs' = nsegs - 1 /\ err /\ err' = err
        BY <1>7, <3>1, <3>2, <3>4, <3>5, <4>1 DEF segalloc, GrowAgain
      <4>3. InUse' = InUse
        BY <4>2 DEF InUse
      <4> QED
        BY <3>1, <4>2, <4>3, OwnedNat DEF SegInv, CoreConserved
    <3> QED
      BY <3>3, <3>5
  <2>3. CASE nsegs > 0 /\ swap[p]
    <3>0. nsegs # 0
      BY <2>3
    <3>1. UNCHANGED <<nsegs, seg, err>>
      BY ONLY <1>7, <2>3, <3>0 DEF GrowAgain
    <3> QED
      BY <3>1, CoreKeep
  <2>4. nsegs = 0 \/ nsegs > 0
    BY DEF SegInv
  <2>5. nsegs > 0 /\ ~swap[p] => segalloc(p)
    <3> SUFFICES ASSUME nsegs > 0, ~swap[p] PROVE segalloc(p)
      OBVIOUS
    <3>0. nsegs # 0
      OBVIOUS
    <3> QED
      BY ONLY <1>7, <3>0, ~swap[p] DEF GrowAgain
  <2>6. nsegs = 0 => GrowSleep(p)
    <3> SUFFICES ASSUME nsegs = 0 PROVE GrowSleep(p)
      OBVIOUS
    <3>0. ~(nsegs > 0)
      OBVIOUS
    <3> QED
      BY ONLY <1>7, <3>0 DEF GrowAgain
  <2> QED
    BY <2>1, <2>2, <2>3, <2>4, <2>5, <2>6
<1>8. ASSUME NEW p \in Proc, readin(p) PROVE SegInv'
  BY <1>8, CoreKeep DEF readin
<1>9. ASSUME NEW p \in Proc, ExecDone(p) PROVE SegInv'
  BY <1>9, CoreKeep DEF ExecDone
<1>10. ASSUME NEW p \in Proc, ForkLock(p) PROVE SegInv'
  BY <1>10, CoreKeep DEF ForkLock
<1>11. ASSUME NEW p \in Proc, ForkDone(p) PROVE SegInv'
  BY <1>11, CoreKeep DEF ForkDone
<1>12. ASSUME NEW p \in Proc, ForkError(p) PROVE SegInv'
  BY <1>12, CoreKeep DEF ForkError
<1>13. ASSUME NEW p \in Proc, Reap(p) PROVE SegInv'
  BY <1>13, CoreKeep DEF Reap
<1>14. ASSUME NEW p \in Proc, Wake(p) PROVE SegInv'
  BY <1>14, CoreKeep DEF Wake
<1>15. CASE NothingToDo
  BY <1>15, CoreKeep DEF NothingToDo
<1>16. CASE Top
  BY <1>16, CoreKeep DEF Top
<1>17. CASE SwapOut
  BY <1>17, CoreKeep DEF SwapOut
<1>18. CASE NoSpace
  BY <1>18, CoreKeep DEF NoSpace
<1>19. CASE SwapLock
  BY <1>19, CoreKeep DEF SwapLock
<1>20. CASE OutDone
  <2>1. n \in Proc
    BY <1>20 DEF OutDone
  <2>2. seg' = [seg EXCEPT ![n] = 0] /\ nsegs' = nsegs + seg[n] - (0) /\ (err => err')
    BY <1>20, <2>1 DEF OutDone, mfree
  <2>3. 0 \in 0..MaxSize /\ nsegs + seg[n] - (0) >= 0
    BY <2>1 DEF SegInv
  <2> QED
    BY <2>1, <2>2, <2>3, CoreMoved
<1>21. CASE WantCore
  BY <1>21, CoreKeep DEF WantCore
<1>22. CASE SwapIn
  <2>1. PICK p \in Proc : findin(p) /\ CanGet(p) /\ mget(p, size[p])
    BY <1>22 DEF SwapIn
  <2>2. seg[p] = 0
    BY <2>1 DEF findin, Outsiders, PlaceInv, PlaceP, SwappedP
  <2>3. /\ seg' = [seg EXCEPT ![p] = size[p]] /\ nsegs' = nsegs - size[p] /\ (err => err')
        /\ size[p] <= nsegs
    BY <1>22, <2>1 DEF SwapIn, mget, CanGet
  <2>4. size[p] \in 0..MaxSize /\ nsegs + seg[p] - size[p] >= 0 /\ nsegs' = nsegs + seg[p] - size[p]
    BY <2>2, <2>3
  <2> QED
    BY <2>3, <2>4, CoreMoved
<1>23. CASE InDone
  BY <1>23, CoreKeep DEF InDone
<1>24. CASE Quit
  BY <1>24, CoreKeep DEF Quit
<1>25. CASE Doze
  BY <1>25, CoreKeep DEF Doze
<1>26. CASE WakeUp
  BY <1>26, CoreKeep DEF WakeUp
<1>27. CASE OutError
  BY <1>27, CoreKeep DEF OutError
<1>28. CASE InError
  <2>1. n \in Proc
    BY <1>28 DEF InError
  <2>2. seg' = [seg EXCEPT ![n] = 0] /\ nsegs' = nsegs + seg[n] - (0) /\ (err => err')
    BY <1>28, <2>1 DEF InError, mfree
  <2>3. 0 \in 0..MaxSize /\ nsegs + seg[n] - (0) >= 0
    BY <2>1 DEF SegInv
  <2> QED
    BY <2>1, <2>2, <2>3, CoreMoved
<1>29. ASSUME NEW fourth \in BOOLEAN, clock(fourth) PROVE SegInv'
  BY <1>29, CoreKeep DEF clock
<1>30. CASE UNCHANGED vars
  BY <1>30, CoreKeep DEF vars
<1> QED
  BY <1>1, <1>2, <1>3, <1>4, <1>5, <1>6, <1>7, <1>8, <1>9, <1>10, <1>11, <1>12, <1>13, <1>14,
     <1>15, <1>16, <1>17, <1>18, <1>19, <1>20, <1>21, <1>22, <1>23,
     <1>24, <1>25, <1>26, <1>27, <1>28, <1>29, <1>30
     DEF Next, Call, Continue, SwapperStep, SwapError

(***************************************************************************)
(* The inductive invariant, and what follows from it.                      *)
(***************************************************************************)
IInv == TInv /\ PlaceInv /\ KidInv /\ MoveInv /\ SegInv /\ SleeperWantsMemory

\* Initially the swapper sleeps and one process is in core.
LEMMA InitHolds == Init => IInv
<1> SUFFICES ASSUME Init PROVE IInv
  OBVIOUS
<1> USE ConstFacts
<1>1. TInv
  <2>1. mode \in [Plist -> SUBSET Mode] /\ event \in [Plist -> Event]
    BY DEF Init, Mode, Event
  <2>2. /\ time \in [Proc -> 0..MINRUN] /\ size \in [Proc -> 0..MaxSize]
        /\ seg \in [Proc -> 0..MaxSize] /\ nsegs \in Int
    BY DEF Init
  <2>3. swap \in [Proc -> BOOLEAN] /\ pc \in [Proc -> PcLabel] /\ kid \in [Proc -> Plist]
    BY DEF Init, PcLabel
  <2>4. /\ execing \in Plist /\ memwant \in BOOLEAN /\ swapping \in BOOLEAN
        /\ spc \in SpcLabel /\ n \in Plist /\ killed \subseteq Proc /\ err \in BOOLEAN
    BY DEF Init, SpcLabel
  <2>5. free \subseteq Space!Blocks /\ held \in [Proc -> SUBSET Space!Blocks]
    BY DEF Init, Space!Init
  <2> QED
    BY <2>1, <2>2, <2>3, <2>4, <2>5 DEF TInv
<1>2. ASSUME NEW p \in Proc PROVE PlaceP(p)
  <2>1. /\ mode[p] = IF p = 1 THEN {"ALLOC", "ALIVE", "LOADED", "AWAKE"} ELSE {}
        /\ event[p] = "none"
    BY DEF Init, Swapper
  <2>2. size[p] = (IF p = 1 THEN MinSize ELSE 0) /\ seg[p] = size[p] /\ pc[p] = "user"
    BY DEF Init
  <2>3. held[p] = {} /\ killed = {} /\ spc = "asleep" /\ (\A r \in Proc : kid[r] = 0)
    BY DEF Init, Space!Init
  <2> QED
    BY <2>1, <2>2, <2>3
       DEF PlaceP, LoadedP, SwappedP, OutP, InP, KidP, AliveP, DeadP, ForkP, KillP, WaitP,
           Out, In, IsKid, Forking, Nowhere, InCore, Imaged
<1>3. KidInv /\ MoveInv
  BY DEF Init, KidInv, MoveInv
<1>4. SleeperWantsMemory
  BY DEF Init, SleeperWantsMemory, Swapper
<1>5. SegInv
  <2> DEFINE z == [p \in Proc |-> 0]
  <2>1. 1 \in Proc /\ z \in [Proc -> 0..MaxSize] /\ MinSize \in 0..MaxSize
    BY DEF Proc
  <2>2. seg = [z EXCEPT ![1] = MinSize]
    BY DEF Init
  <2>3. Owned(z) = {}
    BY DEF Owned
  <2>4. z[1] = 0 /\ Cardinality(Owned(z)) = 0
    BY <2>1, <2>3, FS_EmptySet
  <2> HIDE DEF z
  <2>5. Cardinality(Owned([z EXCEPT ![1] = MinSize])) = Cardinality(Owned(z)) - z[1] + MinSize
    BY <2>1, Regrown
  <2>6. Cardinality(InUse) = MinSize
    BY <2>2, <2>4, <2>5, OwnedNat
  <2>7. nsegs = Segs - MinSize
    BY DEF Init
  <2> QED
    BY <2>6, <2>7 DEF SegInv, CoreConserved
<1> QED
  BY <1>1, <1>2, <1>3, <1>4, <1>5 DEF IInv, PlaceInv

\* The inductive invariant holds of every behaviour of the swapper and the
\* processes (swap.c, malloc.c, sleep.c, fork.c, exec.c, time.c).
THEOREM SwapInvariant == Spec => []IInv
<1>1. IInv /\ [Next]_vars => IInv'
  <2> SUFFICES ASSUME IInv, [Next]_vars PROVE IInv'
    OBVIOUS
  <2>1. TInv /\ PlaceInv /\ KidInv /\ MoveInv /\ SegInv /\ SleeperWantsMemory
    BY DEF IInv
  <2>2. TInv' /\ KidInv' /\ MoveInv' /\ SegInv' /\ SleeperWantsMemory'
    BY <2>1, TypeStep, KidStep, MoveStep, SegStep, WantStep
  <2>3. \A q \in Proc : PlaceP(q)'
    BY <2>1, PlaceStep
  <2> QED
    BY <2>2, <2>3 DEF IInv, PlaceInv
<1> QED
  BY <1>1, InitHolds, PTL DEF Spec

\* Every variable keeps its type; nsegs stays between none and all of core.
THEOREM TypeCorrect == Spec => []TypeOK
<1>1. IInv => TypeOK
  <2> SUFFICES ASSUME IInv PROVE TypeOK
    OBVIOUS
  <2>1. nsegs \in 0..Segs
    <3>1. nsegs \in Int /\ nsegs >= 0 /\ nsegs + Cardinality(InUse) <= Segs
      BY DEF IInv, TInv, SegInv, CoreConserved
    <3>2. Cardinality(InUse) \in Nat /\ Segs \in Nat
      BY OwnedNat, ConstFacts
    <3> QED
      BY <3>1, <3>2
  <2> QED
    BY <2>1 DEF IInv, TInv, TypeOK
<1> QED
  BY <1>1, SwapInvariant, PTL

\* No segment is given to two processes, and none is lost until a swap error
\* (segalloc, segfree, mget, mfree and mrelse in malloc.c).
THEOREM CoreIsConserved == Spec => []CoreConserved
<1>1. IInv => CoreConserved
  BY DEF IInv, SegInv
<1> QED
  BY <1>1, SwapInvariant, PTL

\* A process is in core with its memory, or on disk with an image of its size,
\* or being moved (swap.c:106-140, malloc.c:200-210, fork.c).
THEOREM OnePlace == Spec => []InOnePlace
<1>1. IInv => InOnePlace
  <2> SUFFICES ASSUME IInv, NEW p \in Proc, "ALIVE" \in mode[p]
      PROVE  /\ ~({"LOADED", "SWAPPED"} \subseteq mode[p])
             /\ "LOADED" \in mode[p] =>
                  /\ held[p] = {}
                  /\ \/ seg[p] = size[p]
                     \/ seg[p] = size[p] - 1 /\ pc[p] = "grow"
                     \/ seg[p] < size[p] /\ p \in killed
             /\ "SWAPPED" \in mode[p] => seg[p] = 0 /\ Cardinality(held[p]) = size[p]
             /\ mode[p] \cap {"LOADED", "SWAPPED"} = {} => Moving(p) \/ err
    BY DEF InOnePlace
  <2>1. PlaceP(p) /\ size[p] \in Int /\ seg[p] \in Int
    BY ConstFacts DEF IInv, PlaceInv, TInv
  <2>2. "LOADED" \in mode[p] => "SWAPPED" \notin mode[p] /\ held[p] = {} /\ InCore(p)
    BY <2>1 DEF PlaceP, LoadedP
  <2>3. InCore(p) => \/ seg[p] = size[p]
                     \/ seg[p] = size[p] - 1 /\ pc[p] = "grow"
                     \/ seg[p] < size[p] /\ p \in killed
    BY <2>1 DEF InCore
  <2>4. "SWAPPED" \in mode[p] => seg[p] = 0 /\ Cardinality(held[p]) = size[p]
    BY <2>1 DEF PlaceP, SwappedP, Imaged
  <2>5. mode[p] \cap {"LOADED", "SWAPPED"} = {} => Moving(p) \/ err
    BY <2>1 DEF PlaceP, AliveP, Nowhere, Out, In, IsKid, Moving
  <2> QED
    BY <2>2, <2>3, <2>4, <2>5
<1> QED
  BY <1>1, SwapInvariant, PTL

\* Who sleeps for memory is known to want it: no mwake leaves him asleep with
\* memwant reset (malloc.c:102-107, 204-206).
THEOREM SleeperIsKnown == Spec => []SleeperWantsMemory
<1>1. IInv => SleeperWantsMemory
  BY DEF IInv
<1> QED
  BY <1>1, SwapInvariant, PTL
=============================================================================
