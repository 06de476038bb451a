-------------------------------- MODULE Swap --------------------------------
(***************************************************************************)
(* Memory and swapping in the Micronix kernel: the swapping process        *)
(* (sys/swap.c), the allocation of core (sys/malloc.c), sleep and wakeup   *)
(* (sys/sleep.c), and what fork, exec and exit (sys/fork.c, sys/exec.c) and*)
(* the clock (sys/time.c) do to them.  Swap space is the allocator         *)
(* SwapSpace, which SwapMap implements.                                    *)
(*                                                                         *)
(* The kernel is not preemptive, so a process's code from one sleep to the *)
(* next is a step.  The swapper's is cut where an interrupt, which may make*)
(* a process run, can come in between and be noticed.  Core is counted, in *)
(* 4K segments, and swap space in the eight blocks a segment takes there.  *)
(***************************************************************************)
EXTENDS Integers, FiniteSets, FiniteSetsExt

CONSTANTS
  NPROC,      \* slots of plist besides the swapper's
  Segs,       \* segments of core for processes
  MinSize,    \* p->nsegs after an exec, 3 in the code
  MaxSize,    \* the largest p->nsegs, 17 in the code
  MINRUN,     \* seconds in core before a process may be swapped out
  SwapSize,   \* size of the swap area
  IoErrors    \* swap i/o may fail

Swapper == 0
Proc == 1 .. NPROC
Plist == 0 .. NPROC

ASSUME SwapAssumption ==
  /\ NPROC \in Nat \ {0}
  /\ MinSize \in Nat \ {0}
  /\ MaxSize \in Nat /\ MinSize <= MaxSize
  /\ Segs \in Nat /\ MaxSize <= Segs
  /\ MINRUN \in Nat
  /\ SwapSize \in Nat
  /\ IoErrors \in BOOLEAN

VARIABLES
  mode,      \* p->mode
  event,     \* p->event
  time,      \* p->time, counted up to MINRUN
  size,      \* p->nsegs
  seg,       \* the number of segments in p->mem
  swap,      \* p->swap is not 0
  pc,        \* where p is in the kernel
  kid,       \* procopy's child while p writes its image out, else 0
  execing,   \* the process in exec, 0 if there is none
  nsegs,     \* nsegs: free segments
  memwant,   \* someone wants memory
  swapping,  \* run status of the swapper
  spc,       \* where the swapper is
  n,         \* the swapper's register variable n
  free,      \* the swap map
  held,      \* the swap space of each image
  killed,    \* processes with a SIGKILL that a swap error sent
  err        \* auxiliary: there has been a swap error

procVars == <<mode, event, time, size, seg, swap, pc, kid, execing, killed>>
memVars  == <<nsegs, memwant>>
swapVars == <<swapping, spc, n>>
space    == <<free, held>>
vars == <<procVars, memVars, swapVars, space, err>>

Space == INSTANCE SwapSpace WITH
           Slot <- Proc, Sizes <- MinSize .. MaxSize, SwapAddr <- 1

Mode  == {"ALLOC", "ALIVE", "AWAKE", "LOADED", "SWAPPED", "LOCKED"}
Event == {"none", "io", "mfree"}
PcLabel  == {"user", "grow", "forklock", "forkio"}
SpcLabel == {"top", "outlock", "outio", "find", "inlock", "inio", "quit", "doze", "asleep"}

TypeOK ==
  /\ mode \in [Plist -> SUBSET Mode]
  /\ event \in [Plist -> Event]
  /\ time \in [Proc -> 0..MINRUN]
  /\ size \in [Proc -> 0..MaxSize]
  /\ seg \in [Proc -> 0..MaxSize]
  /\ swap \in [Proc -> BOOLEAN]
  /\ pc \in [Proc -> PcLabel]
  /\ kid \in [Proc -> Plist]
  /\ execing \in Plist
  /\ nsegs \in 0..Segs
  /\ memwant \in BOOLEAN
  /\ swapping \in BOOLEAN
  /\ spc \in SpcLabel
  /\ n \in Plist
  /\ free \subseteq Space!Blocks
  /\ held \in [Proc -> SUBSET Space!Blocks]
  /\ killed \subseteq Proc
  /\ err \in BOOLEAN

(***************************************************************************)
(* After start-up: init has done its exec, and the swapper has found       *)
(* nothing to do and sleeps.                                               *)
(***************************************************************************)
Init ==
  /\ mode = [p \in Plist |-> CASE p = Swapper -> {"ALLOC", "ALIVE", "LOADED", "LOCKED"}
                               [] p = 1       -> {"ALLOC", "ALIVE", "LOADED", "AWAKE"}
                               [] OTHER       -> {}]
  /\ event = [p \in Plist |-> IF p = Swapper THEN "mfree" ELSE "none"]
  /\ time = [p \in Proc |-> 0]
  /\ size = [p \in Proc |-> IF p = 1 THEN MinSize ELSE 0]
  /\ seg = size
  /\ swap = [p \in Proc |-> FALSE]
  /\ pc = [p \in Proc |-> "user"]
  /\ kid = [p \in Proc |-> 0]
  /\ execing = 0
  /\ nsegs = Segs - MinSize
  /\ memwant = FALSE
  /\ swapping = FALSE
  /\ spc = "asleep"
  /\ n = 0
  /\ Space!Init
  /\ killed = {}
  /\ err = FALSE
-----------------------------------------------------------------------------
(* sleep, run, wakeup and mwake.  md is mode as the caller has left it.      *)

\* Who runs after run(p) for every p of R: a process out of core cannot, and
\* the swapper, if it is not at work, is made to run too.
Woken(md, R) ==
  R \cup (IF ~swapping /\ \E p \in R : "LOADED" \notin md[p] THEN {Swapper} ELSE {})

Awake(md, W) == [p \in Plist |-> IF p \in W THEN md[p] \cup {"AWAKE"} ELSE md[p]]
Quiet(W) == [p \in Plist |-> IF p \in W THEN "none" ELSE event[p]]

run(md, R) ==
  /\ mode' = Awake(md, Woken(md, R))
  /\ event' = Quiet(Woken(md, R))

\* sleep(e), where want is the value of memwant.
sleep(p, e, want) ==
  LET W == IF want /\ "LOCKED" \notin mode[p] THEN {Swapper} ELSE {}
  IN /\ mode' = Awake([mode EXCEPT ![p] = @ \ {"AWAKE"}], W)
     /\ event' = [Quiet(W) EXCEPT ![p] = e]

\* Mutant of mwake: memwant is reset and nobody is woken.
mwakeNoWakeup(md) ==
  /\ mode' = md
  /\ memwant' = FALSE
  /\ UNCHANGED event

\* Wake up memory sleepers.
mwake(md) ==
  /\ run(md, IF memwant THEN {p \in Plist : event[p] = "mfree"} ELSE {})
  /\ memwant' = FALSE

\* p's memory goes back.
mfree(p, md) ==
  /\ nsegs' = nsegs + seg[p]
  /\ seg' = [seg EXCEPT ![p] = 0]
  /\ mwake(md)

\* Core for all of p's image, or for none.
CanGet(p) == size[p] <= nsegs

\* Mutant of mget: the segment of the u-structure is not counted.
mgetShort(p, k) ==
  /\ nsegs' = nsegs - (k - 1)
  /\ seg' = [seg EXCEPT ![p] = k]

mget(p, k) ==
  /\ nsegs' = nsegs - k
  /\ seg' = [seg EXCEPT ![p] = k]

\* salloc finds room for an image of k segments.
Room(k) == \E a \in Space!Blocks : Space!Run(a, k) \subseteq free

\* The swap address of p is forgotten: its blocks are in no map any more.
Leak(p) == held' = [held EXCEPT ![p] = {}] /\ UNCHANGED free

\* The lock of the swap buffer headers is free.
Unlocked == spc \notin {"outio", "inio"} /\ \A p \in Proc : pc[p] # "forkio"

\* The swapper does not have the cpu.
Yielded == spc \in {"outlock", "outio", "inlock", "inio", "asleep"}

\* sched() may pick p.
Runs(p) == {"ALIVE", "AWAKE", "LOADED"} \subseteq mode[p] /\ Yielded

\* p is in user mode, about to make a system call.  With a SIGKILL pending it
\* would not come that far.
InUser(p) == Runs(p) /\ pc[p] = "user" /\ execing # p /\ p \notin killed
-----------------------------------------------------------------------------
(* Processes.                                                               *)

\* p sleeps for something other than memory; Wake is the interrupt, or the
\* other process, that makes it run.
SleepIo(p) ==
  /\ Runs(p) /\ pc[p] = "user"
  /\ sleep(p, "io", memwant)
  /\ UNCHANGED <<time, size, seg, swap, pc, kid, execing, killed, memVars, swapVars, space, err>>

Wake(p) ==
  /\ event[p] = "io"
  /\ run(mode, {p})
  /\ UNCHANGED <<time, size, seg, swap, pc, kid, execing, killed, memVars, swapVars, space, err>>

\* while (nsegs == 0): want memory and sleep.
GrowSleep(p) ==
  /\ memwant' = TRUE
  /\ sleep(p, "mfree", TRUE)
  /\ pc' = [pc EXCEPT ![p] = "grow"]
  /\ UNCHANGED <<nsegs, seg>>

\* Every GROW entry of p's map gets the new segment.  If they had one already,
\* it is lost: nothing refers to it any more.
segalloc(p) ==
  /\ nsegs' = nsegs - 1
  /\ seg' = [seg EXCEPT ![p] = IF @ < size'[p] THEN @ + 1 ELSE @]

\* A fault, or a system call's valid(), grows p by a segment.
grow(p) ==
  /\ Runs(p) /\ pc[p] = "user" /\ size[p] < MaxSize
  /\ size' = [size EXCEPT ![p] = @ + 1]
  /\ swap' = [swap EXCEPT ![p] = FALSE]
  /\ \/ nsegs = 0 /\ GrowSleep(p)
     \/ nsegs > 0 /\ segalloc(p) /\ UNCHANGED <<mode, event, pc, memwant>>
  /\ UNCHANGED <<time, kid, execing, killed, swapVars, space, err>>

\* Mutant of GrowAgain: p->swap is not looked at.
GrowAgainTwice(p) ==
  /\ Runs(p) /\ pc[p] = "grow"
  /\ UNCHANGED size
  /\ \/ nsegs = 0 /\ GrowSleep(p)
     \/ /\ nsegs > 0
        /\ segalloc(p)
        /\ pc' = [pc EXCEPT ![p] = "user"]
        /\ UNCHANGED <<mode, event, memwant>>
  /\ UNCHANGED <<time, swap, kid, execing, killed, swapVars, space, err>>

\* p runs again inside grow: the grow segment came with the rest of its image
\* if it has been swapped meanwhile.
GrowAgain(p) ==
  /\ Runs(p) /\ pc[p] = "grow"
  /\ UNCHANGED size
  /\ \/ nsegs = 0 /\ GrowSleep(p)
     \/ /\ nsegs > 0
        /\ IF swap[p] THEN UNCHANGED <<nsegs, seg>> ELSE segalloc(p)
        /\ pc' = [pc EXCEPT ![p] = "user"]
        /\ UNCHANGED <<mode, event, memwant>>
  /\ UNCHANGED <<time, swap, kid, execing, killed, swapVars, space, err>>

\* All of p's memory but a small image goes back.
mrelse(p) ==
  /\ size' = [size EXCEPT ![p] = MinSize]
  /\ seg' = [seg EXCEPT ![p] = MinSize]
  /\ nsegs' = nsegs + seg[p] - MinSize
  /\ mwake(mode)

\* exec, one process at a time, of a file that can be executed.
exec(p) ==
  /\ InUser(p) /\ execing = 0
  /\ execing' = p
  /\ mrelse(p)
  /\ UNCHANGED <<time, swap, pc, kid, killed, swapVars, space, err>>

\* readin, after putargs has grown the stack: the image is locked in core.
readin(p) ==
  /\ Runs(p) /\ pc[p] = "user" /\ execing = p /\ "LOCKED" \notin mode[p]
  /\ mode' = [mode EXCEPT ![p] = @ \cup {"LOCKED"}]
  /\ UNCHANGED <<event, time, size, seg, swap, pc, kid, execing, killed, memVars, swapVars, space, err>>

\* "no core lock across exec"
ExecDone(p) ==
  /\ Runs(p) /\ pc[p] = "user" /\ execing = p /\ "LOCKED" \in mode[p]
  /\ mode' = [mode EXCEPT ![p] = @ \ {"LOCKED"}]
  /\ execing' = 0
  /\ UNCHANGED <<event, time, size, seg, swap, pc, kid, killed, memVars, swapVars, space, err>>

\* The slot fork finds for the child.
FreeSlots == {p \in Proc : "ALLOC" \notin mode[p]}
child == Min(FreeSlots)

\* fork with enough core for a second image.
ForkInCore(p) ==
  /\ InUser(p) /\ FreeSlots # {} /\ CanGet(p)
  /\ mget(child, size[p])
  /\ mode' = [mode EXCEPT ![child] = mode[p]]
  /\ size' = [size EXCEPT ![child] = size[p]]
  /\ time' = [time EXCEPT ![child] = 0]
  /\ swap' = [swap EXCEPT ![child] = swap[p]]
  /\ UNCHANGED <<event, pc, kid, execing, killed, memwant, swapVars, space, err>>

\* fork without: the parent, locked in core, writes its own image out as the
\* child's.  If there is no swap space, fork fails and nothing has changed.
ForkToDisk(p) ==
  /\ InUser(p) /\ FreeSlots # {} /\ ~CanGet(p)
  /\ Space!Alloc(child, size[p])
  /\ mode' = [mode EXCEPT ![child] = mode[p] \ {"LOADED"}, ![p] = @ \cup {"LOCKED"}]
  /\ size' = [size EXCEPT ![child] = size[p]]
  /\ time' = [time EXCEPT ![child] = 0]
  /\ swap' = [swap EXCEPT ![child] = TRUE]
  /\ kid' = [kid EXCEPT ![p] = child]
  /\ pc' = [pc EXCEPT ![p] = IF Unlocked THEN "forkio" ELSE "forklock"]
  /\ UNCHANGED <<event, seg, execing, killed, memVars, swapVars, err>>

ForkLock(p) ==
  /\ pc[p] = "forklock" /\ Unlocked /\ Yielded
  /\ pc' = [pc EXCEPT ![p] = "forkio"]
  /\ UNCHANGED <<mode, event, time, size, seg, swap, kid, execing, killed, memVars, swapVars, space, err>>

\* The child's image is on disk: the swapper is made to run for it.
ForkDone(p) ==
  /\ pc[p] = "forkio" /\ Yielded
  /\ run([mode EXCEPT ![kid[p]] = @ \cup {"SWAPPED"}, ![p] = @ \ {"LOCKED"}], {Swapper})
  /\ kid' = [kid EXCEPT ![p] = 0]
  /\ pc' = [pc EXCEPT ![p] = "user"]
  /\ UNCHANGED <<time, size, seg, swap, execing, killed, memVars, swapVars, space, err>>

\* zero(p, sizeof(struct proc)): slot p is free again.
ZeroProc(p, md) ==
  /\ mode' = [md EXCEPT ![p] = {}]
  /\ size' = [size EXCEPT ![p] = 0]
  /\ time' = [time EXCEPT ![p] = 0]
  /\ swap' = [swap EXCEPT ![p] = FALSE]
  /\ killed' = killed \ {p}

\* Writing it failed: no child, and its swap space is not given back.
ForkError(p) ==
  /\ pc[p] = "forkio" /\ Yielded /\ IoErrors
  /\ err' = TRUE
  /\ ZeroProc(kid[p], [mode EXCEPT ![p] = @ \ {"LOCKED"}])
  /\ Leak(kid[p])
  /\ kid' = [kid EXCEPT ![p] = 0]
  /\ pc' = [pc EXCEPT ![p] = "user"]
  /\ UNCHANGED <<event, seg, execing, memVars, swapVars>>

\* A process other than init exits and becomes a zombie.
exit(p) ==
  /\ p # 1 /\ Runs(p) /\ pc[p] = "user" /\ execing # p
  /\ mfree(p, [mode EXCEPT ![p] = @ \ {"ALIVE", "AWAKE"}])
  /\ UNCHANGED <<time, size, swap, pc, kid, execing, killed, swapVars, space, err>>

\* Its parent waits for it, or exits too.
Reap(p) ==
  /\ "ALLOC" \in mode[p] /\ "ALIVE" \notin mode[p] /\ Yielded
  /\ ZeroProc(p, mode)
  /\ UNCHANGED <<event, seg, pc, kid, execing, memVars, swapVars, space, err>>
-----------------------------------------------------------------------------
(* The swapper.                                                             *)

\* Processes in core that may be swapped out.
Candidates ==
  {p \in Proc : mode[p] \cap {"ALIVE", "LOADED", "LOCKED"} = {"ALIVE", "LOADED"}
                /\ time[p] >= MINRUN}

\* findout's condition replaces the process found so far by the next candidate
\* as long as that process is awake: & binds less than == in C, so the second
\* of the three alternatives (swap.c:93) is never true.
findout ==
  LET asleep == {p \in Candidates : "AWAKE" \notin mode[p]}
  IN IF asleep # {} THEN Min(asleep) ELSE Max(Candidates)

\* A process that needs to be swapped in, one of the longest on disk.
Outsiders == {p \in Proc : {"AWAKE", "SWAPPED"} \subseteq mode[p]}
findin(p) == p \in Outsiders /\ \A q \in Outsiders : time[q] <= time[p]

SwapGoto(l, p) == spc' = l /\ n' = p /\ UNCHANGED swapping

\* Nobody to swap out, or nobody to swap in: goto sleep.
NothingToDo ==
  /\ \/ spc = "top" /\ memwant /\ Candidates = {}
     \/ spc = "find" /\ Outsiders = {}
  /\ SwapGoto("quit", 0)
  /\ UNCHANGED <<procVars, memVars, space, err>>

\* Mutant of SwapOut: the process keeps LOADED.
SwapOutLoaded ==
  /\ spc = "top" /\ memwant /\ Candidates # {}
  /\ Space!Alloc(findout, size[findout])
  /\ swap' = [swap EXCEPT ![findout] = TRUE]
  /\ SwapGoto(IF Unlocked THEN "outio" ELSE "outlock", findout)
  /\ UNCHANGED <<mode, event, time, size, seg, pc, kid, execing, killed, memVars, err>>

\* swapout begins: the process is not in core from now on.
SwapOut ==
  /\ spc = "top" /\ memwant /\ Candidates # {}
  /\ Space!Alloc(findout, size[findout])
  /\ mode' = [mode EXCEPT ![findout] = @ \ {"LOADED"}]
  /\ swap' = [swap EXCEPT ![findout] = TRUE]
  /\ SwapGoto(IF Unlocked THEN "outio" ELSE "outlock", findout)
  /\ UNCHANGED <<event, time, size, seg, pc, kid, execing, killed, memVars, err>>

\* send(p, SIGKILL), which makes p run if its sleep may be interrupted.
SendKill(p, md) ==
  /\ killed' = killed \cup {p}
  /\ \/ run(md, {q \in {p} : event[q] = "io"})
     \/ mode' = md /\ UNCHANGED event

\* Out of swap space.
NoSpace ==
  /\ spc = "top" /\ memwant /\ Candidates # {} /\ ~Room(size[findout])
  /\ swap' = [swap EXCEPT ![findout] = FALSE]
  /\ SendKill(findout, mode)
  /\ err' = TRUE
  /\ SwapGoto("quit", 0)
  /\ UNCHANGED <<time, size, seg, pc, kid, execing, memVars, space>>

SwapLock ==
  /\ spc \in {"outlock", "inlock"} /\ Unlocked
  /\ SwapGoto(IF spc = "outlock" THEN "outio" ELSE "inio", n)
  /\ UNCHANGED <<procVars, memVars, space, err>>

\* The image is on disk; mfree gives its core to those who wait for it.
OutDone ==
  /\ spc = "outio"
  /\ mfree(n, [mode EXCEPT ![n] = @ \cup {"SWAPPED"}])
  /\ time' = [time EXCEPT ![n] = 0]
  /\ SwapGoto("find", 0)
  /\ UNCHANGED <<size, swap, pc, kid, execing, killed, space, err>>

\* A swap error on the way out: the process stays in core and is killed.
OutError ==
  /\ spc = "outio" /\ IoErrors
  /\ err' = TRUE
  /\ SendKill(n, [mode EXCEPT ![n] = @ \cup {"LOADED"}])
  /\ Leak(n)
  /\ time' = [time EXCEPT ![n] = 0]
  /\ SwapGoto("quit", 0)
  /\ UNCHANGED <<size, seg, swap, pc, kid, execing, memVars>>

\* No memory is wanted: look for a process to swap in.
Top ==
  /\ spc = "top" /\ ~memwant
  /\ SwapGoto("find", 0)
  /\ UNCHANGED <<procVars, memVars, space, err>>

\* There is no core for it.
WantCore ==
  /\ spc = "find"
  /\ \E p \in Proc : findin(p) /\ ~CanGet(p)
  /\ memwant' = TRUE
  /\ SwapGoto("top", 0)
  /\ UNCHANGED <<procVars, nsegs, space, err>>

SwapIn ==
  /\ spc = "find"
  /\ \E p \in Proc :
       /\ findin(p) /\ CanGet(p)
       /\ mget(p, size[p])
       /\ mode' = [mode EXCEPT ![p] = @ \ {"SWAPPED"}]
       /\ SwapGoto(IF Unlocked THEN "inio" ELSE "inlock", p)
  /\ UNCHANGED <<event, time, size, swap, pc, kid, execing, killed, memwant, space, err>>

\* Mutant of InDone: the swap space is not given back.
InDoneKeep ==
  /\ spc = "inio"
  /\ mode' = [mode EXCEPT ![n] = @ \cup {"LOADED"}]
  /\ time' = [time EXCEPT ![n] = 0]
  /\ SwapGoto("top", 0)
  /\ UNCHANGED <<event, size, seg, swap, pc, kid, execing, killed, memVars, space, err>>

\* The image is in core; sfree gives its swap space back.
InDone ==
  /\ spc = "inio"
  /\ mode' = [mode EXCEPT ![n] = @ \cup {"LOADED"}]
  /\ time' = [time EXCEPT ![n] = 0]
  /\ Space!Release(n)
  /\ SwapGoto("top", 0)
  /\ UNCHANGED <<event, size, seg, swap, pc, kid, execing, killed, memVars, err>>

\* A swap error on the way in: the process hangs, neither in core nor on disk.
InError ==
  /\ spc = "inio" /\ IoErrors
  /\ err' = TRUE
  /\ mfree(n, mode)
  /\ Leak(n)
  /\ time' = [time EXCEPT ![n] = 0]
  /\ SwapGoto("top", 0)
  /\ UNCHANGED <<size, swap, pc, kid, execing, killed>>

\* swapping = 0; then sleep(&mfree), which an interrupt may separate.
Quit ==
  /\ spc = "quit"
  /\ spc' = "doze" /\ swapping' = FALSE
  /\ UNCHANGED <<procVars, memVars, n, space, err>>

Doze ==
  /\ spc = "doze"
  /\ sleep(Swapper, "mfree", memwant)
  /\ SwapGoto("asleep", 0)
  /\ UNCHANGED <<time, size, seg, swap, pc, kid, execing, killed, memVars, space, err>>

WakeUp ==
  /\ spc = "asleep" /\ "AWAKE" \in mode[Swapper]
  /\ spc' = "top" /\ swapping' = TRUE
  /\ UNCHANGED <<procVars, memVars, n, space, err>>

SwapperStep ==
  \/ NothingToDo \/ Top \/ SwapOut \/ NoSpace \/ SwapLock \/ OutDone
  \/ WantCore \/ SwapIn \/ InDone \/ Quit \/ Doze \/ WakeUp

SwapError == OutError \/ InError
-----------------------------------------------------------------------------
\* Mutant of clock: the swapper is not run.
clockNoRetry(fourth) ==
  /\ time' = [p \in Proc |-> IF "ALIVE" \in mode[p] /\ time[p] < MINRUN
                             THEN time[p] + 1 ELSE time[p]]
  /\ UNCHANGED <<mode, event, size, seg, swap, pc, kid, execing, killed, memVars, swapVars, space, err>>

\* Once a second processes grow older; every fourth second the swapper is run
\* if memory is wanted and it is not at work.
clock(fourth) ==
  /\ time' = [p \in Proc |-> IF "ALIVE" \in mode[p] /\ time[p] < MINRUN
                             THEN time[p] + 1 ELSE time[p]]
  /\ run(mode, IF fourth /\ memwant /\ ~swapping THEN {Swapper} ELSE {})
  /\ UNCHANGED <<size, seg, swap, pc, kid, execing, killed, memVars, swapVars, space, err>>

\* A process in the kernel goes on.
Continue(p) ==
  GrowAgain(p) \/ readin(p) \/ ExecDone(p) \/ ForkLock(p) \/ ForkDone(p)

Call(p) ==
  \/ SleepIo(p) \/ grow(p) \/ exec(p)
  \/ ForkInCore(p) \/ ForkToDisk(p) \/ exit(p)

Next ==
  \/ \E p \in Proc : Call(p) \/ Continue(p) \/ ForkError(p) \/ Reap(p) \/ Wake(p)
  \/ SwapperStep \/ SwapError
  \/ \E fourth \in BOOLEAN : clock(fourth)

Spec == Init /\ [][Next]_vars

\* The swapper and a process woken in the kernel run before any process in user
\* mode; the clock ticks.
Fairness ==
  /\ WF_vars(SwapperStep)
  /\ \A p \in Proc : WF_vars(Continue(p))
  /\ WF_vars(clock(TRUE))

FairSpec == Spec /\ Fairness
-----------------------------------------------------------------------------
(* Properties.                                                              *)

\* The segments in the maps of the processes.
InUse == {s \in Proc \X (1..MaxSize) : s[2] <= seg[s[1]]}

\* No segment is given to two processes, and until there has been a swap error
\* none is lost (segalloc, segfree, mget, mfree and mrelse in malloc.c).
CoreConserved ==
  /\ nsegs + Cardinality(InUse) <= Segs
  /\ err \/ nsegs + Cardinality(InUse) = Segs

\* The process is being moved by the swapper, or is the child whose image its
\* parent is writing.
Moving(p) ==
  \/ spc \in {"outlock", "outio", "inlock", "inio"} /\ n = p
  \/ \E q \in Proc : kid[q] = p

\* A process is in one place.  In core it has all the memory it counts, except
\* the segment it waits for in grow, or what it has missed since a swap error
\* killed it; on disk it has no core and an image of its size.  Otherwise
\* somebody is moving it, or a swap error has hung it (swap.c:106-140,
\* malloc.c:200-210).
InOnePlace ==
  \A p \in Proc : "ALIVE" \in mode[p] =>
    /\ ~({"LOADED", "SWAPPED"} \subseteq mode[p])
    /\ "LOADED" \in mode[p] =>
         /\ held[p] = {}
         /\ \/ seg[p] = size[p]
            \/ seg[p] = size[p] - 1 /\ pc[p] = "grow"
            \/ seg[p] < size[p] /\ p \in killed
    /\ "SWAPPED" \in mode[p] => seg[p] = 0 /\ Cardinality(held[p]) = size[p]
    /\ mode[p] \cap {"LOADED", "SWAPPED"} = {} => Moving(p) \/ err

\* Who sleeps for memory is known to want it: the next mwake or the swapper
\* finds memwant set (malloc.c:102-107, 204-206).
SleeperWantsMemory == \A p \in Proc : event[p] = "mfree" => memwant

\* A process that was set running while it is on disk has a swapper that will
\* see it: at work, made to run, or run by the clock for memwant ("Set the
\* process running", sleep.c:50).
SwapperWillSee ==
  Outsiders # {} /\ spc = "asleep" => "AWAKE" \in mode[Swapper] \/ memwant

\* A process that sleeps for memory is made to run again, as long as swapping
\* works: a process with no other victim is swapped out itself, and the clock
\* starts the swapper again when it has found no victim (time.c:49-51).
MemorySleeperWakes ==
  \A p \in Proc : event[p] = "mfree" ~> event[p] # "mfree" \/ err
=============================================================================
