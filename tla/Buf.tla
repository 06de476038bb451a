-------------------------------- MODULE Buf --------------------------------
(***************************************************************************)
(* The block buffer cache of the Micronix kernel (sys/uio.c) together with *)
(* the system-call paths that use it (sys/fio.c, sys/balloc.c, sys/open.c, *)
(* sys/sys1.c) and the disk that completes requests by interrupt.          *)
(*                                                                         *)
(* The kernel is not preemptive: a process that has entered the kernel     *)
(* keeps the cpu until it calls sleep() or returns to user mode.  Between  *)
(* any two of its steps the disk interrupt may call iodone().  A step of a *)
(* process is therefore a piece of code that an interrupt cannot tell from *)
(* an atomic one: it is di()'ed, or it touches one buffer the process      *)
(* holds or examines.                                                      *)
(***************************************************************************)
EXTENDS Integers, FiniteSets

CONSTANTS
  Proc,         \* processes that use the cache
  NoProc,       \* "the cpu is idle or in user mode"
  NBUF,         \* number of buffers, nbuf in the code
  Block,        \* the (blk, dev) pairs in use, as bget compares them
  NoBlock,      \* the zeroed blk and dev of a buffer fresh from bzero()
  SuperBlock,   \* block 1 of the root device
  DevOf,        \* the device of each block
  TimeMod,      \* modulus of btime's counter, 2^16 in the code
  Shared,       \* two processes may be at one block when one reads ahead to it
  MaxErrors,    \* bound on the device errors of a behaviour
  Ops           \* the operations processes perform

AllOps == {"read", "update", "fill", "ahead", "alloc", "chain", "sync", "flush"}

ASSUME ConstAssumption ==
  /\ NoProc \notin Proc
  /\ NBUF \in Nat \ {0}
  /\ SuperBlock \in Block
  /\ NoBlock \notin Block
  /\ TimeMod \in Nat \ {0}
  /\ Shared \in BOOLEAN
  /\ MaxErrors \in Nat
  /\ Ops \subseteq AllOps

VARIABLES
  blkdev,   \* b->blk and b->dev
  flags,    \* b->flags
  time,     \* b->time
  fresh,    \* the buffers whose data is the newest contents of their block
  count,    \* btime's static counter
  ioq,      \* buffers queued at the device by its strategy routine
  saved,    \* the blocks whose newest contents are on the medium
  cpu,      \* the process inside the kernel that is not asleep
  event,    \* p->event: the buffer p sleeps on, 0 if p is awake
  pc,       \* where p is
  op,       \* the operation p performs
  want,     \* the block p's operation is about
  reg,      \* p's register variable b
  sb,       \* the buffer of the superblock while p holds it, else 0
  i, f,     \* bget's scan: next buffer to look at, oldest free one so far
  nerr,     \* auxiliary: device errors so far
  bad       \* auxiliary: the blocks whose own transfers have failed

stamps  == <<time, count>>
errVars == <<nerr, bad>>
procVars == <<cpu, pc, op, want, reg>>
vars == <<blkdev, flags, fresh, stamps, ioq, saved, errVars, procVars, event, sb, i, f>>

Blist == 1..NBUF
Flag  == {"BREAD", "BBUSY", "BSYNC", "BDELWRI", "BDONE", "BLOCK", "BWANT", "BERROR"}
Label == {"idle", "aread", "scan", "got", "bwait", "hold", "relsb", "sync", "flush", "panic"}

TypeOK ==
  /\ blkdev \in [Blist -> Block \cup {NoBlock}]
  /\ flags \in [Blist -> SUBSET Flag]
  /\ time \in [Blist -> 0 .. TimeMod - 1]
  /\ fresh \subseteq Blist
  /\ count \in 0 .. TimeMod - 1
  /\ ioq \subseteq Blist
  /\ saved \subseteq Block
  /\ cpu \in Proc \cup {NoProc}
  /\ event \in [Proc -> 0..NBUF]
  /\ pc \in [Proc -> Label]
  /\ op \in [Proc -> AllOps]
  /\ want \in [Proc -> Block]
  /\ reg \in [Proc -> 0..NBUF]
  /\ sb \in [Proc -> 0..NBUF]
  /\ i \in 1 .. NBUF + 1
  /\ f \in 0..NBUF
  /\ nerr \in 0..MaxErrors
  /\ bad \subseteq Block

(***************************************************************************)
(* After main() has called binit() and mounted the root, read-write: every *)
(* buffer is zeroed except the first, which holds the superblock locked in *)
(* core.                                                                   *)
(***************************************************************************)
Init ==
  /\ saved = Block
  /\ blkdev = [b \in Blist |-> IF b = 1 THEN SuperBlock ELSE NoBlock]
  /\ flags = [b \in Blist |-> IF b = 1 THEN {"BREAD", "BSYNC", "BDONE", "BLOCK"} ELSE {}]
  /\ time = [b \in Blist |-> 0]
  /\ fresh = {1}
  /\ count = 0
  /\ ioq = {}
  /\ cpu = NoProc
  /\ event = [p \in Proc |-> 0]
  /\ pc = [p \in Proc |-> "idle"]
  /\ op = [p \in Proc |-> "read"]
  /\ want = [p \in Proc |-> SuperBlock]
  /\ reg = [p \in Proc |-> 0]
  /\ sb = [p \in Proc |-> 0]
  /\ i = 1 /\ f = 0
  /\ nerr = 0 /\ bad = {}
-----------------------------------------------------------------------------
(* The primitives of uio.c.  Each takes the flags the caller has given the  *)
(* buffer, fl, so that a run of assignments to b->flags is one update.      *)

\* The processes sleeping on b are made to run.
wakeup(b) == [p \in Proc |-> IF event[p] = b THEN 0 ELSE event[p]]

\* Mutant of btime: the counter does not recycle.
btimeNoRecycle(b) ==
  /\ count' = count + 1
  /\ time' = [time EXCEPT ![b] = count']

\* Stamp b with the next reference time; a counter that recycles zeroes all.
btime(b) ==
  /\ count' = (count + 1) % TimeMod
  /\ time' = IF count' = 0 THEN [x \in Blist |-> 0] ELSE [time EXCEPT ![b] = count']

brelse(b, fl) ==
  /\ flags' = [flags EXCEPT ![b] = fl \ {"BBUSY", "BWANT"}]
  /\ event' = IF "BWANT" \in fl THEN wakeup(b) ELSE event
  /\ btime(b)

bdwrite(b) == brelse(b, flags[b] \cup {"BDELWRI", "BDONE"})

strat(b, fl) ==
  /\ flags' = [flags EXCEPT ![b] = (fl \cup {"BBUSY"}) \ {"BDONE", "BERROR"}]
  /\ ioq' = ioq \cup {b}

bawrite(b) == strat(b, flags[b] \ {"BSYNC", "BREAD"})

\* The transfer of a bwrite is queued; bwait and brelse follow at Bwait.
bwrite(b) == strat(b, (flags[b] \cup {"BBUSY", "BSYNC"}) \ {"BREAD"})

\* Sleep on b because somebody else has it, or because its i/o is not done;
\* r is what p's register holds when it wakes.
sleep(p, b, r) ==
  /\ flags' = [flags EXCEPT ![b] = @ \cup {"BWANT"}]
  /\ event' = [event EXCEPT ![p] = b]
  /\ cpu' = NoProc
  /\ reg' = [reg EXCEPT ![p] = r]
  /\ UNCHANGED <<pc, op, want>>

Busy(b)  == "BBUSY" \in flags[b]
Done(b)  == "BDONE" \in flags[b]
Dirty(b) == "BDELWRI" \in flags[b]
Valid(b) == Done(b) /\ "BERROR" \notin flags[b]
\* Mutant of Avail: a buffer locked in core is available.
AvailLocked(b) == "BBUSY" \notin flags[b]
Avail(b) == "BBUSY" \notin flags[b] /\ "BLOCK" \notin flags[b]

\* p goes on inside the kernel, with b in its register.
Goto(p, l, b) ==
  /\ cpu' = p
  /\ pc' = [pc EXCEPT ![p] = l]
  /\ reg' = [reg EXCEPT ![p] = b]
  /\ UNCHANGED <<op, want>>

\* Back in user mode: the cpu is free for whoever is to run next, and p's
\* registers are dead.
Return(p) ==
  /\ cpu' = NoProc
  /\ pc' = [pc EXCEPT ![p] = "idle"]
  /\ reg' = [reg EXCEPT ![p] = 0]
  /\ op' = [op EXCEPT ![p] = "read"]
  /\ want' = [want EXCEPT ![p] = SuperBlock]

Rescan == i' = 1 /\ f' = 0

\* sched() gives the cpu to p only while nobody else is inside the kernel.
At(p, l) == pc[p] = l /\ event[p] = 0 /\ cpu \in {p, NoProc}
-----------------------------------------------------------------------------
(* System calls.  A process reads a block, updates part of it or fills it   *)
(* (iread, iwrite), reads ahead, allocates or frees a block with the        *)
(* superblock in hand (balloc, bfree), syncs, or closes a block device.     *)

\* The block that p's next bget is for.
Target(p) ==
  IF op[p] \in {"alloc", "chain", "sync"} /\ sb[p] = 0 THEN SuperBlock ELSE want[p]

\* iclose() holds the inode of the device it flushes and is the last user.
Flushing(d) == \E q \in Proc : pc[q] # "idle" /\ op[q] = "flush" /\ DevOf[want[q]] = d
InUse(d)    == \E q \in Proc : pc[q] # "idle" /\ op[q] # "sync" /\ DevOf[want[q]] = d

\* rdwri() takes no lock for an ordinary file, so two processes may well be at
\* the block one of them reads ahead to.  What that does to the data is looked at
\* on its own (Shared = TRUE); elsewhere the instances leave it out.
ReadAheadAlone(p, o, k) ==
  \A q \in Proc \ {p} : pc[q] # "idle" /\ want[q] = k => o # "ahead" /\ op[q] # "ahead"

\* The first step of an operation.  A process woken in the kernel does not hold it
\* up: trap() calls next() only if resched is set, next() clears it for all who
\* were woken (sleep.c:102), and the calls that move several blocks go from one
\* to the next without rescheduling.
Call(p, o, k) ==
  /\ pc[p] = "idle"
  /\ cpu = NoProc
  /\ ~Flushing(DevOf[k])
  /\ Shared \/ ReadAheadAlone(p, o, k)
  /\ o \in {"alloc", "chain"} => k # SuperBlock /\ DevOf[k] = DevOf[SuperBlock]
  /\ o = "sync" => k = SuperBlock
  /\ o = "flush" => DevOf[k] # DevOf[SuperBlock] /\ ~InUse(DevOf[k])
  /\ cpu' = p
  /\ pc' = [pc EXCEPT ![p] =
              CASE o = "ahead" -> "aread" [] o = "flush" -> "flush" [] OTHER -> "scan"]
  /\ reg' = [reg EXCEPT ![p] = 1]
  /\ op' = [op EXCEPT ![p] = o]
  /\ want' = [want EXCEPT ![p] = k]
  /\ UNCHANGED <<blkdev, flags, fresh, stamps, ioq, saved, errVars, event, sb, i, f>>

\* aread returns at once if the block is in the cache or on its way.
AreadHit(p) ==
  /\ At(p, "aread")
  /\ \E b \in Blist : blkdev[b] = want[p]
  /\ Return(p)
  /\ UNCHANGED <<blkdev, flags, fresh, stamps, ioq, saved, errVars, event, sb, i, f>>

AreadMiss(p) ==
  /\ At(p, "aread")
  /\ \A b \in Blist : blkdev[b] # want[p]
  /\ Goto(p, "scan", 1)
  /\ UNCHANGED <<blkdev, flags, fresh, stamps, ioq, saved, errVars, event, sb, i, f>>
-----------------------------------------------------------------------------
(* bget: look through blist for the block, remembering the free buffer that *)
(* was released longest ago.                                                *)

\* The block is in buffer i, and free: block(b) locks it.
ScanHit(p) ==
  /\ At(p, "scan") /\ i \in Blist /\ blkdev[i] = Target(p)
  /\ ~Busy(i)
  /\ flags' = [flags EXCEPT ![i] = @ \cup {"BBUSY"}]
  /\ Goto(p, "got", i)
  /\ Rescan
  /\ UNCHANGED <<blkdev, fresh, stamps, ioq, saved, errVars, event, sb>>

\* The block is in buffer i, but somebody has it: sleep, then start again.
ScanBusy(p) ==
  /\ At(p, "scan") /\ i \in Blist /\ blkdev[i] = Target(p)
  /\ Busy(i)
  /\ sleep(p, i, 1)
  /\ Rescan
  /\ UNCHANGED <<blkdev, fresh, stamps, ioq, saved, errVars, sb>>

\* Mutant of ScanNext: a busy buffer may become the candidate.
ScanNextBusy(p) ==
  /\ At(p, "scan") /\ i \in Blist /\ blkdev[i] # Target(p)
  /\ f' = IF "BLOCK" \notin flags[i] /\ (f = 0 \/ time[i] < time[f]) THEN i ELSE f
  /\ i' = i + 1
  /\ Goto(p, "scan", 1)
  /\ UNCHANGED <<blkdev, flags, fresh, stamps, ioq, saved, errVars, event, sb>>

ScanNext(p) ==
  /\ At(p, "scan") /\ i \in Blist /\ blkdev[i] # Target(p)
  /\ f' = IF Avail(i) /\ (f = 0 \/ time[i] < time[f])
          THEN i ELSE f
  /\ i' = i + 1
  /\ Goto(p, "scan", 1)
  /\ UNCHANGED <<blkdev, flags, fresh, stamps, ioq, saved, errVars, event, sb>>

\* No available buffers: goto loop, without giving up the cpu.
ScanSpin(p) ==
  /\ At(p, "scan") /\ i = NBUF + 1 /\ f = 0
  /\ Rescan
  /\ Goto(p, "scan", 1)
  /\ UNCHANGED <<blkdev, flags, fresh, stamps, ioq, saved, errVars, event, sb>>

\* The chosen buffer is dirty: write it out first, then start again.
TakeDirty(p) ==
  /\ At(p, "scan") /\ i = NBUF + 1 /\ f # 0
  /\ Dirty(f)
  /\ bwrite(f)
  /\ Goto(p, "bwait", f)
  /\ Rescan
  /\ UNCHANGED <<blkdev, fresh, stamps, saved, errVars, event, sb>>

\* Mutant of TakeClean: BDELWRI is not looked at.
TakeAny(p) ==
  /\ At(p, "scan") /\ i = NBUF + 1 /\ f # 0
  /\ blkdev' = [blkdev EXCEPT ![f] = Target(p)]
  /\ fresh' = fresh \ {f}
  /\ flags' = [flags EXCEPT ![f] = (@ \cup {"BBUSY"}) \ {"BDONE"}]
  /\ Goto(p, "got", f)
  /\ Rescan
  /\ UNCHANGED <<stamps, ioq, saved, errVars, event, sb>>

\* The chosen buffer is clean: it becomes the buffer of the block.
TakeClean(p) ==
  /\ At(p, "scan") /\ i = NBUF + 1 /\ f # 0
  /\ ~Dirty(f)
  /\ blkdev' = [blkdev EXCEPT ![f] = Target(p)]
  /\ fresh' = fresh \ {f}
  /\ flags' = [flags EXCEPT ![f] = (@ \cup {"BBUSY"}) \ {"BDONE"}]
  /\ Goto(p, "got", f)
  /\ Rescan
  /\ UNCHANGED <<stamps, ioq, saved, errVars, event, sb>>
-----------------------------------------------------------------------------
(* What bget's callers do with the locked buffer: bread, aread, or nothing. *)

\* p called bread (getsb is a bread), not bget alone.
Bread(p) == op[p] \in {"read", "update", "chain", "sync"} \/ (op[p] = "alloc" /\ sb[p] = 0)

\* The contents are good, or the caller is going to overwrite them.
GotValid(p) ==
  /\ At(p, "got") /\ op[p] # "ahead"
  /\ Bread(p) => Valid(reg[p])
  /\ Goto(p, "hold", reg[p])
  /\ UNCHANGED <<blkdev, flags, fresh, stamps, ioq, saved, errVars, event, sb, i, f>>

GotRead(p) ==
  /\ At(p, "got") /\ Bread(p) /\ ~Valid(reg[p])
  /\ strat(reg[p], flags[reg[p]] \cup {"BREAD", "BSYNC"})
  /\ Goto(p, "bwait", reg[p])
  /\ UNCHANGED <<blkdev, fresh, stamps, saved, errVars, event, sb, i, f>>

GotAhead(p) ==
  /\ At(p, "got") /\ op[p] = "ahead"
  /\ strat(reg[p], (flags[reg[p]] \ {"BSYNC"}) \cup {"BREAD"})
  /\ Return(p)
  /\ UNCHANGED <<blkdev, fresh, stamps, saved, errVars, event, sb, i, f>>

BwaitSleep(p) ==
  /\ At(p, "bwait") /\ ~Done(reg[p])
  /\ sleep(p, reg[p], reg[p])
  /\ UNCHANGED <<blkdev, fresh, stamps, ioq, saved, errVars, sb, i, f>>

\* The read succeeded: bread returns the locked buffer.
BwaitRead(p) ==
  /\ At(p, "bwait") /\ Valid(reg[p]) /\ "BREAD" \in flags[reg[p]]
  /\ Goto(p, "hold", reg[p])
  /\ UNCHANGED <<blkdev, flags, fresh, stamps, ioq, saved, errVars, event, sb, i, f>>

\* Mutant of BwaitError: the buffer is not released.
BwaitErrorKeep(p) ==
  /\ At(p, "bwait") /\ Done(reg[p]) /\ ~Valid(reg[p]) /\ "BREAD" \in flags[reg[p]]
  /\ \/ op[p] \in {"read", "update"} /\ Return(p)
     \/ op[p] = "chain" /\ sb[p] # 0 /\ Goto(p, "relsb", 0)
     \/ op[p] \in {"alloc", "chain", "sync"} /\ sb[p] = 0 /\ Goto(p, "panic", 0)
  /\ UNCHANGED <<blkdev, flags, stamps, event, fresh, ioq, saved, errVars, sb, i, f>>

\* The read failed: bread releases the buffer and returns 0.  The caller
\* gives up; balloc releases the superblock first, and getsb panics.
BwaitError(p) ==
  /\ At(p, "bwait") /\ Done(reg[p]) /\ ~Valid(reg[p]) /\ "BREAD" \in flags[reg[p]]
  /\ brelse(reg[p], flags[reg[p]])
  /\ \/ op[p] \in {"read", "update"} /\ Return(p)
     \/ op[p] = "chain" /\ sb[p] # 0 /\ Goto(p, "relsb", 0)
     \/ op[p] \in {"alloc", "chain", "sync"} /\ sb[p] = 0 /\ Goto(p, "panic", 0)
  /\ UNCHANGED <<blkdev, fresh, ioq, saved, errVars, sb, i, f>>

\* Mutant of BwaitWrite: bget keeps the buffer it has written out, without
\* looking whether the block has come into the cache meanwhile.
BwaitWriteTake(p) ==
  /\ At(p, "bwait") /\ op[p] # "flush"
  /\ Done(reg[p]) /\ "BREAD" \notin flags[reg[p]]
  /\ blkdev' = [blkdev EXCEPT ![reg[p]] = Target(p)]
  /\ fresh' = fresh \ {reg[p]}
  /\ flags' = [flags EXCEPT ![reg[p]] = @ \ {"BDONE"}]
  /\ Goto(p, "got", reg[p])
  /\ UNCHANGED <<stamps, event, ioq, saved, errVars, sb, i, f>>

\* The end of the bwrite in bget: release the buffer and goto loop.
BwaitWrite(p) ==
  /\ At(p, "bwait") /\ op[p] # "flush"
  /\ Done(reg[p]) /\ "BREAD" \notin flags[reg[p]]
  /\ brelse(reg[p], flags[reg[p]])
  /\ Goto(p, "scan", 1)
  /\ UNCHANGED <<blkdev, fresh, ioq, saved, errVars, sb, i, f>>
-----------------------------------------------------------------------------
(* The callers proper.                                                      *)

HoldRead(p) ==
  /\ At(p, "hold") /\ op[p] = "read"
  /\ brelse(reg[p], flags[reg[p]])
  /\ Return(p)
  /\ UNCHANGED <<blkdev, fresh, ioq, saved, errVars, sb, i, f>>

\* The kernel changes the block in buffer b.  Every other copy is out of date;
\* this one is the newest if it was, or if it is overwritten as a whole.
Modify(b, whole) ==
  /\ fresh' = {x \in fresh : blkdev[x] # blkdev[b]} \cup
              (IF whole \/ b \in fresh THEN {b} ELSE {})
  /\ saved' = saved \ {blkdev[b]}

\* iwrite moves the user's bytes in; a block written to its end goes out at
\* once (bawrite), the others, and the blocks of a pipe, later (bdwrite).  The
\* superblock is in no pipe.
HoldWrite(p) ==
  /\ At(p, "hold") /\ op[p] \in {"update", "fill"}
  /\ Modify(reg[p], op[p] = "fill")
  /\ \/ (op[p] = "fill" => want[p] # SuperBlock) /\ bdwrite(reg[p]) /\ UNCHANGED ioq
     \/ bawrite(reg[p]) /\ UNCHANGED <<event, stamps>>
  /\ Return(p)
  /\ UNCHANGED <<blkdev, errVars, sb, i, f>>

\* balloc, bfree: the superblock stays locked while a second block is found,
\* unless there is none: the free list is empty, the block number is out of
\* range, or the superblock has room for it.
HoldSuper(p) ==
  /\ At(p, "hold") /\ op[p] \in {"alloc", "chain"} /\ sb[p] = 0
  /\ sb' = [sb EXCEPT ![p] = reg[p]]
  /\ Goto(p, "scan", 1) \/ Goto(p, "relsb", 0)
  /\ UNCHANGED <<blkdev, flags, fresh, stamps, ioq, saved, errVars, event, i, f>>

\* balloc zeroes the new block (bdwrite); bfree makes it a link of the free
\* list (bawrite, and only after a bget).
HoldBlock(p) ==
  /\ At(p, "hold") /\ op[p] \in {"alloc", "chain"} /\ sb[p] # 0
  /\ Modify(reg[p], TRUE)
  /\ \/ bdwrite(reg[p]) /\ UNCHANGED ioq
     \/ op[p] = "alloc" /\ bawrite(reg[p]) /\ UNCHANGED <<event, stamps>>
  /\ Goto(p, "relsb", 0)
  /\ UNCHANGED <<blkdev, errVars, sb, i, f>>

\* The superblock has changed: bdwrite(sb) and return.
RelSuper(p) ==
  /\ At(p, "relsb")
  /\ Modify(sb[p], FALSE)
  /\ bdwrite(sb[p])
  /\ sb' = [sb EXCEPT ![p] = 0]
  /\ Return(p)
  /\ UNCHANGED <<blkdev, ioq, errVars, i, f>>

\* bsync: date the superblock, then start the write of every dirty buffer that
\* is not busy.
HoldSync(p) ==
  /\ At(p, "hold") /\ op[p] = "sync"
  /\ Modify(reg[p], FALSE)
  /\ bdwrite(reg[p])
  /\ Goto(p, "sync", 1)
  /\ UNCHANGED <<blkdev, ioq, errVars, sb, i, f>>

\* Mutant of Advance: the loop stops one buffer early.
AdvanceShort(p) == IF reg[p] < NBUF - 1 THEN Goto(p, op[p], reg[p] + 1) ELSE Return(p)

\* b++ in the loop of bsync or bflush.
Advance(p) == IF reg[p] < NBUF THEN Goto(p, op[p], reg[p] + 1) ELSE Return(p)

Sync(p) ==
  /\ At(p, "sync")
  /\ IF Dirty(reg[p]) /\ ~Busy(reg[p])
     THEN bawrite(reg[p])
     ELSE UNCHANGED <<flags, ioq>>
  /\ Advance(p)
  /\ UNCHANGED <<blkdev, fresh, stamps, saved, errVars, event, sb, i, f>>
-----------------------------------------------------------------------------
(* bflush: write out and forget every block of a device being closed.       *)

Flushed(p) == blkdev[reg[p]] # NoBlock /\ DevOf[blkdev[reg[p]]] = DevOf[want[p]]

FlushSkip(p) ==
  /\ At(p, "flush") /\ ~Flushed(p)
  /\ Advance(p)
  /\ UNCHANGED <<blkdev, flags, fresh, stamps, ioq, saved, errVars, event, sb, i, f>>

\* Mutant of FlushBusy: busy buffers are skipped.
FlushBusySkip(p) ==
  /\ At(p, "flush") /\ Flushed(p) /\ Busy(reg[p])
  /\ Advance(p)
  /\ UNCHANGED <<blkdev, flags, event, fresh, stamps, ioq, saved, errVars, sb, i, f>>

FlushBusy(p) ==
  /\ At(p, "flush") /\ Flushed(p) /\ Busy(reg[p])
  /\ sleep(p, reg[p], 1)
  /\ UNCHANGED <<blkdev, fresh, stamps, ioq, saved, errVars, sb, i, f>>

FlushDirty(p) ==
  /\ At(p, "flush") /\ Flushed(p) /\ ~Busy(reg[p]) /\ Dirty(reg[p])
  /\ bwrite(reg[p])
  /\ Goto(p, "bwait", reg[p])
  /\ UNCHANGED <<blkdev, fresh, stamps, saved, errVars, event, sb, i, f>>

\* brelse(b); bzero(b).
ReleaseAndZero(b) ==
  /\ event' = IF "BWANT" \in flags[b] THEN wakeup(b) ELSE event
  /\ flags' = [flags EXCEPT ![b] = {}]
  /\ blkdev' = [blkdev EXCEPT ![b] = NoBlock]
  /\ count' = (count + 1) % TimeMod
  /\ time' = [x \in Blist |-> IF count' = 0 \/ x = b THEN 0 ELSE time[x]]

\* Mutant of FlushClean: dirty buffers are forgotten too.
FlushAny(p) ==
  /\ At(p, "flush") /\ Flushed(p) /\ ~Busy(reg[p])
  /\ ReleaseAndZero(reg[p])
  /\ Advance(p)
  /\ UNCHANGED <<fresh, ioq, saved, errVars, sb, i, f>>

FlushClean(p) ==
  /\ At(p, "flush") /\ Flushed(p) /\ ~Busy(reg[p]) /\ ~Dirty(reg[p])
  /\ ReleaseAndZero(reg[p])
  /\ Advance(p)
  /\ UNCHANGED <<fresh, ioq, saved, errVars, sb, i, f>>

FlushWritten(p) ==
  /\ At(p, "bwait") /\ op[p] = "flush" /\ Done(reg[p])
  /\ ReleaseAndZero(reg[p])
  /\ Advance(p)
  /\ UNCHANGED <<fresh, ioq, saved, errVars, sb, i, f>>
-----------------------------------------------------------------------------
(* The disk.  bsort() and the drivers serve the queue in an order of their  *)
(* own; the interrupt routine ends each request with iodone(b).             *)

\* Mutant of iodone: who waits for the request is not woken.
iodoneNoWakeup(b, err) ==
  LET fl == (flags[b] \cup {"BDONE"} \cup (IF err THEN {"BERROR"} ELSE {})) \ {"BDELWRI"}
  IN IF "BSYNC" \in fl
     THEN flags' = [flags EXCEPT ![b] = fl] /\ UNCHANGED <<stamps, event>>
     ELSE brelse(b, fl)

iodone(b, err) ==
  LET fl == (flags[b] \cup {"BDONE"} \cup (IF err THEN {"BERROR"} ELSE {})) \ {"BDELWRI"}
  IN IF "BSYNC" \in fl
     THEN /\ flags' = [flags EXCEPT ![b] = fl]
          /\ event' = wakeup(b)
          /\ UNCHANGED stamps
     ELSE brelse(b, fl)

Transfer(b) ==
  /\ b \in ioq
  /\ ioq' = ioq \ {b}
  /\ IF "BREAD" \in flags[b]
     THEN /\ fresh' = IF blkdev[b] \in saved THEN fresh \cup {b} ELSE fresh \ {b}
          /\ UNCHANGED saved
     ELSE /\ saved' = IF b \in fresh THEN saved \cup {blkdev[b]} ELSE saved \ {blkdev[b]}
          /\ UNCHANGED fresh
  /\ iodone(b, FALSE)
  /\ UNCHANGED <<blkdev, errVars, procVars, sb, i, f>>

TransferError(b) ==
  /\ b \in ioq /\ nerr < MaxErrors
  /\ ioq' = ioq \ {b}
  /\ nerr' = nerr + 1
  /\ bad' = bad \cup {blkdev[b]}
  /\ iodone(b, TRUE)
  /\ UNCHANGED <<blkdev, fresh, saved, procVars, sb, i, f>>
-----------------------------------------------------------------------------
Bget(p) ==
  ScanHit(p) \/ ScanBusy(p) \/ ScanNext(p) \/ ScanSpin(p) \/ TakeDirty(p) \/ TakeClean(p)

Bio(p) ==
  \/ AreadHit(p) \/ AreadMiss(p)
  \/ GotValid(p) \/ GotRead(p) \/ GotAhead(p)
  \/ BwaitSleep(p) \/ BwaitRead(p) \/ BwaitError(p) \/ BwaitWrite(p)

Flush(p) ==
  FlushSkip(p) \/ FlushBusy(p) \/ FlushDirty(p) \/ FlushClean(p) \/ FlushWritten(p)

Use(p) ==
  \/ HoldRead(p) \/ HoldWrite(p)
  \/ HoldSuper(p) \/ HoldBlock(p) \/ RelSuper(p)
  \/ HoldSync(p) \/ Sync(p)

Step(p) == Bget(p) \/ Bio(p) \/ Flush(p) \/ Use(p)

Interrupt == \E b \in Blist : Transfer(b) \/ TransferError(b)

Next ==
  \/ \E p \in Proc : Step(p)
  \/ \E p \in Proc, o \in Ops, k \in Block : Call(p, o, k)
  \/ Interrupt

Spec == Init /\ [][Next]_vars

\* A process that can run does, and the disk completes what it is given.
Fairness ==
  /\ \A p \in Proc : WF_vars(Step(p))
  /\ \A b \in Blist : WF_vars(Transfer(b))

FairSpec == Spec /\ Fairness
-----------------------------------------------------------------------------
(* Properties.                                                              *)

\* p has buffer b: bget or strat gave it BBUSY on p's behalf.
Holds(p, b) == (pc[p] \in {"got", "bwait", "hold"} /\ reg[p] = b) \/ sb[p] = b

\* Two buffers never stand for the same block (bget rescans after every
\* sleep, uio.c:33-51).
OneBufferPerBlock ==
  \A a, b \in Blist : blkdev[a] = blkdev[b] /\ blkdev[a] # NoBlock => a = b

\* BBUSY is a lock: a busy buffer has exactly one owner, a process or an
\* asynchronous request (uio.c:66-78, 182-191, 311-314).
BusyHasOneOwner ==
  \A b \in Blist :
    LET owners == {p \in Proc : Holds(p, b)}
        async  == b \in ioq /\ "BSYNC" \notin flags[b]
    IN /\ \A p, q \in owners : p = q
       /\ Busy(b) <=> (owners # {} \/ async)
       /\ ~(owners # {} /\ async)

\* A sleeping process has somebody to wake it: its buffer is busy and wanted,
\* and the release, or the completion bwait waits for, is still to come.
NoLostWakeup ==
  \A p \in Proc : event[p] # 0 =>
    /\ Busy(event[p]) /\ "BWANT" \in flags[event[p]]
    /\ pc[p] = "bwait" => event[p] \in ioq

\* The buffer bget has settled on is still free when block() is called, whose
\* result is not looked at (uio.c:48).
CandidateStaysFree == f # 0 => Avail(f)

\* What the last writer of a block wrote is never lost: a buffer that is valid
\* or being written holds it, and until it is on the medium some buffer is
\* dirty or on its way there.  This is claimed until a transfer fails: BERROR
\* outlives it until strat (uio.c:254), so that bread reads over a buffer that
\* bdwrite has made dirty since (uio.c:91).
NothingLost ==
  nerr = 0 => \A k \in Block :
    LET live == {b \in Blist : blkdev[b] = k /\ (Done(b)
                                \/ (b \in ioq /\ "BREAD" \notin flags[b]))}
    IN /\ live \subseteq fresh
       /\ k \notin saved => \E b \in live : b \in ioq \/ Dirty(b)

\* A buffer marked "write out before using" (buf.h:29) is not read into.
WriteOutBeforeUsing ==
  \A b \in ioq : ~("BREAD" \in flags[b] /\ Dirty(b))

\* The superblock of the mounted root never leaves its locked buffer
\* ("should be locked in core", uio.c:133).
SuperBlockInCore == \E b \in Blist : blkdev[b] = SuperBlock /\ "BLOCK" \in flags[b]

\* When bflush returns, no block of the device is cached and the medium holds
\* what was last written: it may be taken out of the drive.
FlushLeavesNothing ==
  [][\A p \in Proc : op[p] = "flush" /\ pc[p] # "idle" /\ pc'[p] = "idle" =>
       \A k \in Block : DevOf[k] = DevOf[want[p]] =>
          /\ \A b \in Blist : blkdev'[b] # k
          /\ k \in saved' \cup bad]_vars

\* When bsync returns, every dirty buffer that nobody held has been handed to
\* the device.
SyncStartsAll ==
  [][\A p \in Proc : pc[p] = "sync" /\ pc'[p] = "idle" =>
       \A b \in Blist : "BDELWRI" \in flags'[b] => "BBUSY" \in flags'[b]]_vars

\* Once no new system calls arrive, every one in progress returns: nobody spins
\* in bget for ever, no two processes wait for each other, no completion or
\* release is missed.  (While others keep calling, a process that waits for a
\* buffer may find it taken again each time it wakes: wakeup is a broadcast
\* and reserves nothing.)
CallsReturn ==
  <>[][\A p \in Proc : pc[p] = "idle" => pc'[p] = "idle"]_vars
    => <>[](\A p \in Proc : pc[p] = "idle")
=============================================================================
