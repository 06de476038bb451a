--------------------------- MODULE BufDataProofs ---------------------------
(***************************************************************************)
(* What the buffer cache does with the data, on top of the lock invariant  *)
(* of BufProofs: the superblock stays in core, bsync starts every write it *)
(* can, bflush leaves nothing of its device behind, and as long as no      *)
(* transfer fails nothing that was written is lost.                        *)
(***************************************************************************)
EXTENDS BufProofs

InKernel(p) == pc[p] # "idle"

\* Buffer b holds a block of k's device.
OnDev(b, k) == blkdev[b] # NoBlock /\ DevOf[blkdev[b]] = DevOf[k]

\* What the call p is in is about.  Nobody else is at a device being flushed.
WantP(p) == InKernel(p) =>
  /\ op[p] = "sync" => want[p] = SuperBlock
  /\ op[p] = "flush" => /\ pc[p] \in {"flush", "bwait"}
                        /\ DevOf[want[p]] # DevOf[SuperBlock]
                        /\ \A q \in Proc \ {p} : InKernel(q) => DevOf[want[q]] # DevOf[want[p]]

\* The loop of bflush has left nothing behind, and waits for a write only.
FlushP(p) == InKernel(p) /\ op[p] = "flush" =>
  /\ \A b \in Blist : b < reg[p] => ~OnDev(b, want[p])
  /\ pc[p] = "bwait" => OnDev(reg[p], want[p]) /\ "BREAD" \notin flags[reg[p]]

\* The loop of bsync is not interrupted by other processes, and the buffers
\* it has passed are clean or busy.
SyncP(p) == pc[p] = "sync" =>
  /\ cpu = p
  /\ \A b \in Blist : b < reg[p] /\ Dirty(b) => Busy(b)

SuperInv == blkdev[1] = SuperBlock /\ "BLOCK" \in flags[1]

PlaceInv == SuperInv /\ \A p \in Proc : WantP(p) /\ FlushP(p) /\ SyncP(p)

\* A write of b is queued.
Writing(b) == b \in ioq /\ "BREAD" \notin flags[b]

\* What is valid or going out is the newest there is; a buffer to be written
\* out later is valid, or goes out now.
BufP(b) ==
  /\ Done(b) \/ Writing(b) => b \in fresh
  /\ Dirty(b) => Done(b) \/ Writing(b)
  /\ "BERROR" \notin flags[b]

\* What is not on the medium is in a buffer that is going there.
Kept == \A k \in Block \ saved : \E b \in Blist :
          blkdev[b] = k /\ (Writing(b) \/ (Done(b) /\ Dirty(b)))

\* p's operation needs the contents of the buffer in its register.
Reader(p) == op[p] \in {"read", "update", "sync"} \/ (op[p] \in {"alloc", "chain"} /\ sb[p] = 0)

\* What p has locked is valid, and what it has waited for is not dirty.
DataP(p) ==
  /\ pc[p] = "hold" /\ Reader(p) => Done(reg[p])
  /\ sb[p] # 0 => Done(sb[p])
  /\ pc[p] = "bwait" /\ Done(reg[p]) => ~Dirty(reg[p])

\* Once aread has missed, nobody else brings the block in.
AheadP(p) == InKernel(p) /\ op[p] = "ahead" =>
  /\ \A q \in Proc \ {p} : InKernel(q) => want[q] # want[p]
  /\ pc[p] \in {"scan", "bwait"} => \A b \in Blist : blkdev[b] # want[p]
  /\ pc[p] = "got" => ~Dirty(reg[p])

Data ==
  /\ \A b \in Blist : BufP(b)
  /\ Kept
  /\ \A p \in Proc : DataP(p) /\ AheadP(p)

DataInv == nerr = 0 => Data
-----------------------------------------------------------------------------
(* What a step does to a buffer.  All of the forty actions but ten keep     *)
(* blocks, data and the flags that speak of them.                           *)

DataFlags == {"BREAD", "BDELWRI", "BDONE", "BERROR", "BLOCK"}

Alike(b) == \A g \in DataFlags : g \in flags'[b] <=> g \in flags[b]

Keeps == UNCHANGED <<blkdev, fresh, ioq, saved>> /\ \A b \in Blist : Alike(b)

\* Only b's flags and block may change.
Only(b) ==
  /\ b \in Blist
  /\ \A c \in Blist \ {b} : flags'[c] = flags[c] /\ blkdev'[c] = blkdev[c]

\* The write of dirty b begins, or a read into b.
Start(b) ==
  /\ Only(b) /\ b \notin ioq /\ ioq' = ioq \cup {b}
  /\ UNCHANGED <<blkdev, fresh, saved>>
  /\ "BDONE" \notin flags'[b] /\ "BERROR" \notin flags'[b] /\ "BBUSY" \in flags'[b]
  /\ "BDELWRI" \in flags'[b] <=> "BDELWRI" \in flags[b]
  /\ "BLOCK" \in flags'[b] <=> "BLOCK" \in flags[b]

WriteOut(b) == Start(b) /\ Dirty(b) /\ "BREAD" \notin flags'[b]
ReadIn(b)   == Start(b) /\ "BREAD" \in flags'[b]

\* b no longer stands for its block, but for k.
Renamed(b, k) ==
  /\ Only(b) /\ b \notin ioq /\ blkdev'[b] = k
  /\ UNCHANGED <<ioq, saved>> /\ fresh' \in {fresh, fresh \ {b}}
  /\ "BDONE" \notin flags'[b] /\ "BDELWRI" \notin flags'[b]
  /\ "BERROR" \in flags'[b] => "BERROR" \in flags[b]

\* b is changed and goes out now or later.
Stored(b, whole) ==
  /\ Only(b) /\ b \notin ioq /\ UNCHANGED blkdev
  /\ Modify(b, whole)
  /\ "BERROR" \in flags'[b] => "BERROR" \in flags[b]
  /\ "BLOCK" \in flags'[b] <=> "BLOCK" \in flags[b]
  /\ \/ ioq' = ioq /\ {"BDONE", "BDELWRI"} \subseteq flags'[b]
     \/ ioq' = ioq \cup {b} /\ "BREAD" \notin flags'[b] /\ "BDONE" \notin flags'[b]

\* A free buffer is not queued; neither is one p holds, unless in bwait.
LEMMA FreeNotQueued ==
  ASSUME IInv
  PROVE  /\ \A b \in Blist : ~Busy(b) => b \notin ioq
         /\ \A b \in ioq : b \in Blist /\ Busy(b) /\ ~Done(b)
         /\ \A p \in Proc : sb[p] \notin ioq
  BY DEF IInv, TypeOK, LockInv, Lock, Queued, Busy, Done

\* The same for what a process holds.
LEMMA HeldNotQueued ==
  ASSUME IInv, NEW p \in Proc, pc[p] \in {"got", "hold"} \/ (pc[p] = "bwait" /\ Done(reg[p]))
  PROVE  reg[p] \in Blist /\ reg[p] \notin ioq /\ Busy(reg[p]) /\ blkdev[reg[p]] # NoBlock
<1> USE DEF IInv
<1>1. pc[p] \in Holding
  BY DEF Holding
<1>2. reg[p] \in Blist /\ Regs[p] = reg[p] /\ Regs[p] # 0 /\ (p \in Waiting <=> pc[p] = "bwait")
  BY <1>1, IsHolding
<1>3. reg[p] \notin ioq
  BY <1>2, NotQueued
<1>4. Busy(reg[p])
  BY <1>2 DEF LockInv, Lock, Held, Busy
<1> QED
  BY <1>1, <1>2, <1>3, <1>4, HeldNamed

\* What keeps the data.
Quiet(p) ==
  \/ ScanHit(p) \/ ScanBusy(p) \/ ScanNext(p) \/ ScanSpin(p)
  \/ AreadHit(p) \/ AreadMiss(p) \/ GotValid(p)
  \/ BwaitSleep(p) \/ BwaitRead(p) \/ BwaitError(p) \/ BwaitWrite(p)
  \/ HoldRead(p) \/ HoldSuper(p) \/ FlushSkip(p) \/ FlushBusy(p)
  \/ (Sync(p) /\ ~(Dirty(reg[p]) /\ ~Busy(reg[p])))

\* brelse keeps the data of the buffer it releases.
LEMMA BrelseKeeps ==
  ASSUME TypeOK, NEW b, brelse(b, flags[b]), UNCHANGED <<blkdev, fresh, ioq, saved>>
  PROVE  Keeps
<1>1. flags' = [flags EXCEPT ![b] = flags[b] \ {"BBUSY", "BWANT"}]
  BY DEF brelse
<1> QED
  BY <1>1 DEF TypeOK, Keeps, Alike, DataFlags

\* So does going to sleep on it.
LEMMA SleepKeeps ==
  ASSUME TypeOK, NEW p, NEW b, NEW r, sleep(p, b, r), UNCHANGED <<blkdev, fresh, ioq, saved>>
  PROVE  Keeps
<1>1. flags' = [flags EXCEPT ![b] = @ \cup {"BWANT"}]
  BY DEF sleep
<1> QED
  BY <1>1 DEF TypeOK, Keeps, Alike, DataFlags

\* The quiet actions keep the data.
LEMMA QuietKeeps == ASSUME IInv, NEW p \in Proc, Quiet(p) PROVE Keeps
<1> USE DEF IInv
<1>1. CASE ScanHit(p)
  <2>1. flags' = [flags EXCEPT ![i] = @ \cup {"BBUSY"}] /\ UNCHANGED <<blkdev, fresh, ioq, saved>>
    BY <1>1 DEF ScanHit
  <2> QED
    BY <2>1 DEF TypeOK, Keeps, Alike, DataFlags
<1>2. CASE ScanBusy(p)
  BY <1>2, SleepKeeps DEF ScanBusy
<1>3. CASE BwaitSleep(p)
  BY <1>3, SleepKeeps DEF BwaitSleep
<1>4. CASE FlushBusy(p)
  BY <1>4, SleepKeeps DEF FlushBusy
<1>5. CASE BwaitError(p)
  BY <1>5, BrelseKeeps DEF BwaitError
<1>6. CASE BwaitWrite(p)
  BY <1>6, BrelseKeeps DEF BwaitWrite
<1>7. CASE HoldRead(p)
  BY <1>7, BrelseKeeps DEF HoldRead
<1>8. ASSUME UNCHANGED <<blkdev, flags, fresh, ioq, saved>> PROVE Keeps
  BY <1>8 DEF Keeps, Alike
<1>9. CASE ScanNext(p) \/ ScanSpin(p) \/ AreadHit(p) \/ AreadMiss(p) \/ GotValid(p) \/ BwaitRead(p)
           \/ HoldSuper(p) \/ FlushSkip(p)
  BY <1>8, <1>9 DEF ScanNext, ScanSpin, AreadHit, AreadMiss, GotValid, BwaitRead, HoldSuper, FlushSkip
<1>10. CASE Sync(p) /\ ~(Dirty(reg[p]) /\ ~Busy(reg[p]))
  BY <1>8, <1>10 DEF Sync
<1> QED
  BY <1>1, <1>2, <1>3, <1>4, <1>5, <1>6, <1>7, <1>9, <1>10 DEF Quiet

\* strat starts a transfer.
LEMMA StratStarts ==
  ASSUME TypeOK, NEW b \in Blist, b \notin ioq, NEW fl, strat(b, fl),
         "BDELWRI" \in fl <=> "BDELWRI" \in flags[b], "BLOCK" \in fl <=> "BLOCK" \in flags[b],
         UNCHANGED <<blkdev, fresh, saved>>
  PROVE  Start(b) /\ ("BREAD" \in flags'[b] <=> "BREAD" \in fl)
<1>1. flags' = [flags EXCEPT ![b] = (fl \cup {"BBUSY"}) \ {"BDONE", "BERROR"}] /\ ioq' = ioq \cup {b}
  BY DEF strat
<1> QED
  BY <1>1 DEF TypeOK, Start, Only

\* bget, bflush and bsync write out dirty free buffers.
LEMMA TakeDirtyWrites == ASSUME IInv, NEW p \in Proc, TakeDirty(p) PROVE WriteOut(f) /\ ~Busy(f)
<1> USE DEF IInv
<1>1. f \in Blist /\ ~Busy(f) /\ Dirty(f) /\ bwrite(f) /\ UNCHANGED <<blkdev, fresh, saved>>
  BY DEF TakeDirty, ScanInv, CandidateStaysFree, Avail, TypeOK, Blist, Busy
<1> DEFINE fl == (flags[f] \cup {"BBUSY", "BSYNC"}) \ {"BREAD"}
<1>2. strat(f, fl) /\ "BREAD" \notin fl
      /\ ("BDELWRI" \in fl <=> "BDELWRI" \in flags[f]) /\ ("BLOCK" \in fl <=> "BLOCK" \in flags[f])
  BY <1>1 DEF bwrite
<1> HIDE DEF fl
<1>3. f \notin ioq
  BY <1>1, FreeNotQueued
<1> QED
  BY <1>1, <1>2, <1>3, StratStarts DEF WriteOut

\* So does bflush.
LEMMA FlushDirtyWrites ==
  ASSUME IInv, NEW p \in Proc, FlushDirty(p) PROVE WriteOut(reg[p]) /\ ~Busy(reg[p])
<1> USE DEF IInv
<1>1. reg[p] \in Blist /\ ~Busy(reg[p]) /\ Dirty(reg[p]) /\ bwrite(reg[p])
      /\ UNCHANGED <<blkdev, fresh, saved>>
  BY DEF FlushDirty, At, CpuInv, CpuP, TypeOK, Blist
<1> DEFINE fl == (flags[reg[p]] \cup {"BBUSY", "BSYNC"}) \ {"BREAD"}
<1>2. strat(reg[p], fl) /\ "BREAD" \notin fl
      /\ ("BDELWRI" \in fl <=> "BDELWRI" \in flags[reg[p]])
      /\ ("BLOCK" \in fl <=> "BLOCK" \in flags[reg[p]])
  BY <1>1 DEF bwrite
<1> HIDE DEF fl
<1>3. reg[p] \notin ioq
  BY <1>1, FreeNotQueued
<1> QED
  BY <1>1, <1>2, <1>3, StratStarts DEF WriteOut

\* So does bsync.
LEMMA SyncWrites ==
  ASSUME IInv, NEW p \in Proc, Sync(p), Dirty(reg[p]), ~Busy(reg[p]) PROVE WriteOut(reg[p])
<1> USE DEF IInv
<1>1. reg[p] \in Blist /\ bawrite(reg[p]) /\ UNCHANGED <<blkdev, fresh, saved>>
  BY DEF Sync, At, CpuInv, CpuP, TypeOK, Blist
<1> DEFINE fl == flags[reg[p]] \ {"BSYNC", "BREAD"}
<1>2. strat(reg[p], fl) /\ "BREAD" \notin fl
      /\ ("BDELWRI" \in fl <=> "BDELWRI" \in flags[reg[p]])
      /\ ("BLOCK" \in fl <=> "BLOCK" \in flags[reg[p]])
  BY <1>1 DEF bawrite
<1> HIDE DEF fl
<1>3. reg[p] \notin ioq
  BY <1>1, FreeNotQueued
<1> QED
  BY <1>1, <1>2, <1>3, StratStarts DEF WriteOut

\* bread and aread read into the buffer they hold.
LEMMA GotReads ==
  ASSUME IInv, NEW p \in Proc, GotRead(p) \/ GotAhead(p) PROVE ReadIn(reg[p])
<1> USE DEF IInv
<1>1. reg[p] \in Blist /\ reg[p] \notin ioq
  BY HeldNotQueued DEF GotRead, GotAhead, At
<1>2. UNCHANGED <<blkdev, fresh, saved>>
  BY DEF GotRead, GotAhead
<1>3. CASE GotRead(p)
  <2> DEFINE fl == flags[reg[p]] \cup {"BREAD", "BSYNC"}
  <2>1. strat(reg[p], fl) /\ "BREAD" \in fl
        /\ ("BDELWRI" \in fl <=> "BDELWRI" \in flags[reg[p]])
        /\ ("BLOCK" \in fl <=> "BLOCK" \in flags[reg[p]])
    BY <1>3 DEF GotRead
  <2> HIDE DEF fl
  <2> QED
    BY <1>1, <1>2, <2>1, StratStarts DEF ReadIn
<1>4. CASE GotAhead(p)
  <2> DEFINE fl == (flags[reg[p]] \ {"BSYNC"}) \cup {"BREAD"}
  <2>1. strat(reg[p], fl) /\ "BREAD" \in fl
        /\ ("BDELWRI" \in fl <=> "BDELWRI" \in flags[reg[p]])
        /\ ("BLOCK" \in fl <=> "BLOCK" \in flags[reg[p]])
    BY <1>4 DEF GotAhead
  <2> HIDE DEF fl
  <2> QED
    BY <1>1, <1>2, <2>1, StratStarts DEF ReadIn
<1> QED
  BY <1>3, <1>4

\* bget renames a clean free buffer, to a block that is nowhere.
LEMMA TakeCleanRenames ==
  ASSUME IInv, NEW p \in Proc, TakeClean(p)
  PROVE  /\ Renamed(f, Target(p)) /\ Avail(f) /\ ~Dirty(f)
         /\ \A b \in Blist : blkdev[b] # Target(p)
<1> USE DEF IInv
<1>1. f \in Blist /\ Avail(f) /\ ~Busy(f)
  BY DEF TakeClean, ScanInv, CandidateStaysFree, Avail, TypeOK, Blist, Busy
<1>2. f \notin ioq
  BY <1>1, FreeNotQueued
<1>3. i = NBUF + 1 /\ cpu = p
  BY ScanAlone, ConstAssumption DEF TakeClean, At
<1>4. \A b \in Blist : blkdev[b] # Target(p)
  BY <1>3, ConstAssumption DEF ScanInv, Blist
<1>5. /\ flags' = [flags EXCEPT ![f] = (@ \cup {"BBUSY"}) \ {"BDONE"}]
      /\ blkdev' = [blkdev EXCEPT ![f] = Target(p)]
      /\ fresh' = fresh \ {f} /\ ~Dirty(f) /\ UNCHANGED <<ioq, saved>>
  BY DEF TakeClean
<1>6. Only(f) /\ blkdev'[f] = Target(p) /\ flags'[f] = (flags[f] \cup {"BBUSY"}) \ {"BDONE"}
  BY <1>1, <1>5 DEF Only, TypeOK
<1> QED
  BY <1>1, <1>2, <1>4, <1>5, <1>6 DEF Renamed, Dirty

\* bflush zeroes a clean free buffer, or the one it has written.
LEMMA FlushZeroes ==
  ASSUME IInv, NEW p \in Proc, FlushClean(p) \/ FlushWritten(p)
  PROVE  Renamed(reg[p], NoBlock)
<1> USE DEF IInv
<1>1. ReleaseAndZero(reg[p]) /\ UNCHANGED <<fresh, ioq, saved>>
  BY DEF FlushClean, FlushWritten
<1>2. CASE FlushClean(p)
  <2>1. reg[p] \in Blist /\ ~Busy(reg[p])
    BY <1>2 DEF FlushClean, At, CpuInv, CpuP, TypeOK, Blist
  <2>2. reg[p] \notin ioq
    BY <2>1, FreeNotQueued
  <2> QED
    BY <1>1, <2>1, <2>2 DEF ReleaseAndZero, Renamed, Only, TypeOK
<1>3. CASE FlushWritten(p)
  <2>1. reg[p] \in Blist /\ reg[p] \notin ioq
    BY <1>3, HeldNotQueued DEF FlushWritten, At
  <2> QED
    BY <1>1, <2>1 DEF ReleaseAndZero, Renamed, Only, TypeOK
<1> QED
  BY <1>2, <1>3

\* A buffer that is changed and released with bdwrite, or sent off.
LEMMA BdwriteStores ==
  ASSUME TypeOK, NEW b \in Blist, b \notin ioq, NEW w, Modify(b, w), bdwrite(b), UNCHANGED <<blkdev, ioq>>
  PROVE  Stored(b, w)
<1>1. flags' = [flags EXCEPT ![b] = (flags[b] \cup {"BDELWRI", "BDONE"}) \ {"BBUSY", "BWANT"}]
  BY DEF bdwrite, brelse
<1>2. Only(b) /\ flags'[b] = (flags[b] \cup {"BDELWRI", "BDONE"}) \ {"BBUSY", "BWANT"}
  BY <1>1 DEF Only, TypeOK
<1> QED
  BY <1>2 DEF Stored

\* The other way out: bawrite.
LEMMA BawriteStores ==
  ASSUME TypeOK, NEW b \in Blist, b \notin ioq, NEW w, Modify(b, w), bawrite(b), UNCHANGED blkdev
  PROVE  Stored(b, w)
<1>1. flags' = [flags EXCEPT ![b] = ((flags[b] \ {"BSYNC", "BREAD"}) \cup {"BBUSY"}) \ {"BDONE", "BERROR"}]
      /\ ioq' = ioq \cup {b}
  BY DEF bawrite, strat
<1>2. Only(b) /\ flags'[b] = ((flags[b] \ {"BSYNC", "BREAD"}) \cup {"BBUSY"}) \ {"BDONE", "BERROR"}
  BY <1>1 DEF Only, TypeOK
<1> QED
  BY <1>1, <1>2 DEF Stored

\* iwrite, balloc, bfree and bsync change a buffer they hold.
LEMMA HoldStores ==
  ASSUME IInv, NEW p \in Proc
  PROVE  /\ HoldWrite(p) => Stored(reg[p], op[p] = "fill")
         /\ HoldBlock(p) => Stored(reg[p], TRUE)
         /\ HoldSync(p) => Stored(reg[p], FALSE)
         /\ RelSuper(p) => sb[p] # 0 /\ Stored(sb[p], FALSE)
<1> USE DEF IInv
<1>1. pc[p] = "hold" => reg[p] \in Blist /\ reg[p] \notin ioq
  BY HeldNotQueued
<1>2. ASSUME HoldWrite(p) PROVE Stored(reg[p], op[p] = "fill")
  <2>1. pc[p] = "hold" /\ Modify(reg[p], op[p] = "fill") /\ UNCHANGED blkdev
        /\ ((bdwrite(reg[p]) /\ UNCHANGED ioq) \/ bawrite(reg[p]))
    BY <1>2 DEF HoldWrite, At
  <2> QED
    BY <1>1, <2>1, BdwriteStores, BawriteStores
<1>3. ASSUME HoldBlock(p) PROVE Stored(reg[p], TRUE)
  <2>1. pc[p] = "hold" /\ Modify(reg[p], TRUE) /\ UNCHANGED blkdev
        /\ ((bdwrite(reg[p]) /\ UNCHANGED ioq) \/ bawrite(reg[p]))
    BY <1>3 DEF HoldBlock, At
  <2> QED
    BY <1>1, <2>1, BdwriteStores, BawriteStores
<1>4. ASSUME HoldSync(p) PROVE Stored(reg[p], FALSE)
  <2>1. pc[p] = "hold" /\ Modify(reg[p], FALSE) /\ UNCHANGED <<blkdev, ioq>> /\ bdwrite(reg[p])
    BY <1>4 DEF HoldSync, At
  <2> QED
    BY <1>1, <2>1, BdwriteStores
<1>5. ASSUME RelSuper(p) PROVE sb[p] # 0 /\ Stored(sb[p], FALSE)
  <2>1. pc[p] = "relsb" /\ Modify(sb[p], FALSE) /\ UNCHANGED <<blkdev, ioq>> /\ bdwrite(sb[p])
    BY <1>5 DEF RelSuper, At
  <2>2. sb[p] # 0 /\ sb[p] \in Blist /\ sb[p] \notin ioq
    BY <2>1, FreeNotQueued DEF CpuInv, CpuP, TypeOK, Blist
  <2> QED
    BY <2>1, <2>2, BdwriteStores
<1> QED
  BY <1>2, <1>3, <1>4, <1>5

\* A step is quiet or does one of ten things to a buffer.
LEMMA StepCases ==
  ASSUME NEW p \in Proc, Step(p)
  PROVE  \/ Quiet(p) \/ TakeDirty(p) \/ TakeClean(p) \/ GotRead(p) \/ GotAhead(p)
         \/ HoldWrite(p) \/ HoldBlock(p) \/ RelSuper(p) \/ HoldSync(p)
         \/ (Sync(p) /\ Dirty(reg[p]) /\ ~Busy(reg[p]))
         \/ FlushDirty(p) \/ FlushClean(p) \/ FlushWritten(p)
  BY DEF Step, Bget, Bio, Flush, Use, Quiet

\* A step touches a free buffer, or one its process holds: any other keeps its
\* block and its data.
LEMMA UntouchedKeep ==
  ASSUME IInv, NEW p \in Proc, Step(p), NEW b \in Blist, Busy(b), Regs[p] # b,
         sb[p] # b \/ ~RelSuper(p)
  PROVE  blkdev'[b] = blkdev[b] /\ Alike(b)
<1> USE DEF IInv
<1>1. ASSUME NEW c, Only(c), c # b PROVE blkdev'[b] = blkdev[b] /\ Alike(b)
  BY <1>1 DEF Only, Alike
<1>3. pc[p] \in Holding => Regs[p] = reg[p]
  BY DEF Regs
<1>4. CASE Quiet(p)
  BY <1>4, QuietKeeps DEF Keeps
<1>5. CASE TakeDirty(p)
  BY <1>1, <1>5, TakeDirtyWrites DEF WriteOut, Start
<1>6. CASE TakeClean(p)
  BY <1>1, <1>6, TakeCleanRenames DEF Renamed, Avail, Busy
<1>7. CASE GotRead(p) \/ GotAhead(p)
  BY <1>1, <1>3, <1>7, GotReads DEF ReadIn, Start, GotRead, GotAhead, At, Holding
<1>8. CASE HoldWrite(p) \/ HoldBlock(p) \/ HoldSync(p)
  BY <1>1, <1>3, <1>8, HoldStores DEF Stored, HoldWrite, HoldBlock, HoldSync, At, Holding
<1>9. CASE RelSuper(p)
  BY <1>1, <1>9, HoldStores DEF Stored
<1>10. CASE Sync(p) /\ Dirty(reg[p]) /\ ~Busy(reg[p])
  BY <1>1, <1>10, SyncWrites DEF WriteOut, Start
<1>11. CASE FlushDirty(p)
  BY <1>1, <1>11, FlushDirtyWrites DEF WriteOut, Start
<1>12. CASE FlushClean(p)
  BY <1>1, <1>12, FlushZeroes DEF Renamed, FlushClean
<1>13. CASE FlushWritten(p)
  BY <1>1, <1>3, <1>13, FlushZeroes DEF Renamed, FlushWritten, At, Holding
<1> QED
  BY <1>4, <1>5, <1>6, <1>7, <1>8, <1>9, <1>10, <1>11, <1>12, <1>13, StepCases

\* In particular what others hold.
LEMMA OthersKeep ==
  ASSUME IInv, NEW p \in Proc, Step(p), NEW q \in Proc \ {p}, NEW b \in Blist,
         Regs[q] = b \/ sb[q] = b
  PROVE  blkdev'[b] = blkdev[b] /\ Alike(b)
<1>1. Busy(b) /\ Regs[p] # b /\ sb[p] # b
  BY DEF IInv, LockInv, Lock, Held, OneHolder, Busy, Blist
<1> QED
  BY <1>1, UntouchedKeep

Goes(p)   == \E l, b : Goto(p, l, b)
Sleeps(p) == \E b, r : sleep(p, b, r)

\* A step ends with a move of its process, and no other process moves.
LEMMA StepMoves ==
  ASSUME NEW p \in Proc, Step(p)
  PROVE  /\ Goes(p) \/ Sleeps(p) \/ Return(p)
         /\ pc[p] # "idle" /\ event[p] = 0 /\ cpu \in {p, NoProc}
         /\ UNCHANGED errVars
<1>1. Advance(p) => Goes(p) \/ Return(p)
  BY DEF Advance, Goes
<1>2. CASE Bget(p)
  BY <1>2 DEF Bget, ScanHit, ScanBusy, ScanNext, ScanSpin, TakeDirty, TakeClean, At, Goes, Sleeps
<1>3. CASE Bio(p)
  BY <1>3 DEF Bio, AreadHit, AreadMiss, GotValid, GotRead, GotAhead, BwaitSleep, BwaitRead,
     BwaitError, BwaitWrite, At, Goes, Sleeps
<1>4. CASE Flush(p)
  BY <1>1, <1>4 DEF Flush, FlushSkip, FlushBusy, FlushDirty, FlushClean, FlushWritten, At, Goes, Sleeps
<1>5. CASE Use(p)
  BY <1>1, <1>5 DEF Use, HoldRead, HoldWrite, HoldSuper, HoldBlock, RelSuper, HoldSync, Sync, At, Goes
<1> QED
  BY <1>2, <1>3, <1>4, <1>5 DEF Step

\* Which superblock buffers change hands.
LEMMA StepSb ==
  ASSUME IInv, NEW p \in Proc, Step(p), NEW q \in Proc, q # p
  PROVE  sb'[q] = sb[q]
<1> USE DEF IInv, TypeOK
<1>1. CASE HoldSuper(p) \/ RelSuper(p)
  BY <1>1 DEF HoldSuper, RelSuper
<1>2. CASE ~HoldSuper(p) /\ ~RelSuper(p)
  <2>1. CASE Bget(p)
    BY <2>1 DEF Bget, ScanHit, ScanBusy, ScanNext, ScanSpin, TakeDirty, TakeClean
  <2>2. CASE Bio(p)
    BY <2>2 DEF Bio, AreadHit, AreadMiss, GotValid, GotRead, GotAhead, BwaitSleep, BwaitRead,
       BwaitError, BwaitWrite
  <2>3. CASE Flush(p)
    BY <2>3 DEF Flush, FlushSkip, FlushBusy, FlushDirty, FlushClean, FlushWritten
  <2>4. CASE Use(p)
    BY <1>2, <2>4 DEF Use, HoldRead, HoldWrite, HoldBlock, HoldSync, Sync
  <2> QED
    BY <2>1, <2>2, <2>3, <2>4 DEF Step
<1> QED
  BY <1>1, <1>2

\* The operation and its block stay until the call returns.
LEMMA StepRegs ==
  ASSUME IInv, NEW p \in Proc, Step(p)
  PROVE  /\ OtherRegs(p)
         /\ pc'[p] # "idle" => op'[p] = op[p] /\ want'[p] = want[p]
<1> USE DEF IInv
<1>1. CASE Goes(p)
  BY <1>1 DEF Goes, Goto, TypeOK, OtherRegs
<1>2. CASE Sleeps(p)
  <2>1. PICK b, r : sleep(p, b, r)
    BY <1>2 DEF Sleeps
  <2>2. cpu' = NoProc /\ UNCHANGED <<pc, op, want>> /\ reg' = [reg EXCEPT ![p] = r]
    BY <2>1 DEF sleep
  <2> QED
    BY <2>2 DEF OtherRegs, TypeOK
<1>3. CASE Return(p)
  BY <1>3, ReturnOthers, ReturnSelf
<1> QED
  BY <1>1, <1>2, <1>3, StepMoves

\* bflush goes round its loop, or waits for its write, until it returns.
LEMMA FlushStays ==
  ASSUME IInv, PlaceInv, NEW p \in Proc, Step(p), op[p] = "flush"
  PROVE  /\ pc'[p] \in {"idle", "flush", "bwait"}
         /\ FlushSkip(p) \/ FlushBusy(p) \/ FlushDirty(p) \/ FlushClean(p) \/ FlushWritten(p)
            \/ BwaitSleep(p)
<1> USE DEF IInv, At
<1>1. pc[p] \in {"flush", "bwait"} /\ (pc[p] = "bwait" => "BREAD" \notin flags[reg[p]])
  BY StepMoves DEF PlaceInv, WantP, FlushP, InKernel
<1>2. ~Bget(p)
  BY <1>1 DEF Bget, ScanHit, ScanBusy, ScanNext, ScanSpin, TakeDirty, TakeClean
<1>3. ~Use(p)
  BY <1>1 DEF Use, HoldRead, HoldWrite, HoldSuper, HoldBlock, RelSuper, HoldSync, Sync
<1>4. Bio(p) => BwaitSleep(p)
  BY <1>1 DEF Bio, AreadHit, AreadMiss, GotValid, GotRead, GotAhead, BwaitRead, BwaitError, BwaitWrite
<1>5. Flush(p) \/ BwaitSleep(p)
  BY <1>2, <1>3, <1>4 DEF Step
<1>6. Advance(p) => pc'[p] \in {"idle", "flush"}
  BY GotoSelf, ReturnSelf DEF Advance
<1>7. Goto(p, "bwait", reg[p]) => pc'[p] = "bwait"
  BY GotoSelf
<1>8. pc'[p] \in {"idle", "flush", "bwait"}
  BY <1>1, <1>5, <1>6, <1>7 DEF Flush, FlushSkip, FlushBusy, FlushDirty, FlushClean, FlushWritten, BwaitSleep, sleep
<1> QED
  BY <1>5, <1>8 DEF Flush

\* Blocks change in two ways only.
LEMMA StepBlocks ==
  ASSUME IInv, NEW p \in Proc, Step(p)
  PROVE  \/ UNCHANGED blkdev
         \/ TakeClean(p) /\ Renamed(f, Target(p))
         \/ (FlushClean(p) \/ FlushWritten(p)) /\ Renamed(reg[p], NoBlock)
<1>1. CASE Quiet(p)
  BY <1>1, QuietKeeps DEF Keeps
<1>2. CASE TakeDirty(p) \/ GotRead(p) \/ GotAhead(p) \/ HoldWrite(p) \/ HoldBlock(p)
           \/ RelSuper(p) \/ HoldSync(p) \/ Sync(p) \/ FlushDirty(p)
  BY <1>2 DEF TakeDirty, GotRead, GotAhead, HoldWrite, HoldBlock, RelSuper, HoldSync, Sync, FlushDirty
<1> QED
  BY <1>1, <1>2, StepCases, TakeCleanRenames, FlushZeroes
-----------------------------------------------------------------------------
(* The superblock, the loops of bflush and bsync.                           *)

\* Nothing takes the superblock's buffer away: it is never a candidate of
\* bget, and no device with a mounted superblock is flushed.
LEMMA SuperStep ==
  ASSUME IInv, PlaceInv, NEW p \in Proc, Step(p) PROVE SuperInv'
<1> USE DEF IInv
<1>0. 1 \in Blist /\ SuperInv
  BY ConstAssumption DEF Blist, PlaceInv
<1>1. ASSUME NEW b, Only(b), b # 1 PROVE SuperInv'
  BY <1>0, <1>1 DEF Only, SuperInv
<1>2. ASSUME NEW b, Only(b), UNCHANGED blkdev, "BLOCK" \in flags'[b] <=> "BLOCK" \in flags[b]
      PROVE  SuperInv'
  BY <1>0, <1>2 DEF Only, SuperInv
<1>3. CASE Quiet(p)
  BY <1>0, <1>3, QuietKeeps DEF Keeps, Alike, DataFlags, SuperInv
<1>4. CASE TakeDirty(p)
  BY <1>2, <1>4, TakeDirtyWrites DEF WriteOut, Start
<1>5. CASE TakeClean(p)
  <2>1. f # 1
    BY <1>0, <1>5, TakeCleanRenames DEF Avail, SuperInv
  <2> QED
    BY <1>1, <1>5, <2>1, TakeCleanRenames DEF Renamed
<1>6. CASE GotRead(p) \/ GotAhead(p)
  BY <1>2, <1>6, GotReads DEF ReadIn, Start
<1>7. CASE HoldWrite(p) \/ HoldBlock(p) \/ HoldSync(p)
  BY <1>2, <1>7, HoldStores DEF Stored
<1>8. CASE RelSuper(p)
  BY <1>2, <1>8, HoldStores DEF Stored
<1>9. CASE Sync(p) /\ Dirty(reg[p]) /\ ~Busy(reg[p])
  BY <1>2, <1>9, SyncWrites DEF WriteOut, Start
<1>10. CASE FlushDirty(p)
  BY <1>2, <1>10, FlushDirtyWrites DEF WriteOut, Start
<1>11. CASE FlushClean(p) \/ FlushWritten(p)
  <2>1. InKernel(p) /\ op[p] = "flush"
    BY <1>11 DEF FlushClean, FlushWritten, At, CpuInv, CpuP, InKernel
  <2>2. WantP(p) /\ FlushP(p)
    BY DEF PlaceInv
  <2>3. OnDev(reg[p], want[p]) /\ DevOf[want[p]] # DevOf[SuperBlock]
    BY <1>11, <2>1, <2>2 DEF FlushClean, FlushWritten, At, Flushed, OnDev, WantP, FlushP
  <2>4. reg[p] # 1
    BY <1>0, <2>3 DEF OnDev, SuperInv
  <2> QED
    BY <1>1, <1>11, <2>4, FlushZeroes DEF Renamed
<1> QED
  BY <1>3, <1>4, <1>5, <1>6, <1>7, <1>8, <1>9, <1>10, <1>11, StepCases

\* A step changes nobody's operation, except that it may end p's.
LEMMA WantStep ==
  ASSUME IInv, PlaceInv, NEW p \in Proc, Step(p), NEW q \in Proc PROVE WantP(q)'
<1> USE DEF IInv
<1>1. \A r \in Proc : InKernel(r)' => InKernel(r) /\ op'[r] = op[r] /\ want'[r] = want[r]
  BY StepRegs, StepMoves DEF OtherRegs, InKernel
<1>2. op[q] = "flush" /\ InKernel(q)' => pc'[q] \in {"flush", "bwait"}
  <2>1. CASE q = p
    BY <2>1, FlushStays DEF InKernel
  <2>2. CASE q # p
    <3>1. pc'[q] = pc[q]
      BY <2>2, StepRegs DEF OtherRegs
    <3> QED
      BY <3>1 DEF PlaceInv, WantP, InKernel
  <2> QED
    BY <2>1, <2>2
<1>3. WantP(q)
  BY DEF PlaceInv
<1> QED
  BY <1>1, <1>2, <1>3 DEF WantP

\* A block of a device being flushed does not come back.
LEMMA FlushStepOther ==
  ASSUME IInv, PlaceInv, NEW p \in Proc, Step(p), NEW q \in Proc, q # p PROVE FlushP(q)'
<1> USE DEF IInv
<1> SUFFICES ASSUME InKernel(q)', op'[q] = "flush"
             PROVE  /\ \A b \in Blist : b < reg'[q] => ~OnDev(b, want[q])'
                    /\ pc'[q] = "bwait" => OnDev(reg[q], want[q])' /\ "BREAD" \notin flags'[reg'[q]]
  BY DEF FlushP
<1>1. pc'[q] = pc[q] /\ op'[q] = op[q] /\ reg'[q] = reg[q] /\ want'[q] = want[q]
  BY StepRegs DEF OtherRegs
<1>2. InKernel(q) /\ op[q] = "flush" /\ FlushP(q) /\ WantP(q)
  BY <1>1 DEF InKernel, PlaceInv
<1>3. InKernel(p) /\ DevOf[want[p]] # DevOf[want[q]] /\ DevOf[SuperBlock] # DevOf[want[q]]
  BY <1>2, StepMoves DEF WantP, InKernel
<1>4. \A b \in Blist : OnDev(b, want[q])' => OnDev(b, want[q])
  <2>1. CASE UNCHANGED blkdev
    BY <1>1, <2>1 DEF OnDev
  <2>2. CASE TakeClean(p) /\ Renamed(f, Target(p))
    <3>1. DevOf[Target(p)] # DevOf[want[q]]
      BY <1>3 DEF Target
    <3> QED
      BY <1>1, <2>2, <3>1 DEF Renamed, Only, OnDev
  <2>3. CASE Renamed(reg[p], NoBlock)
    BY <1>1, <2>3 DEF Renamed, Only, OnDev
  <2> QED
    BY <2>1, <2>2, <2>3, StepBlocks
<1>5. ASSUME pc[q] = "bwait" PROVE OnDev(reg[q], want[q])' /\ "BREAD" \notin flags'[reg[q]]
  <2>1. reg[q] \in Blist /\ Regs[q] = reg[q]
    BY <1>5, IsHolding DEF Holding
  <2>2. blkdev'[reg[q]] = blkdev[reg[q]] /\ Alike(reg[q])
    BY <2>1, OthersKeep
  <2> QED
    BY <1>1, <1>2, <1>5, <2>2 DEF FlushP, OnDev, Alike, DataFlags
<1> QED
  BY <1>1, <1>2, <1>4, <1>5 DEF FlushP

\* Advance goes to the next buffer.
LEMMA AdvanceTo ==
  ASSUME IInv, NEW p \in Proc, op[p] \in {"sync", "flush"}, Advance(p)
  PROVE  \/ pc'[p] = "idle" /\ reg[p] >= NBUF
         \/ pc'[p] = op[p] /\ cpu' = p /\ reg'[p] = reg[p] + 1 /\ UNCHANGED <<op, want>>
<1>1. TypeOK
  BY DEF IInv
<1>2. NBUF \in Nat /\ reg[p] \in Nat
  BY <1>1, ConstAssumption DEF TypeOK
<1>3. CASE reg[p] < NBUF
  <2>1. Goto(p, op[p], reg[p] + 1)
    BY <1>3 DEF Advance
  <2> QED
    BY <1>1, <2>1, GotoSelf DEF Goto
<1>4. CASE ~(reg[p] < NBUF)
  <2>1. Return(p) /\ reg[p] >= NBUF
    BY <1>2, <1>4 DEF Advance
  <2> QED
    BY <1>1, <2>1, ReturnSelf
<1> QED
  BY <1>3, <1>4

\* bflush leaves nothing behind it.
LEMMA FlushStepSelf ==
  ASSUME IInv, PlaceInv, NEW p \in Proc, Step(p) PROVE FlushP(p)'
<1> USE DEF IInv
<1> SUFFICES ASSUME InKernel(p)', op'[p] = "flush"
             PROVE  /\ \A b \in Blist : b < reg'[p] => ~OnDev(b, want[p])'
                    /\ pc'[p] = "bwait" => OnDev(reg[p], want[p])' /\ "BREAD" \notin flags'[reg'[p]]
  BY DEF FlushP
<1>1. op[p] = "flush" /\ want'[p] = want[p]
  BY StepRegs DEF InKernel
<1>2. FlushP(p) /\ InKernel(p)
  BY StepMoves DEF PlaceInv, InKernel
<1>3. \A b \in Blist : b < reg[p] => ~OnDev(b, want[p])
  BY <1>1, <1>2 DEF FlushP
<1>4. reg[p] \in Blist
  BY <1>1, FlushStays DEF FlushSkip, FlushBusy, FlushDirty, FlushClean, FlushWritten, BwaitSleep,
     At, CpuInv, CpuP, TypeOK, Blist
<1>5. PICK r, k : r = reg[p] /\ k = want[p]
  OBVIOUS
<1>6. \A b : OnDev(b, want[p])' <=> OnDev(b, k)'
  BY <1>1, <1>5 DEF OnDev
<1>7. ASSUME Advance(p), ~OnDev(r, k)', \A b \in Blist \ {r} : blkdev'[b] = blkdev[b]
      PROVE  /\ \A b \in Blist : b < reg'[p] => ~OnDev(b, want[p])'
             /\ pc'[p] # "bwait"
  <2>1. pc'[p] = "flush" /\ reg'[p] = r + 1
    BY <1>1, <1>5, <1>7, AdvanceTo DEF InKernel
  <2>2. ASSUME NEW b \in Blist, b < reg'[p] PROVE ~OnDev(b, k)'
    <3>1. CASE b = r
      BY <1>7, <3>1
    <3>2. CASE b # r
      <4>1. b < reg[p]
        BY <1>4, <1>5, <2>1, <2>2, <3>2 DEF Blist
      <4> QED
        BY <1>3, <1>5, <1>7, <3>2, <4>1 DEF OnDev
    <3> QED
      BY <3>1, <3>2
  <2> QED
    BY <1>6, <2>1, <2>2
<1>8. ASSUME reg'[p] = 1 PROVE \A b \in Blist : b < reg'[p] => ~OnDev(b, want[p])'
  BY <1>8 DEF Blist
<1>9. CASE FlushSkip(p)
  <2>1. Advance(p) /\ UNCHANGED blkdev /\ ~OnDev(r, k)
    BY <1>5, <1>9 DEF FlushSkip, Flushed, OnDev
  <2> QED
    BY <1>7, <2>1 DEF OnDev
<1>10. CASE FlushClean(p) \/ FlushWritten(p)
  <2>1. Advance(p)
    BY <1>10 DEF FlushClean, FlushWritten
  <2>2. Only(r) /\ blkdev'[r] = NoBlock
    BY <1>5, <1>10, FlushZeroes DEF Renamed
  <2> QED
    BY <1>7, <2>1, <2>2 DEF Only, OnDev
<1>11. CASE FlushBusy(p)
  <2>1. pc'[p] = pc[p] /\ pc[p] = "flush" /\ reg'[p] = 1
    BY <1>11 DEF FlushBusy, sleep, At, TypeOK
  <2> QED
    BY <1>8, <2>1
<1>12. ASSUME UNCHANGED blkdev, reg'[p] = reg[p], OnDev(r, k), "BREAD" \notin flags'[r]
       PROVE  /\ \A b \in Blist : b < reg'[p] => ~OnDev(b, want[p])'
              /\ OnDev(reg[p], want[p])' /\ "BREAD" \notin flags'[reg'[p]]
  BY <1>1, <1>3, <1>5, <1>12 DEF OnDev
<1>13. CASE FlushDirty(p)
  <2>1. UNCHANGED blkdev /\ reg'[p] = reg[p] /\ OnDev(r, k)
    BY <1>5, <1>13, GotoSelf DEF FlushDirty, Flushed, OnDev
  <2>2. "BREAD" \notin flags'[r]
    BY <1>5, <1>13, FlushDirtyWrites DEF WriteOut
  <2> QED
    BY <1>12, <2>1, <2>2
<1>14. CASE BwaitSleep(p)
  <2>1. reg'[p] = reg[p] /\ pc[p] = "bwait" /\ Quiet(p)
    BY <1>14 DEF BwaitSleep, sleep, At, TypeOK, Quiet
  <2>2. OnDev(r, k) /\ "BREAD" \notin flags[r]
    BY <1>1, <1>2, <1>5, <2>1 DEF FlushP
  <2>3. UNCHANGED blkdev /\ Alike(r)
    BY <1>4, <1>5, <2>1, QuietKeeps DEF Keeps
  <2> QED
    BY <1>12, <2>1, <2>2, <2>3 DEF Alike, DataFlags
<1> QED
  BY <1>1, <1>9, <1>10, <1>11, <1>13, <1>14, FlushStays

\* While p is in the loop of bsync no other process runs.
LEMMA SyncStepOther ==
  ASSUME IInv, PlaceInv, NEW p \in Proc, Step(p), NEW q \in Proc, q # p PROVE SyncP(q)'
<1>1. pc[q] # "sync"
  BY StepMoves, ConstAssumption DEF PlaceInv, SyncP
<1>2. pc'[q] = pc[q]
  BY StepRegs DEF OtherRegs
<1> QED
  BY <1>1, <1>2 DEF SyncP

\* The only way into the loop of bsync.
LEMMA SyncEntered ==
  ASSUME IInv, NEW p \in Proc, Step(p), pc'[p] = "sync" PROVE HoldSync(p) \/ Sync(p)
<1> USE DEF IInv
<1>1. \A l, b : Goto(p, l, b) => pc'[p] = l
  BY GotoSelf
<1>2. ~Return(p)
  BY ReturnSelf
<1>3. \A b, r : sleep(p, b, r) => pc[p] = "sync"
  BY DEF sleep
<1>4. ~Bget(p)
  BY <1>1, <1>3 DEF Bget, ScanHit, ScanBusy, ScanNext, ScanSpin, TakeDirty, TakeClean, At
<1>5. ~Bio(p)
  BY <1>1, <1>2, <1>3 DEF Bio, AreadHit, AreadMiss, GotValid, GotRead, GotAhead, BwaitSleep, BwaitRead,
     BwaitError, BwaitWrite, At
<1>6. op[p] = "flush" => ~Advance(p)
  BY <1>1, <1>2 DEF Advance
<1>7. ~Flush(p)
  <2>1. ~FlushBusy(p) /\ ~FlushDirty(p)
    BY <1>1, <1>3 DEF FlushBusy, FlushDirty, At
  <2>2. ~FlushSkip(p) /\ ~FlushClean(p)
    BY <1>6 DEF FlushSkip, FlushClean, At, CpuInv, CpuP
  <2>3. ~FlushWritten(p)
    BY <1>6 DEF FlushWritten
  <2> QED
    BY <2>1, <2>2, <2>3 DEF Flush
<1>8. Use(p) => HoldSync(p) \/ Sync(p)
  BY <1>1, <1>2 DEF Use, HoldRead, HoldWrite, HoldSuper, HoldBlock, RelSuper
<1> QED
  BY <1>4, <1>5, <1>7, <1>8 DEF Step

\* The loop of bsync leaves no dirty free buffer behind it.
LEMMA SyncLeaves ==
  ASSUME IInv, PlaceInv, NEW p \in Proc, Sync(p), NEW b \in Blist, b <= reg[p], "BDELWRI" \in flags'[b]
  PROVE  "BBUSY" \in flags'[b]
<1> USE DEF IInv
<1>1. pc[p] = "sync" /\ reg[p] \in Blist
  BY DEF Sync, At, CpuInv, CpuP, TypeOK, Blist
<1>2. b = reg[p] \/ b < reg[p]
  BY <1>1 DEF Blist
<1>3. SyncP(p)
  BY DEF PlaceInv
<1>4. CASE Dirty(reg[p]) /\ ~Busy(reg[p])
  <2>1. Only(reg[p]) /\ "BBUSY" \in flags'[reg[p]]
    BY <1>4, SyncWrites DEF WriteOut, Start
  <2> QED
    BY <1>1, <1>2, <1>3, <2>1 DEF Only, SyncP, Dirty, Busy
<1>5. CASE ~(Dirty(reg[p]) /\ ~Busy(reg[p]))
  <2>1. UNCHANGED flags
    BY <1>5 DEF Sync
  <2> QED
    BY <1>1, <1>2, <1>3, <1>5, <2>1 DEF SyncP, Dirty, Busy
<1> QED
  BY <1>4, <1>5

\* So does every step of the process in it.
LEMMA SyncStepSelf ==
  ASSUME IInv, PlaceInv, NEW p \in Proc, Step(p) PROVE SyncP(p)'
<1> USE DEF IInv
<1> SUFFICES ASSUME pc'[p] = "sync"
             PROVE  cpu' = p /\ \A b \in Blist : b < reg'[p] /\ Dirty(b)' => Busy(b)'
  BY DEF SyncP
<1>1. CASE HoldSync(p)
  <2>1. cpu' = p /\ reg'[p] = 1
    BY <1>1, GotoSelf DEF HoldSync
  <2> QED
    BY <2>1 DEF Blist
<1>2. CASE Sync(p)
  <2>1. op[p] = "sync" /\ Advance(p) /\ reg[p] \in Blist
    BY <1>2 DEF Sync, At, CpuInv, CpuP, TypeOK, Blist
  <2>2. cpu' = p /\ reg'[p] = reg[p] + 1
    BY <2>1, AdvanceTo
  <2>3. \A b \in Blist : b < reg'[p] => b <= reg[p]
    BY <2>1, <2>2 DEF Blist
  <2> QED
    BY <1>2, <2>2, <2>3, SyncLeaves DEF Dirty, Busy
<1> QED
  BY <1>1, <1>2, SyncEntered

\* A completed request is not dirty any more, and BREAD and BLOCK stay.
LEMMA IodoneFlags ==
  ASSUME TypeOK, NEW b \in Blist, NEW err \in BOOLEAN, iodone(b, err)
  PROVE  /\ \A c \in Blist \ {b} : flags'[c] = flags[c]
         /\ "BDELWRI" \notin flags'[b] /\ "BDONE" \in flags'[b]
         /\ "BREAD" \in flags'[b] <=> "BREAD" \in flags[b]
         /\ "BLOCK" \in flags'[b] <=> "BLOCK" \in flags[b]
         /\ "BERROR" \in flags'[b] <=> ("BERROR" \in flags[b] \/ err)
<1> DEFINE fl == (flags[b] \cup {"BDONE"} \cup (IF err THEN {"BERROR"} ELSE {})) \ {"BDELWRI"}
<1>1. /\ "BDELWRI" \notin fl /\ "BDONE" \in fl
      /\ "BREAD" \in fl <=> "BREAD" \in flags[b]
      /\ "BLOCK" \in fl <=> "BLOCK" \in flags[b]
      /\ "BERROR" \in fl <=> ("BERROR" \in flags[b] \/ err)
  OBVIOUS
<1>2. flags' = [flags EXCEPT ![b] = fl] \/ flags' = [flags EXCEPT ![b] = fl \ {"BBUSY", "BWANT"}]
  BY DEF iodone, brelse
<1> HIDE DEF fl
<1> QED
  BY <1>1, <1>2 DEF TypeOK

\* The disk preserves all this.
LEMMA PlaceInterrupt == ASSUME IInv, PlaceInv, Interrupt PROVE PlaceInv'
<1> USE DEF IInv
<1>1. PICK b \in Blist, err \in BOOLEAN : b \in ioq /\ iodone(b, err)
                                        /\ UNCHANGED <<procVars, sb, blkdev>>
  BY DEF Interrupt, Transfer, TransferError
<1>2. /\ \A c \in Blist \ {b} : flags'[c] = flags[c]
      /\ "BDELWRI" \notin flags'[b]
      /\ "BREAD" \in flags'[b] <=> "BREAD" \in flags[b]
      /\ "BLOCK" \in flags'[b] <=> "BLOCK" \in flags[b]
  BY <1>1, IodoneFlags
<1>3. UNCHANGED <<cpu, pc, op, want, reg, blkdev>>
  BY <1>1 DEF procVars
<1>4. SuperInv'
  BY <1>2, <1>3, ConstAssumption DEF PlaceInv, SuperInv, Blist
<1>5. ASSUME NEW p \in Proc PROVE WantP(p)' /\ FlushP(p)' /\ SyncP(p)'
  <2>1. WantP(p) /\ FlushP(p) /\ SyncP(p)
    BY DEF PlaceInv
  <2>2. WantP(p)'
    BY <1>3, <2>1 DEF WantP, InKernel
  <2>3. pc[p] = "bwait" => reg[p] \in Blist
    BY DEF CpuInv, CpuP, TypeOK, Blist
  <2>4. FlushP(p)'
    BY <1>2, <1>3, <2>1, <2>3 DEF FlushP, InKernel, OnDev
  <2>5. SyncP(p)'
    BY <1>2, <1>3, <2>1 DEF SyncP, Dirty, Busy
  <2> QED
    BY <2>2, <2>4, <2>5
<1> QED
  BY <1>4, <1>5 DEF PlaceInv

\* So does the start of a call: iclose flushes a device nobody is at.
LEMMA PlaceCall ==
  ASSUME IInv, PlaceInv, NEW p \in Proc, NEW o \in Ops, NEW k \in Block, Call(p, o, k)
  PROVE  PlaceInv'
<1> USE DEF IInv
<1>1. /\ pc[p] = "idle" /\ cpu = NoProc
      /\ pc' = [pc EXCEPT ![p] = CASE o = "ahead" -> "aread" [] o = "flush" -> "flush" [] OTHER -> "scan"]
      /\ reg' = [reg EXCEPT ![p] = 1] /\ op' = [op EXCEPT ![p] = o] /\ want' = [want EXCEPT ![p] = k]
      /\ UNCHANGED <<blkdev, flags>>
  BY DEF Call
<1>2. \A q \in Proc \ {p} : pc'[q] = pc[q] /\ reg'[q] = reg[q] /\ op'[q] = op[q] /\ want'[q] = want[q]
  BY <1>1 DEF TypeOK
<1>3. /\ reg'[p] = 1 /\ op'[p] = o /\ want'[p] = k
      /\ pc'[p] \in {"aread", "flush", "scan"} /\ (o = "flush" => pc'[p] = "flush")
  BY <1>1 DEF TypeOK
<1>4. /\ o = "sync" => k = SuperBlock
      /\ o = "flush" => DevOf[k] # DevOf[SuperBlock] /\ ~InUse(DevOf[k])
      /\ ~Flushing(DevOf[k])
  BY DEF Call
<1>5. SuperInv'
  BY <1>1 DEF PlaceInv, SuperInv
<1>6. \A q \in Proc : WantP(q) /\ FlushP(q) /\ SyncP(q)
  BY DEF PlaceInv
<1>7. WantP(p)'
  <2>1. \A q \in Proc \ {p} : InKernel(q) /\ o = "flush" => DevOf[want[q]] # DevOf[k]
    BY <1>4, <1>6 DEF InUse, InKernel, WantP
  <2> QED
    BY <1>2, <1>3, <1>4, <2>1 DEF WantP, InKernel
<1>8. \A q \in Proc \ {p} : WantP(q)'
  BY <1>2, <1>3, <1>4, <1>6 DEF WantP, InKernel, Flushing
<1>9. \A q \in Proc : FlushP(q)'
  BY <1>1, <1>2, <1>3, <1>6 DEF FlushP, InKernel, OnDev, Blist
<1>10. \A q \in Proc : pc[q] # "sync"
  BY <1>1, <1>6, ConstAssumption DEF SyncP
<1>11. \A q \in Proc : SyncP(q)'
  BY <1>2, <1>3, <1>10 DEF SyncP
<1> QED
  BY <1>5, <1>7, <1>8, <1>9, <1>11 DEF PlaceInv

\* The superblock's place and the loops hold from the start on.
LEMMA PlaceInvariant == Spec => []PlaceInv
<1>1. Init => PlaceInv
  BY ConstAssumption DEF Init, PlaceInv, SuperInv, WantP, FlushP, SyncP, InKernel, Blist
<1>2. IInv /\ PlaceInv /\ [Next]_vars => PlaceInv'
  <2> SUFFICES ASSUME IInv, PlaceInv, [Next]_vars PROVE PlaceInv'
    OBVIOUS
  <2>1. ASSUME NEW p \in Proc, Step(p) PROVE PlaceInv'
    <3>1. \A q \in Proc : WantP(q)' /\ FlushP(q)' /\ SyncP(q)'
      BY <2>1, WantStep, FlushStepSelf, FlushStepOther, SyncStepSelf, SyncStepOther
    <3> QED
      BY <2>1, <3>1, SuperStep DEF PlaceInv
  <2>2. CASE UNCHANGED vars
    BY <2>2 DEF vars, procVars, PlaceInv, SuperInv, WantP, FlushP, SyncP, InKernel, OnDev, Dirty, Busy
  <2> QED
    BY <2>1, <2>2, PlaceCall, PlaceInterrupt DEF Next
<1> QED
  BY <1>1, <1>2, Inductive, PTL DEF Spec

\* The superblock of the mounted root never leaves its locked buffer: bget does
\* not choose it and bflush is not called for its device (uio.c:38, 133).
THEOREM SuperStaysInCore == Spec => []SuperBlockInCore
<1>1. PlaceInv => SuperBlockInCore
  BY ConstAssumption DEF PlaceInv, SuperInv, SuperBlockInCore, Blist
<1> QED
  BY <1>1, PlaceInvariant, PTL

\* When bsync returns, every dirty buffer nobody held is with the device, although
\* interrupts release buffers behind the loop: what they release is clean
\* (uio.c:394-413, 299-315).
THEOREM SyncIsComplete == Spec => SyncStartsAll
<1>1. ASSUME IInv, PlaceInv, [Next]_vars, NEW p \in Proc, pc[p] = "sync", pc'[p] = "idle",
             NEW b \in Blist, "BDELWRI" \in flags'[b]
      PROVE  "BBUSY" \in flags'[b]
  <2> USE DEF IInv
  <2>1. Sync(p)
    <3>1. \A q \in Proc : Step(q) => q = p
      BY <1>1, StepMoves, ConstAssumption DEF PlaceInv, SyncP
    <3>2. ~(\E q \in Proc, o \in Ops, k \in Block : Call(q, o, k))
      BY <1>1, ConstAssumption DEF Call, PlaceInv, SyncP
    <3>3. ~Interrupt /\ ~UNCHANGED vars
      BY <1>1 DEF Interrupt, Transfer, TransferError, procVars, vars
    <3>4. Step(p)
      BY <1>1, <3>1, <3>2, <3>3 DEF Next
    <3> QED
      BY <1>1, <3>4 DEF Step, Bget, ScanHit, ScanBusy, ScanNext, ScanSpin, TakeDirty, TakeClean,
         Bio, AreadHit, AreadMiss, GotValid, GotRead, GotAhead, BwaitSleep, BwaitRead, BwaitError,
         BwaitWrite, Flush, FlushSkip, FlushBusy, FlushDirty, FlushClean, FlushWritten,
         Use, HoldRead, HoldWrite, HoldSuper, HoldBlock, RelSuper, HoldSync, At
  <2>2. op[p] = "sync" /\ Advance(p)
    <3>1. pc[p] = "sync" /\ Advance(p)
      BY <2>1 DEF Sync, At
    <3>2. CpuP(p)
      BY <1>1 DEF CpuInv
    <3> QED
      BY <3>1, <3>2 DEF CpuP
  <2>3. reg[p] >= NBUF
    BY <1>1, <2>2, AdvanceTo
  <2>4. b <= reg[p]
    BY <1>1, <2>3, ConstAssumption DEF Blist, TypeOK
  <2> QED
    BY <1>1, <2>1, <2>4, SyncLeaves
<1>2. IInv /\ PlaceInv /\ [Next]_vars
      => [\A p \in Proc : pc[p] = "sync" /\ pc'[p] = "idle" =>
            \A b \in Blist : "BDELWRI" \in flags'[b] => "BBUSY" \in flags'[b]]_vars
  BY <1>1
<1> QED
  BY <1>2, Inductive, PlaceInvariant, PTL DEF Spec, SyncStartsAll
-----------------------------------------------------------------------------
(* The data, as long as no transfer has failed.                             *)

Bufs == \A b \in Blist : BufP(b)

\* Nothing happens to data.
LEMMA KeepsData == ASSUME IInv, Bufs, Kept, Keeps PROVE Bufs' /\ Kept'
<1>1. \A b \in Blist : /\ Done(b)' <=> Done(b)
                       /\ Dirty(b)' <=> Dirty(b)
                       /\ Writing(b)' <=> Writing(b)
                       /\ "BERROR" \in flags'[b] <=> "BERROR" \in flags[b]
  BY DEF Keeps, Alike, DataFlags, Done, Dirty, Writing
<1>2. UNCHANGED <<blkdev, fresh, saved>>
  BY DEF Keeps
<1> QED
  BY <1>1, <1>2 DEF Bufs, BufP, Kept

\* A dirty buffer is going to the disk.
LEMMA WriteOutData == ASSUME IInv, Bufs, Kept, NEW b, WriteOut(b) PROVE Bufs' /\ Kept'
<1>1. /\ b \in Blist /\ Dirty(b) /\ b \notin ioq /\ ioq' = ioq \cup {b} /\ UNCHANGED <<blkdev, fresh, saved>>
      /\ \A c \in Blist \ {b} : flags'[c] = flags[c]
      /\ "BDONE" \notin flags'[b] /\ "BERROR" \notin flags'[b] /\ "BREAD" \notin flags'[b]
  BY DEF WriteOut, Start, Only
<1>2. \A c \in Blist \ {b} : /\ Done(c)' <=> Done(c)
                             /\ Dirty(c)' <=> Dirty(c)
                             /\ Writing(c)' <=> Writing(c)
  BY <1>1 DEF Done, Dirty, Writing
<1>3. b \in fresh /\ Writing(b)'
  BY <1>1 DEF Bufs, BufP, Writing
<1>4. Bufs'
  BY <1>1, <1>2, <1>3 DEF Bufs, BufP
<1>5. Kept'
  BY <1>1, <1>2, <1>3 DEF Kept
<1> QED
  BY <1>4, <1>5

\* A clean buffer is read into: what it held is on the medium.
LEMMA ReadInData == ASSUME IInv, Bufs, Kept, NEW b, ReadIn(b), ~Dirty(b) PROVE Bufs' /\ Kept'
<1>1. /\ b \in Blist /\ b \notin ioq /\ ioq' = ioq \cup {b} /\ UNCHANGED <<blkdev, fresh, saved>>
      /\ \A c \in Blist \ {b} : flags'[c] = flags[c]
      /\ "BDONE" \notin flags'[b] /\ "BERROR" \notin flags'[b] /\ "BREAD" \in flags'[b]
      /\ "BDELWRI" \notin flags'[b]
  BY DEF ReadIn, Start, Only, Dirty
<1>2. \A c \in Blist \ {b} : /\ Done(c)' <=> Done(c)
                             /\ Dirty(c)' <=> Dirty(c)
                             /\ Writing(c)' <=> Writing(c)
  BY <1>1 DEF Done, Dirty, Writing
<1>3. ~Writing(b)' /\ ~Done(b)' /\ ~Dirty(b)' /\ ~Writing(b)
  BY <1>1 DEF Writing, Done, Dirty
<1>4. Bufs'
  BY <1>1, <1>2, <1>3 DEF Bufs, BufP
<1>5. Kept'
  BY <1>1, <1>2, <1>3 DEF Kept
<1> QED
  BY <1>4, <1>5

\* A clean buffer is given to another block, or zeroed.
LEMMA RenamedData == ASSUME IInv, Bufs, Kept, NEW b, NEW k, Renamed(b, k), ~Dirty(b) PROVE Bufs' /\ Kept'
<1>1. /\ b \in Blist /\ b \notin ioq /\ UNCHANGED <<ioq, saved>>
      /\ \A c \in Blist \ {b} : flags'[c] = flags[c] /\ blkdev'[c] = blkdev[c] /\ (c \in fresh => c \in fresh')
      /\ "BDONE" \notin flags'[b] /\ "BDELWRI" \notin flags'[b]
      /\ "BERROR" \in flags'[b] => "BERROR" \in flags[b]
  BY DEF Renamed, Only
<1>2. \A c \in Blist \ {b} : /\ Done(c)' <=> Done(c)
                             /\ Dirty(c)' <=> Dirty(c)
                             /\ Writing(c)' <=> Writing(c)
  BY <1>1 DEF Done, Dirty, Writing
<1>3. ~Writing(b)' /\ ~Done(b)' /\ ~Dirty(b)' /\ ~Writing(b)
  BY <1>1 DEF Writing, Done, Dirty
<1>4. Bufs'
  BY <1>1, <1>2, <1>3 DEF Bufs, BufP
<1>5. Kept'
  BY <1>1, <1>2, <1>3 DEF Kept
<1> QED
  BY <1>4, <1>5

\* A buffer is changed: it was valid, or is overwritten as a whole.
LEMMA StoredData ==
  ASSUME IInv, Bufs, Kept, NEW b, NEW w \in BOOLEAN, Stored(b, w), w \/ Done(b), blkdev[b] # NoBlock
  PROVE  Bufs' /\ Kept'
<1>1. /\ b \in Blist /\ b \notin ioq /\ UNCHANGED blkdev
      /\ \A c \in Blist \ {b} : flags'[c] = flags[c]
      /\ "BERROR" \in flags'[b] => "BERROR" \in flags[b]
      /\ \/ ioq' = ioq /\ {"BDONE", "BDELWRI"} \subseteq flags'[b]
         \/ ioq' = ioq \cup {b} /\ "BREAD" \notin flags'[b] /\ "BDONE" \notin flags'[b]
      /\ saved' = saved \ {blkdev[b]}
  BY DEF Stored, Only, Modify
<1>2. \A c \in Blist \ {b} : /\ Done(c)' <=> Done(c)
                             /\ Dirty(c)' <=> Dirty(c)
                             /\ Writing(c)' <=> Writing(c)
  BY <1>1 DEF Done, Dirty, Writing
<1>3. Done(b) => b \in fresh
  BY <1>1 DEF Bufs, BufP
<1>4. fresh' = {x \in fresh : blkdev[x] # blkdev[b]} \cup {b}
  BY <1>3 DEF Stored, Modify
<1>5. \A c \in Blist \ {b} : blkdev[c] # blkdev[b] /\ (c \in fresh => c \in fresh')
  BY <1>1, <1>4 DEF IInv, OneBufferPerBlock
<1>6. Writing(b)' \/ (Done(b)' /\ Dirty(b)')
  BY <1>1 DEF Writing, Done, Dirty
<1>7. Bufs'
  <2>1. ASSUME NEW c \in Blist \ {b} PROVE BufP(c)'
    BY <1>1, <1>2, <1>5 DEF Bufs, BufP
  <2>2. BufP(b)'
    BY <1>1, <1>4, <1>6 DEF Bufs, BufP
  <2> QED
    BY <2>1, <2>2 DEF Bufs
<1>8. Kept'
  <2> SUFFICES ASSUME NEW k \in Block, k \notin saved'
               PROVE  \E c \in Blist : blkdev'[c] = k /\ (Writing(c)' \/ (Done(c)' /\ Dirty(c)'))
    BY DEF Kept
  <2>1. CASE k = blkdev[b]
    BY <1>1, <1>6, <2>1
  <2>2. CASE k # blkdev[b]
    <3>1. PICK c \in Blist : blkdev[c] = k /\ (Writing(c) \/ (Done(c) /\ Dirty(c)))
      BY <1>1, <2>2 DEF Kept
    <3> QED
      BY <1>1, <1>2, <2>2, <3>1
  <2> QED
    BY <2>1, <2>2
<1> QED
  BY <1>7, <1>8

\* The disk does what it is told: a read finds the newest contents there, or it
\* would be in a buffer; a write brings them there.
LEMMA TransferData == ASSUME IInv, Bufs, Kept, NEW b \in Blist, Transfer(b) PROVE Bufs' /\ Kept'
<1> USE DEF IInv
<1>1. b \in ioq /\ ioq' = ioq \ {b} /\ UNCHANGED blkdev /\ iodone(b, FALSE)
  BY DEF Transfer
<1>2. Busy(b) /\ ~Done(b) /\ blkdev[b] # NoBlock /\ blkdev[b] \in Block
  BY <1>1, FreeNotQueued DEF NamedInv, Busy, TypeOK
<1>3. /\ \A c \in Blist \ {b} : flags'[c] = flags[c]
      /\ "BDELWRI" \notin flags'[b] /\ "BDONE" \in flags'[b]
      /\ "BERROR" \in flags'[b] <=> "BERROR" \in flags[b]
  BY <1>1, IodoneFlags
<1>4. \A c \in Blist \ {b} : /\ Done(c)' <=> Done(c)
                             /\ Dirty(c)' <=> Dirty(c)
                             /\ Writing(c)' <=> Writing(c)
  BY <1>1, <1>3 DEF Done, Dirty, Writing
<1>5. \A c \in Blist \ {b} : blkdev[c] # blkdev[b]
  BY <1>2 DEF OneBufferPerBlock
<1>6. ~Dirty(b)' /\ Done(b)' /\ ~Writing(b)'
  BY <1>1, <1>3 DEF Dirty, Done, Writing
<1>7. CASE "BREAD" \in flags[b]
  <2>1. blkdev[b] \in saved
    BY <1>2, <1>5, <1>7 DEF Kept, Writing
  <2>2. fresh' = fresh \cup {b} /\ saved' = saved
    BY <1>7, <2>1 DEF Transfer
  <2>3. Bufs'
    BY <1>3, <1>4, <1>6, <2>2 DEF Bufs, BufP
  <2>4. Kept'
    BY <1>1, <1>2, <1>4, <1>7, <2>2 DEF Kept, Writing
  <2> QED
    BY <2>3, <2>4
<1>8. CASE "BREAD" \notin flags[b]
  <2>1. b \in fresh
    BY <1>1, <1>8 DEF Bufs, BufP, Writing
  <2>2. fresh' = fresh /\ saved' = saved \cup {blkdev[b]}
    BY <1>8, <2>1 DEF Transfer
  <2>3. Bufs'
    BY <1>3, <1>4, <1>6, <2>1, <2>2 DEF Bufs, BufP
  <2>4. Kept'
    <3> SUFFICES ASSUME NEW k \in Block, k \notin saved'
                 PROVE  \E c \in Blist : blkdev'[c] = k /\ (Writing(c)' \/ (Done(c)' /\ Dirty(c)'))
      BY DEF Kept
    <3>1. PICK c \in Blist : blkdev[c] = k /\ (Writing(c) \/ (Done(c) /\ Dirty(c)))
      BY <2>2 DEF Kept
    <3> QED
      BY <1>1, <1>4, <2>2, <3>1
  <2> QED
    BY <2>3, <2>4
<1> QED
  BY <1>7, <1>8

\* Every step of a process keeps the data where it belongs.
LEMMA DataStep ==
  ASSUME IInv, PlaceInv, Data, NEW p \in Proc, Step(p) PROVE Bufs' /\ Kept'
<1> USE DEF IInv
<1>0. Bufs /\ Kept /\ DataP(p) /\ AheadP(p)
  BY DEF Data, Bufs
<1>1. CASE Quiet(p)
  BY <1>0, <1>1, QuietKeeps, KeepsData
<1>2. CASE TakeDirty(p)
  BY <1>0, <1>2, TakeDirtyWrites, WriteOutData
<1>3. CASE FlushDirty(p)
  BY <1>0, <1>3, FlushDirtyWrites, WriteOutData
<1>4. CASE Sync(p) /\ Dirty(reg[p]) /\ ~Busy(reg[p])
  BY <1>0, <1>4, SyncWrites, WriteOutData
<1>5. CASE TakeClean(p)
  BY <1>0, <1>5, TakeCleanRenames, RenamedData
<1>6. CASE FlushClean(p) \/ FlushWritten(p)
  <2>1. ~Dirty(reg[p])
    BY <1>0, <1>6 DEF FlushClean, FlushWritten, DataP, At
  <2> QED
    BY <1>0, <1>6, <2>1, FlushZeroes, RenamedData
<1>7. CASE GotRead(p)
  <2>1. reg[p] \in Blist /\ reg[p] \notin ioq /\ ~Valid(reg[p])
    BY <1>7, HeldNotQueued DEF GotRead, At
  <2>2. ~Dirty(reg[p])
    BY <1>0, <2>1 DEF Bufs, BufP, Valid, Writing
  <2> QED
    BY <1>0, <1>7, <2>2, GotReads, ReadInData
<1>8. CASE GotAhead(p)
  <2>1. ~Dirty(reg[p])
    BY <1>0, <1>8 DEF GotAhead, At, AheadP, InKernel
  <2> QED
    BY <1>0, <1>8, <2>1, GotReads, ReadInData
<1>9. CASE HoldWrite(p) \/ HoldBlock(p) \/ HoldSync(p)
  <2>1. pc[p] = "hold"
    BY <1>9 DEF HoldWrite, HoldBlock, HoldSync, At
  <2>2. blkdev[reg[p]] # NoBlock
    BY <2>1, HeldNotQueued
  <2>3. HoldSync(p) \/ (HoldWrite(p) /\ op[p] # "fill") => Done(reg[p])
    BY <1>0, <2>1 DEF HoldWrite, HoldSync, DataP, Reader
  <2>4. HoldWrite(p) => Bufs' /\ Kept'
    BY <1>0, <2>2, <2>3, HoldStores, StoredData
  <2>5. HoldBlock(p) => Bufs' /\ Kept'
    BY <1>0, <2>2, HoldStores, StoredData
  <2>6. HoldSync(p) => Bufs' /\ Kept'
    BY <1>0, <2>2, <2>3, HoldStores, StoredData
  <2> QED
    BY <1>9, <2>4, <2>5, <2>6
<1>10. CASE RelSuper(p)
  <2>1. sb[p] # 0 /\ Stored(sb[p], FALSE) /\ blkdev[sb[p]] # NoBlock
    BY <1>10, HoldStores, HeldNamed
  <2>2. Done(sb[p])
    BY <1>0, <2>1 DEF DataP
  <2> QED
    BY <1>0, <2>1, <2>2, StoredData
<1> QED
  BY <1>1, <1>2, <1>3, <1>4, <1>5, <1>6, <1>7, <1>8, <1>9, <1>10, StepCases

\* What another process holds, and what it reads ahead to, p leaves alone.
LEMMA DataStepOther ==
  ASSUME IInv, PlaceInv, Data, NEW p \in Proc, Step(p), NEW q \in Proc, q # p
  PROVE  DataP(q)' /\ AheadP(q)'
<1> USE DEF IInv
<1>1. pc'[q] = pc[q] /\ op'[q] = op[q] /\ reg'[q] = reg[q] /\ want'[q] = want[q] /\ sb'[q] = sb[q]
  BY StepRegs, StepSb DEF OtherRegs
<1>2. DataP(q) /\ AheadP(q)
  BY DEF Data
<1>3. ASSUME pc[q] \in Holding
      PROVE  (Done(reg[q])' <=> Done(reg[q])) /\ (Dirty(reg[q])' <=> Dirty(reg[q]))
  <2>1. reg[q] \in Blist /\ Regs[q] = reg[q]
    BY <1>3, IsHolding
  <2>2. Alike(reg[q])
    BY <2>1, OthersKeep
  <2> QED
    BY <1>1, <2>2 DEF Alike, DataFlags, Done, Dirty
<1>4. ASSUME sb[q] # 0 PROVE Done(sb[q])' <=> Done(sb[q])
  <2>1. sb[q] \in Blist
    BY <1>4 DEF TypeOK, Blist
  <2>2. Alike(sb[q])
    BY <2>1, OthersKeep
  <2> QED
    BY <1>1, <2>2 DEF Alike, DataFlags, Done
<1>5. DataP(q)'
  BY <1>1, <1>2, <1>3, <1>4 DEF DataP, Reader, Holding
<1>6. AheadP(q)'
  <2> SUFFICES ASSUME InKernel(q)', op'[q] = "ahead"
               PROVE  /\ \A r \in Proc \ {q} : InKernel(r)' => want'[r] # want'[q]
                      /\ pc'[q] \in {"scan", "bwait"} => \A b \in Blist : blkdev'[b] # want'[q]
                      /\ pc'[q] = "got" => ~Dirty(reg[q])'
    BY DEF AheadP
  <2>1. InKernel(q) /\ op[q] = "ahead"
    BY <1>1 DEF InKernel
  <2>2. \A r \in Proc : InKernel(r)' => InKernel(r) /\ want'[r] = want[r]
    BY StepRegs, StepMoves DEF OtherRegs, InKernel
  <2>3. \A r \in Proc \ {q} : InKernel(r) => want[r] # want[q]
    BY <1>2, <2>1 DEF AheadP
  <2>4. ASSUME pc[q] \in {"scan", "bwait"} PROVE \A b \in Blist : blkdev'[b] # want[q]
    <3>1. \A b \in Blist : blkdev[b] # want[q]
      BY <1>2, <2>1, <2>4 DEF AheadP
    <3>2. want[q] # SuperBlock /\ want[q] # NoBlock
      BY <3>1, ConstAssumption DEF PlaceInv, SuperInv, Blist, TypeOK
    <3>3. want[p] # want[q]
      BY <2>3, StepMoves DEF InKernel
    <3>4. CASE TakeClean(p) /\ Renamed(f, Target(p))
      BY <3>1, <3>2, <3>3, <3>4 DEF Renamed, Only, Target
    <3>5. CASE Renamed(reg[p], NoBlock)
      BY <3>1, <3>2, <3>5 DEF Renamed, Only
    <3> QED
      BY <3>1, <3>4, <3>5, StepBlocks
  <2>5. pc[q] = "got" => ~Dirty(reg[q])'
    BY <1>2, <1>3, <2>1 DEF AheadP, Holding
  <2> QED
    BY <1>1, <2>2, <2>3, <2>4, <2>5
<1> QED
  BY <1>5, <1>6

\* Where a process comes from when it holds or waits for a buffer.
LEMMA Arrivals ==
  ASSUME IInv, NEW p \in Proc, Step(p)
  PROVE  /\ pc'[p] = "hold" => GotValid(p) \/ BwaitRead(p)
         /\ pc'[p] = "bwait" => TakeDirty(p) \/ GotRead(p) \/ FlushDirty(p) \/ BwaitSleep(p)
         /\ pc'[p] = "got" => ScanHit(p) \/ TakeClean(p)
<1> USE DEF IInv
<1>1. \A l, b : Goto(p, l, b) => pc'[p] = l
  BY GotoSelf
<1>2. Return(p) => pc'[p] = "idle"
  BY ReturnSelf
<1>3. \A b, r : sleep(p, b, r) => pc'[p] = pc[p]
  BY DEF sleep
<1>4. op[p] \in {"sync", "flush"} /\ Advance(p) => pc'[p] \in {"idle", "sync", "flush"}
  BY <1>1, <1>2 DEF Advance
<1>5. pc[p] \in {"sync", "flush"} => op[p] \in {"sync", "flush"}
  BY DEF CpuInv, CpuP
<1>6. CASE Bget(p)
  <2>1. CASE ScanHit(p)
    BY <1>1, <2>1 DEF ScanHit
  <2>2. CASE ScanBusy(p)
    BY <1>3, <2>2 DEF ScanBusy, At
  <2>3. CASE ScanNext(p) \/ ScanSpin(p)
    BY <1>1, <2>3 DEF ScanNext, ScanSpin
  <2>4. CASE TakeDirty(p) \/ TakeClean(p)
    BY <1>1, <2>4 DEF TakeDirty, TakeClean
  <2> QED
    BY <1>6, <2>1, <2>2, <2>3, <2>4 DEF Bget
<1>7. CASE Bio(p)
  BY <1>1, <1>2, <1>3, <1>7 DEF Bio, AreadHit, AreadMiss, GotValid, GotRead, GotAhead, BwaitSleep,
     BwaitRead, BwaitError, BwaitWrite, At
<1>8. CASE Flush(p)
  BY <1>1, <1>3, <1>4, <1>5, <1>8 DEF Flush, FlushSkip, FlushBusy, FlushDirty, FlushClean, FlushWritten, At
<1>9. CASE Use(p)
  BY <1>1, <1>2, <1>4, <1>5, <1>9 DEF Use, HoldRead, HoldWrite, HoldSuper, HoldBlock, RelSuper,
     HoldSync, Sync, At
<1> QED
  BY <1>6, <1>7, <1>8, <1>9 DEF Step

\* The superblock in p's hand stays valid.
LEMMA SuperValid ==
  ASSUME IInv, PlaceInv, Data, NEW p \in Proc, Step(p), sb'[p] # 0 PROVE Done(sb[p])'
<1> USE DEF IInv
<1>0. DataP(p)
  BY DEF Data
<1>1. CASE HoldSuper(p)
  <2>1. pc[p] = "hold" /\ sb'[p] = reg[p] /\ Reader(p) /\ UNCHANGED flags
    BY <1>1 DEF HoldSuper, At, TypeOK, Reader
  <2> QED
    BY <1>0, <2>1 DEF DataP, Done
<1>2. CASE ~HoldSuper(p)
  <2>1. ~RelSuper(p)
    BY DEF RelSuper, TypeOK
  <2>2. sb' = sb
    <3>1. CASE Bget(p)
      BY <3>1 DEF Bget, ScanHit, ScanBusy, ScanNext, ScanSpin, TakeDirty, TakeClean
    <3>2. CASE Bio(p)
      BY <3>2 DEF Bio, AreadHit, AreadMiss, GotValid, GotRead, GotAhead, BwaitSleep, BwaitRead,
         BwaitError, BwaitWrite
    <3>3. CASE Flush(p)
      BY <3>3 DEF Flush, FlushSkip, FlushBusy, FlushDirty, FlushClean, FlushWritten
    <3>4. CASE Use(p)
      BY <1>2, <2>1, <3>4 DEF Use, HoldRead, HoldWrite, HoldBlock, HoldSync, Sync
    <3> QED
      BY <3>1, <3>2, <3>3, <3>4 DEF Step
  <2>3. sb[p] \in Blist /\ Busy(sb[p]) /\ Regs[p] # sb[p]
    BY <2>2 DEF TypeOK, LockInv, Lock, Held, Busy, Blist
  <2>4. Alike(sb[p]) /\ Done(sb[p])
    BY <1>0, <2>1, <2>2, <2>3, UntouchedKeep DEF DataP
  <2> QED
    BY <2>2, <2>4 DEF Alike, DataFlags, Done
<1> QED
  BY <1>1, <1>2

\* What p holds after its step is as its operation needs it.
LEMMA DataStepSelf ==
  ASSUME IInv, PlaceInv, Data, NEW p \in Proc, Step(p) PROVE DataP(p)'
<1> USE DEF IInv
<1>1. ASSUME pc'[p] = "hold", Reader(p)' PROVE Done(reg[p])'
  <2>1. GotValid(p) \/ BwaitRead(p)
    BY <1>1, Arrivals
  <2>2. UNCHANGED <<op, sb, flags>> /\ reg'[p] = reg[p]
    BY <2>1, GotoSelf DEF GotValid, BwaitRead, Goto
  <2>3. Done(reg[p])
    BY <1>1, <2>1, <2>2 DEF GotValid, BwaitRead, Reader, Bread, Valid
  <2> QED
    BY <2>2, <2>3 DEF Done
<1>2. sb'[p] # 0 => Done(sb[p])'
  BY SuperValid
<1>3. ASSUME pc'[p] = "bwait" PROVE ~Done(reg[p])'
  <2>1. CASE TakeDirty(p)
    <3>1. reg'[p] = f /\ "BDONE" \notin flags'[f]
      BY <2>1, TakeDirtyWrites, GotoSelf DEF TakeDirty, WriteOut, Start
    <3> QED
      BY <3>1 DEF Done
  <2>2. CASE GotRead(p)
    <3>1. reg'[p] = reg[p] /\ "BDONE" \notin flags'[reg[p]]
      BY <2>2, GotReads, GotoSelf DEF GotRead, ReadIn, Start
    <3> QED
      BY <3>1 DEF Done
  <2>3. CASE FlushDirty(p)
    <3>1. reg'[p] = reg[p] /\ "BDONE" \notin flags'[reg[p]]
      BY <2>3, FlushDirtyWrites, GotoSelf DEF FlushDirty, WriteOut, Start
    <3> QED
      BY <3>1 DEF Done
  <2>4. CASE BwaitSleep(p)
    <3>1. reg'[p] = reg[p] /\ ~Done(reg[p]) /\ reg[p] \in Blist
      BY <2>4 DEF BwaitSleep, sleep, TypeOK, At, CpuInv, CpuP, Blist
    <3>2. Alike(reg[p])
      BY <2>4, <3>1, QuietKeeps DEF Quiet, Keeps
    <3> QED
      BY <3>1, <3>2 DEF Done, Alike, DataFlags
  <2> QED
    BY <1>3, <2>1, <2>2, <2>3, <2>4, Arrivals
<1> QED
  BY <1>1, <1>2, <1>3 DEF DataP

\* aread reads into a buffer it has just taken over.
LEMMA AheadStepSelf ==
  ASSUME IInv, PlaceInv, Data, NEW p \in Proc, Step(p) PROVE AheadP(p)'
<1> USE DEF IInv
<1> SUFFICES ASSUME InKernel(p)', op'[p] = "ahead"
             PROVE  /\ \A r \in Proc \ {p} : InKernel(r)' => want'[r] # want'[p]
                    /\ pc'[p] \in {"scan", "bwait"} => \A b \in Blist : blkdev'[b] # want'[p]
                    /\ pc'[p] = "got" => ~Dirty(reg[p])'
  BY DEF AheadP
<1>1. op[p] = "ahead" /\ want'[p] = want[p]
  BY StepRegs DEF InKernel
<1>2. AheadP(p) /\ InKernel(p)
  BY StepMoves DEF Data, InKernel
<1>3. \A r \in Proc \ {p} : InKernel(r)' => want'[r] # want'[p]
  <2>1. \A r \in Proc \ {p} : InKernel(r)' => InKernel(r) /\ want'[r] = want[r]
    BY StepRegs DEF OtherRegs, InKernel
  <2> QED
    BY <1>1, <1>2, <2>1 DEF AheadP
<1>4. ASSUME pc'[p] \in {"scan", "bwait"} PROVE \A b \in Blist : blkdev'[b] # want[p]
  <2>1. ~TakeClean(p)
    BY <1>4, GotoSelf DEF TakeClean
  <2>2. ~FlushClean(p) /\ ~FlushWritten(p)
    BY <1>1 DEF FlushClean, FlushWritten, At, CpuInv, CpuP
  <2>3. UNCHANGED blkdev
    BY <2>1, <2>2, StepBlocks
  <2>4. CASE AreadMiss(p)
    BY <2>3, <2>4 DEF AreadMiss
  <2>5. CASE pc[p] \in {"scan", "bwait"}
    BY <1>1, <1>2, <2>3, <2>5 DEF AheadP
  <2>6. AreadMiss(p) \/ pc[p] \in {"scan", "bwait"}
    <3>1. ~AreadHit(p) /\ ~GotAhead(p)
      BY <1>4, ReturnSelf DEF AreadHit, GotAhead
    <3>2. ~GotValid(p) /\ ~GotRead(p)
      BY <1>1 DEF GotValid, GotRead, Bread
    <3>3. CpuP(p)
      BY DEF CpuInv
    <3>4. ~Use(p)
      BY <1>1, <3>3 DEF CpuP, Use, HoldRead, HoldWrite, HoldSuper, HoldBlock, RelSuper, HoldSync, Sync, At
    <3>5. ~Flush(p)
      BY <1>1, <3>3 DEF CpuP, Flush, FlushSkip, FlushBusy, FlushDirty, FlushClean, FlushWritten, At
    <3>6. Bget(p) => pc[p] = "scan"
      BY DEF Bget, ScanHit, ScanBusy, ScanNext, ScanSpin, TakeDirty, TakeClean, At
    <3>7. Bio(p) => AreadMiss(p) \/ pc[p] = "bwait"
      BY <3>1, <3>2 DEF Bio, BwaitSleep, BwaitRead, BwaitError, BwaitWrite, At
    <3> QED
      BY <3>4, <3>5, <3>6, <3>7 DEF Step
  <2> QED
    BY <2>4, <2>5, <2>6
<1>5. ASSUME pc'[p] = "got" PROVE ~Dirty(reg[p])'
  <2>1. ~ScanHit(p)
    BY <1>1, <1>2 DEF ScanHit, At, Target, AheadP
  <2>2. TakeClean(p)
    BY <1>5, <2>1, Arrivals
  <2>3. reg'[p] = f /\ "BDELWRI" \notin flags'[f]
    BY <2>2, TakeCleanRenames, GotoSelf DEF TakeClean, Renamed
  <2> QED
    BY <2>3 DEF Dirty
<1> QED
  BY <1>1, <1>3, <1>4, <1>5

\* A transfer without error.
LEMMA DataTransfer == ASSUME IInv, Data, NEW b \in Blist, Transfer(b) PROVE Data'
<1> USE DEF IInv
<1>1. b \in ioq /\ iodone(b, FALSE) /\ UNCHANGED <<cpu, pc, op, want, reg, sb, blkdev>>
  BY DEF Transfer, procVars
<1>2. /\ \A c \in Blist \ {b} : flags'[c] = flags[c]
      /\ "BDELWRI" \notin flags'[b] /\ "BDONE" \in flags'[b]
  BY <1>1, IodoneFlags
<1>3. Bufs' /\ Kept'
  BY TransferData DEF Data, Bufs
<1>4. ASSUME NEW p \in Proc PROVE DataP(p)' /\ AheadP(p)'
  <2>1. DataP(p) /\ AheadP(p)
    BY DEF Data
  <2>2. pc[p] \in {"got", "hold"} => reg[p] \in Blist \ {b}
    BY <1>1, HeldNotQueued
  <2>3. sb[p] # 0 => sb[p] \in Blist \ {b}
    BY <1>1, FreeNotQueued DEF TypeOK, Blist
  <2>4. pc[p] = "bwait" => reg[p] \in Blist
    BY DEF CpuInv, CpuP, TypeOK, Blist
  <2>5. DataP(p)'
    BY <1>1, <1>2, <2>1, <2>2, <2>3, <2>4 DEF DataP, Done, Dirty, Reader
  <2>6. AheadP(p)'
    BY <1>1, <1>2, <2>1, <2>2 DEF AheadP, Dirty, InKernel
  <2> QED
    BY <2>5, <2>6
<1> QED
  BY <1>3, <1>4 DEF Data, Bufs

\* A new call: without shared blocks, nobody is at the block of a read-ahead.
LEMMA DataCall ==
  ASSUME IInv, Data, ~Shared, NEW p \in Proc, NEW o \in Ops, NEW k \in Block, Call(p, o, k)
  PROVE  Data'
<1> USE DEF IInv
<1>1. /\ pc[p] = "idle" /\ ReadAheadAlone(p, o, k)
      /\ pc' = [pc EXCEPT ![p] = CASE o = "ahead" -> "aread" [] o = "flush" -> "flush" [] OTHER -> "scan"]
      /\ reg' = [reg EXCEPT ![p] = 1] /\ op' = [op EXCEPT ![p] = o] /\ want' = [want EXCEPT ![p] = k]
      /\ UNCHANGED <<blkdev, flags, fresh, ioq, saved, sb>>
  BY DEF Call
<1>2. \A q \in Proc \ {p} : pc'[q] = pc[q] /\ reg'[q] = reg[q] /\ op'[q] = op[q] /\ want'[q] = want[q]
  BY <1>1 DEF TypeOK
<1>3. /\ reg'[p] = 1 /\ op'[p] = o /\ want'[p] = k
      /\ pc'[p] \in {"aread", "flush", "scan"} /\ (o = "ahead" => pc'[p] = "aread")
  BY <1>1 DEF TypeOK
<1>4. Bufs' /\ Kept'
  <2>1. Keeps
    BY <1>1 DEF Keeps, Alike
  <2> QED
    BY <2>1, KeepsData DEF Data, Bufs
<1>5. \A q \in Proc : DataP(q) /\ AheadP(q)
  BY DEF Data
<1>6. sb[p] = 0
  BY <1>1 DEF CpuInv, CpuP
<1>7. DataP(p)' /\ AheadP(p)'
  BY <1>1, <1>2, <1>3, <1>6 DEF DataP, AheadP, InKernel, ReadAheadAlone
<1>8. ASSUME NEW q \in Proc \ {p} PROVE DataP(q)' /\ AheadP(q)'
  <2>1. DataP(q)'
    BY <1>1, <1>2, <1>5 DEF DataP, Done, Dirty, Reader
  <2>2. AheadP(q)'
    BY <1>1, <1>2, <1>3, <1>5 DEF AheadP, Dirty, InKernel, ReadAheadAlone
  <2> QED
    BY <2>1, <2>2
<1> QED
  BY <1>4, <1>7, <1>8 DEF Data, Bufs

\* As long as no transfer fails the data is where it belongs.
LEMMA DataInvariant == ASSUME ~Shared PROVE Spec => []DataInv
<1>1. Init => DataInv
  <2> SUFFICES ASSUME Init PROVE Data
    BY DEF DataInv
  <2>1. \A b \in Blist : BufP(b)
    BY DEF Init, BufP, Done, Writing, Dirty
  <2>2. Kept
    BY DEF Init, Kept
  <2>3. \A p \in Proc : DataP(p) /\ AheadP(p)
    BY DEF Init, DataP, AheadP, InKernel
  <2> QED
    BY <2>1, <2>2, <2>3 DEF Data
<1>2. IInv /\ PlaceInv /\ DataInv /\ [Next]_vars => DataInv'
  <2> SUFFICES ASSUME IInv, PlaceInv, DataInv, [Next]_vars, nerr' = 0 PROVE Data'
    BY DEF DataInv
  <2>1. nerr = 0 /\ ~\E b \in Blist : TransferError(b)
    <3>1. nerr \in Nat
      BY DEF IInv, TypeOK
    <3>2. \A b \in Blist : ~TransferError(b)
      <4>1. nerr' # nerr + 1
        BY <3>1
      <4> QED
        BY <4>1 DEF TransferError
    <3>3. nerr' = nerr
      <4>1. ASSUME NEW p \in Proc, Step(p) PROVE nerr' = nerr
        BY <4>1, StepMoves DEF errVars
      <4>2. ASSUME NEW p \in Proc, NEW o \in Ops, NEW k \in Block, Call(p, o, k) PROVE nerr' = nerr
        BY <4>2 DEF Call, errVars
      <4>3. ASSUME NEW b \in Blist, Transfer(b) PROVE nerr' = nerr
        BY <4>3 DEF Transfer, errVars
      <4>4. CASE UNCHANGED vars
        BY <4>4 DEF vars, errVars
      <4> QED
        BY <3>2, <4>1, <4>2, <4>3, <4>4 DEF Next, Interrupt
    <3> QED
      BY <3>2, <3>3
  <2>2. Data
    BY <2>1 DEF DataInv
  <2>3. ASSUME NEW p \in Proc, Step(p) PROVE Data'
    <3>1. \A q \in Proc : DataP(q)' /\ AheadP(q)'
      BY <2>2, <2>3, DataStepOther, DataStepSelf, AheadStepSelf
    <3> QED
      BY <2>2, <2>3, <3>1, DataStep DEF Data, Bufs
  <2>4. CASE UNCHANGED vars
    <3>1. UNCHANGED <<blkdev, flags, fresh, ioq, saved, pc, op, want, reg, sb>>
      BY <2>4 DEF vars, procVars
    <3>2. Bufs' /\ Kept'
      BY <2>2, <3>1, KeepsData DEF Data, Bufs, Keeps, Alike
    <3>3. \A p \in Proc : DataP(p)' /\ AheadP(p)'
      BY <2>2, <3>1 DEF Data, DataP, AheadP, InKernel, Done, Dirty, Reader
    <3> QED
      BY <3>2, <3>3 DEF Data, Bufs
  <2> QED
    BY <2>1, <2>2, <2>3, <2>4, DataCall, DataTransfer DEF Next, Interrupt
<1> QED
  BY <1>1, <1>2, Inductive, PlaceInvariant, PTL DEF Spec

\* What the last writer of a block wrote is never lost, until a transfer fails,
\* if no two processes are at a block one of them reads ahead to: it is in every
\* valid buffer, and on the medium or on its way (uio.c:48-56, 100-121, 299-315).
THEOREM WritesAreNotLost ==
  ASSUME ~Shared
  PROVE  Spec => []NothingLost
<1>1. IInv /\ DataInv => NothingLost
  <2> SUFFICES ASSUME IInv, DataInv, nerr = 0, NEW k \in Block
               PROVE  LET live == {b \in Blist : blkdev[b] = k /\ (Done(b)
                                          \/ (b \in ioq /\ "BREAD" \notin flags[b]))}
                      IN /\ live \subseteq fresh
                         /\ k \notin saved => \E b \in live : b \in ioq \/ Dirty(b)
    BY DEF NothingLost
  <2>1. Bufs /\ Kept
    BY DEF DataInv, Data, Bufs
  <2> QED
    BY <2>1 DEF Bufs, BufP, Kept, Writing
<1> QED
  BY <1>1, Inductive, DataInvariant, PTL

\* The last step of bflush.
LEMMA FlushReturns ==
  ASSUME IInv, PlaceInv, [Next]_vars, NEW p \in Proc, op[p] = "flush", pc[p] # "idle", pc'[p] = "idle"
  PROVE  \A b \in Blist : blkdev'[b] # NoBlock => DevOf[blkdev'[b]] # DevOf[want[p]]
<1> USE DEF IInv
<1>1. Step(p)
  <2>1. \A q \in Proc : Step(q) => q = p
    <3>1. ASSUME NEW q \in Proc, Step(q), q # p PROVE FALSE
      <4>1. pc'[p] = pc[p]
        BY <3>1, StepRegs DEF OtherRegs
      <4> QED
        BY <4>1
    <3> QED
      BY <3>1
  <2>2. ASSUME NEW q \in Proc, NEW o \in Ops, NEW k \in Block, Call(q, o, k) PROVE FALSE
    <3>1. pc[q] = "idle" /\ \E l : l # "idle" /\ pc' = [pc EXCEPT ![q] = l]
      BY <2>2 DEF Call
    <3> QED
      BY <3>1 DEF TypeOK
  <2>3. ~Interrupt /\ ~UNCHANGED vars
    BY DEF Interrupt, Transfer, TransferError, procVars, vars
  <2> QED
    BY <2>1, <2>2, <2>3 DEF Next
<1>2. FlushSkip(p) \/ FlushClean(p) \/ FlushWritten(p)
  <2>1. FlushDirty(p) => pc'[p] = "bwait"
    BY GotoSelf DEF FlushDirty
  <2>2. FlushBusy(p) \/ BwaitSleep(p) => pc'[p] = pc[p]
    BY DEF FlushBusy, BwaitSleep, sleep
  <2> QED
    BY <1>1, <2>1, <2>2, FlushStays
<1>3. Advance(p)
  BY <1>2 DEF FlushSkip, FlushClean, FlushWritten
<1>4. reg[p] >= NBUF /\ reg[p] \in Blist
  <2>1. reg[p] >= NBUF
    BY <1>3, AdvanceTo
  <2> QED
    BY <2>1, ConstAssumption DEF TypeOK, Blist
<1>5. \A b \in Blist : b # reg[p] => b < reg[p]
  BY <1>4, ConstAssumption DEF Blist
<1>6. FlushP(p) /\ InKernel(p)
  BY DEF PlaceInv, InKernel
<1>7. \A b \in Blist \ {reg[p]} : blkdev[b] # NoBlock => DevOf[blkdev[b]] # DevOf[want[p]]
  BY <1>5, <1>6 DEF FlushP, OnDev
<1>8. CASE FlushSkip(p)
  <2>1. UNCHANGED blkdev /\ ~Flushed(p)
    BY <1>8 DEF FlushSkip
  <2> QED
    BY <1>7, <2>1 DEF Flushed
<1>9. CASE FlushClean(p) \/ FlushWritten(p)
  BY <1>7, <1>9, FlushZeroes DEF Renamed, Only
<1> QED
  BY <1>2, <1>8, <1>9

\* When bflush returns, no block of the device is cached and, if no transfer
\* fails, all that was written is on the medium: while bflush sleeps no other
\* process brings a block of the device in again (uio.c:362-378, open.c:172-186).
THEOREM FlushIsComplete ==
  ASSUME ~Shared, MaxErrors = 0
  PROVE  Spec => FlushLeavesNothing
<1>1. ASSUME IInv, PlaceInv, DataInv', TypeOK', [Next]_vars,
             NEW p \in Proc, op[p] = "flush", pc[p] # "idle", pc'[p] = "idle",
             NEW k \in Block, DevOf[k] = DevOf[want[p]]
      PROVE  (\A b \in Blist : blkdev'[b] # k) /\ k \in saved' \cup bad
  <2>1. \A b \in Blist : blkdev'[b] # k
    BY <1>1, FlushReturns, ConstAssumption
  <2>2. nerr' = 0
    BY <1>1 DEF TypeOK
  <2>3. Kept'
    BY <1>1, <2>2 DEF DataInv, Data
  <2>4. k \in saved'
    BY <2>1, <2>3 DEF Kept
  <2> QED
    BY <2>1, <2>4
<1>2. IInv /\ PlaceInv /\ DataInv' /\ TypeOK' /\ [Next]_vars
      => [\A p \in Proc : op[p] = "flush" /\ pc[p] # "idle" /\ pc'[p] = "idle" =>
            \A k \in Block : DevOf[k] = DevOf[want[p]] =>
              /\ \A b \in Blist : blkdev'[b] # k
              /\ k \in saved' \cup bad]_vars
  BY <1>1
<1> QED
  BY <1>2, Inductive, TypeCorrect, PlaceInvariant, DataInvariant, PTL DEF Spec, FlushLeavesNothing
=============================================================================
