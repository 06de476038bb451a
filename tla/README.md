# A verification of the Micronix kernel

Micronix is the UNIX-like system Morrow Designs wrote for the Z80 Decision 1;
`src/src/micronix/sys` holds the recovered 1.61 kernel, about 9400 lines of C.
This directory models its concurrent core in TLA+, checks it with TLC on small
instances and proves with TLAPS, for every size, all the invariants the runs check and
that the two lower layers, disk driver and swap map, implement what the upper ones use.

What makes the kernel hard is the same everywhere in it:

- A process inside the kernel keeps the cpu until it calls `sleep()` or returns
  to user mode (`sleep.c`, `trap.c`). Everything it looked at before a sleep may
  be different after it.
- Interrupts come in between any two instructions unless `di()` forbids them, and
  call `iodone`, `wakeup`, `run`, `send`.
- `wakeup` is a broadcast that reserves nothing; `sleep` remembers no wakeup that
  came too early.

## Inventory

| component | source | state | operations | hard because |
|---|---|---|---|---|
| buffer cache | `uio.c`, `include/sys/buf.h` | `blist[]` with flags, block, reference time; `btime`'s counter; device queues | `bget`, `bread`, `aread`, `bwrite`, `bawrite`, `bdwrite`, `brelse`, `iodone`, `bflush`, `bsync` | sleeps inside the search; completions by interrupt; error flags that outlive a transfer |
| blocks of a file system | `balloc.c`, `imap.c`, `fio.c` | free list in the superblock, block maps | `balloc`, `bfree`, `imap`, `iread`, `iwrite` | two buffers held at once; early returns |
| scheduler | `sleep.c`, `trap.c` | `p->mode`, `p->event`, `p->pri`, `resched` | `sleep`, `wakeup`, `run`, `next`, `sched` | wakeups from interrupts |
| swapper | `swap.c` | `memwant`, `swapping`, the swap buffers and their lock | `swap`, `findin`, `findout`, `swapout`, `swapin`, `swapio` | test-then-sleep against interrupts; errors half-way |
| core | `malloc.c` | `nsegs`, `segmap`, `p->mem`, `p->nsegs` | `grow`, `mget`, `mfree`, `mrelse`, `mwake` | sleeping for memory; being swapped meanwhile |
| swap map | `malloc.c` | `swapmap[]` | `swapinit`, `salloc`, `sfree` | order, joining, a table of fixed size |
| processes | `fork.c`, `exec.c`, `sig.c` | `plist[]`, ids, parents, one pending signal | `fork`, `exec`, `exit`, `wait`, `send`, `sig`, `abort` | forking without core; signals that abort system calls |
| time | `time.c` | `seconds`, residency times, five timeouts | `clock`, `timein`, `timeout` | runs in an interrupt; slots run out |
| in-core inodes | `iget.c`, `ialloc.c`, `open.c`, `mount.c` | `ilist[]` with lock, count, mount | `iget`, `ilock`, `irelse`, `idec`, `iclose`, `tmount` | sleeps between the choice of a slot and its use |
| pipes | `rdwri.c`, `open.c` | write pointer and count in the inode, read pointer in the file | `pread`, `pwrite`, `close` | sleeping on the inode while others lock it; both pointers start over |
| names | `name.c`, `create.c`, `link.c`, `access.c` | none of their own | `iname`, `creat`, `link`, `unlink` | locks taken along a path |
| terminals | `tty.c`, `queue.c`, `multio.c` | `clist` and its free list, raw, cooked and output queues, `nbreak`, flags | `ttyin`, `ttyout`, `cookin`, `ttywrite`, `outwait`, `getc`, `putc` | shared between interrupt and process; water marks and start/stop |
| disk drivers | `mw.c`, `dj.c` | request queues, `mwstate`, retries, watchdog, the bus and its heir | `mwstrat`, `mwint`, `mwcheck`, `busget`, `busgive` | a timeout racing a late interrupt; two drivers that hand over the bus |

How they interact: system calls go through `iread`/`iwrite`/`balloc` to the cache,
the cache to the drivers' strategy routines, the drivers back with `iodone` and
`wakeup`. `fork`, `exec`, `exit` and faults change `nsegs`; who finds none sets
`memwant` and sleeps on `&mfree`, on which the swapper sleeps too. The swapper
takes swap space from the swap map and moves images through the drivers. The
clock ages processes and restarts the swapper.

What each has to guarantee: the cache, that a block has one buffer, a buffer one
owner and a write reaches the disk; the inodes, the same for inodes, and that
counts equal references; a pipe, that the bytes come out in order and both ends
learn of each other's end; a terminal, that nobody sleeps on input that is there or
on output that goes nowhere; the hard-disk driver, that each request is answered
once, with the data of its own drive; the swapper, that core is neither lost nor
given twice.

`PROJECT.json` lists every component with its status, and the hazards, each at
its line, with the properties that cover it.

## Modules

| module | what it is |
|---|---|
| `Buf` | the buffer cache, its callers and the disk |
| `BufProofs` | proofs about `Buf`: the lock, the names and the search |
| `BufDataProofs` | proofs about `Buf`: the superblock, the data, what `bsync` and `bflush` promise |
| `Disk` | what a disk driver promises the cache |
| `Mw` | the hard-disk driver and the bus, shown to implement `Disk` |
| `Inode` | in-core inodes, walks along path names, open, creat, unlink, sync |
| `Pipe` | a pipe, on its in-core inode |
| `Tty` | terminal input and output, the queues, the terminal's signal |
| `SwapSpace` | what the swap-space allocator promises |
| `SwapMap` | the swap map, shown to implement `SwapSpace` |
| `Swap` | swapper, core, scheduler, fork, exec, exit and clock, composed with `SwapSpace` |
| `MwProofs`, `InodeProofs`, `PipeProofs`, `TtyProofs`, `SwapMapProofs`, `SwapProofs` | proofs about the module each is named after |
| `MCBuf`, `MCInode`, `MCMw`, `MCPipe`, `MCSwap`, `MCSwapMap`, `MCTty` | their instances for TLC |

In every module an operator defined just before the one it imitates, with a comment
"Mutant of ...", is a plausible bug; substituting it must break a property.

The modules share one way to model the kernel. `pc` holds the place of the code
where a process is; `cpu` is the process inside the kernel that is not asleep: only
it takes steps, and another goes on when it sleeps or returns, as `sched()` does. A
system call starts whenever the cpu is free, also while processes woken in the kernel
are ready there: `next()` clears `resched` (`sleep.c:102`), and `trap()` calls it only
if that is set (`trap.c:186`), so that the first of two sleepers woken together may return
to user mode and call again before the second has run. Which of the ready processes goes
on is left open; priorities are not modelled.
Where an interrupt routine shares the state (`Buf`, `Tty`, `Mw`, `Swap`) the code is
cut wherever that routine may come in with interrupts enabled; where none does
(`Inode`, `Pipe`), only where it sleeps.

### Buf

Code between two places is one step when an interrupt cannot tell: it is `di()`'ed,
or concerns one buffer that the process holds. `bget`'s scan is *not* one step: it
goes buffer by buffer (`ScanHit`, `ScanBusy`, `ScanNext`), since `iodone` may
release one behind it or before it. `Transfer` and `TransferError` are the disk.

The data of a block is abstracted to whether it is the newest: `fresh` is the set of
buffers, `saved` the set of blocks on the medium, that hold what was last written.
The operations stand for the users of the cache: `read`, `update` (part of a block),
`fill` (a whole one, `bget` without a read), `ahead`, `alloc` and `chain` (`balloc`
and `bfree` with one or two further buffers, the superblock in hand), `sync`,
`flush` (last close of a device). Sequences longer than one operation are sequences
of calls. `iclose` flushes under the inode lock (its comment says nobody else can
be at the device); that is a guard of `Call`. `Shared` says whether a block that one
process reads ahead may be written by another at the time. It may, in the code:
`rdwri` locks only pipes and directories (`rdwri.c:70-73`). The runs leave it FALSE
and so speak of files that one process uses at a time. The theorems about the lock, the
names and the superblock hold for both; those about the data are for `Shared` FALSE,
without which they are wrong (see below).
The root is mounted read-write.

### Disk and Mw

`Disk` is a set of requests, each answered once, with "ok" only if every sector of it
was transferred. `Mw` has the driver's queue in the order `bsort` gives it, the
command that is under way and `lo`, the routine of the lower half to be entered next:
`rwint`, `advque`, `newdrv` and `newrw` call each other in tail position, so a step
is one routine. The controller completes a command with success or an error
(`Complete`) or never; `mwcheck` is the watchdog. Retries count down in a `UINT8`,
and each drive has its `CALIB` and `RECAL`. The floppy driver is there with its queue,
its command and `inservice`, as far as it takes part in `busget` and `busgive`. The
refinement mapping takes the requests in the queue as those outstanding and `moved`,
the sectors transferred since `newrw`, as the progress of its head.

### Inode

A slot of `ilist[]` has an inode number, `IBUSY`, `IWANT`, `IMOD` and a count modulo
`CountMod`. A walk goes name by name as `iname` does, with the parent kept for
`creat`; `iget` can find the inode, cross the mount point, take a free slot and sleep
in `bread`, fail, or find the table full. The directory data is one entry, `New`,
that comes and goes; the other names stand for the inode they name. `Next` and
`Spec` leave out two things the code does wrong, `FullNext` and `FullSpec` add them:
the sleep in `iio(IWRITE)` before `iget` has marked its slot, and `unlink`. Otherwise
nothing could be said of the rest of the code. An inode that `ialloc` takes is really
free, so its retry (`ialloc.c:60-67`) does not occur. The write of the new directory
entry may fail (`Linked`), and then the inode has been made without a name.

A read error zeroes a slot although others wait for it (`iget.c:60`). `hurt` notes
it, and the properties are stated up to there.

### Pipe

The bytes are numbered as they are written, modulo `ByteMod`; `data` is what the file
holds, `size` the write pointer, `rwptr` the read pointer. `iread` and `iwrite` sleep
with the inode locked, and may stop half-way on an i/o error, on which `pwrite` breaks
off (`rdwri.c:106`). Reader and writer sleep on the inode with `IWANT` set, so that
a process that releases the lock wakes those that wait for the other end too.
`Signal` ends a sleep on the pipe the way `abort` does. A process of `Signalled` may
be signalled.

### Tty

A queue is its characters and how much of its first cblock has been used up; that
determines the cblocks it holds (`Blocks`) and so the length of the free list.
`ttyin` and `ttyout` are the interrupts. `cookin` is cut at each call of `getc`,
`putc` and `sleep`; in particular the break leaves the queue in one step and `nbreak`
in a later one, with interrupts enabled in between. Characters are breaks or not.
A framing error (`ttyerror`) makes the next read fail and empty the raw queue, but not
`nbreak` (`ttyreadError`). RUB sends the signal to processes with this controlling
terminal, those of `Heed`, any of which may ignore it at the time; who takes it drains the
queues (`sig`) and, interrupts having come in between, resets `nbreak` and starts the
output (`sigDone`). The other terminals are one number, `others`, the cblocks they hold
of the shared list; it changes to any value of `Others` the free list allows.

`missed` is an auxiliary variable. It is set where the code itself loses a break that is
in the queue, or may come to be: when one comes in between the two halves of a drain, when `nbreak` wraps,
and when the queue overflows between the two halves of taking a break. It is reset when
the raw queue is emptied as a whole, or `cookin` finds it empty.

### SwapMap and SwapSpace

`map` is `swapmap[]` without its end mark. `salloc` and `sfree` are the two
operations; `lshift`, `rshift` and the joining loop are expressed on sequences.
`peak` remembers the most entries the array has had to hold. The refinement mapping
sends the map to the set of blocks it covers, and an image to its run.

### Swap

Processes are indices of `plist`, 0 the swapper: `findout` depends on the order.
`seg` is the number of segments a process really has, `size` the `p->nsegs` it
counts; the two differ while it sleeps in `grow`. Steps of processes go from one
sleep to the next. The swapper's code is cut at its sleeps and also between
`findin`, `swapping = 0` and `sleep()`, where an interrupt (`Wake`, `clock`) is not
harmless; while it is there no process runs (`Yielded`). A process that waits for
the swap lock or for swap i/o loops on its condition in the code, so it is simply
enabled when the condition holds. `findin`'s choice among processes whose time has
reached `MINRUN` is open, since times are counted only up to there. A process's
other sleeps (disk, terminal, wait, the exec lock) are `SleepIo` and end at any
time. `wait` and the part of `exit` that frees dead children are `Reap`. `exec` is
that of a file that can be executed: the others change nothing here, and a read
error in `readin` only sends a signal.

### How the modules fit together

`Buf`'s `Transfer` is what `Disk` promises and `Mw` keeps. `Inode` and `Pipe` sleep in
`bread` where `Buf` says that calls return. `Pipe` has the lock of `Inode` on one
inode. `Swap` uses `SwapSpace`, which `SwapMap` implements.

## Runs

| run | instance | what it shows |
|---|---|---|
| `buf_device` | 2 processes, 3 buffers, 3 blocks; update, alloc, sync, flush; fair | one buffer per block, no lost write, what holds when `bflush` and `bsync` return, and that every call returns |
| `buf_errors` | 2 processes, 2 buffers, 3 blocks, one failed transfer, all eight operations | the lock, the sleepers, the ignored result of `block`, the superblock and the data, on the error paths too |
| `buf_stale_error` (violation) | 2 processes, 3 buffers; read and fill; one failed transfer | after a failed transfer, a fill leaves the block dirty with `BERROR` still set, and `bread` discards it |
| `inode` | 3 processes, 4 slots, 5 inodes, a mount point, one failed transfer; fair | locks, counts, one copy per inode, names made once, lock waiters woken |
| `inode_twice` (violation) | 2 processes, a modified slot | `iget` brings an inode in twice |
| `inode_unlink` (violation) | 3 processes: open, creat, unlink | an open file whose inode is free |
| `pipe` | 1 reader, 2 writers of a pipe of 2 bytes, requests of up to 3, i/o errors; fair | bytes in order, lock, freeing, and that reads return |
| `mw` | 4 requests, 2 drives, the floppy on the bus, 4 retries; fair | the driver implements `Disk`; bus, drives and requests are kept apart; the head is answered |
| `tty` | 2 processes, queues of 2 characters, 9 cblocks of which other terminals hold none or 8, both modes; fair | no reader sleeps on a line that was not `missed`, output goes on, calls return |
| `swapmap` | 3 images of 1 to 3 units, area of 8 | the map stays in order and implements the allocator |
| `swap_core` | 3 processes of 1 or 2 segments, 3 segments of core, swap area of 3, `MINRUN` 0 | core is conserved, every process is in one place |
| `swap_errors` | 2 processes of up to 3 segments, 3 segments of core, swap area of 3, i/o errors, `MINRUN` 1; fair | the same after swap errors, and that memory sleepers are woken |

`TypeOK` is an invariant of `buf_errors` and `tty`; in the other modules it is kept as
the description of the state and was checked with the same instances.

**Bounds.** *Buf:* with three buffers one of which is locked in core, two processes
with an asynchronous request each already meet every pair of situations: a scan over
a busy, a free, a dirty and a locked buffer, and a candidate that is written out. With
two buffers (`buf_errors`) there is one to recycle, so that processes also loop in
`bget` without a buffer. `buf_errors` lets the system stop, since `getsb` panics when
the superblock cannot be read. `TimeMod` is 2 in `buf_device`: the reference counter
recycles all the time, and decides between two buffers; in `buf_errors`, with one buffer
to choose from, it decides nothing and is 1. *Inode:* a walk holds at most the directory it is in and its parent; with five
inodes in four slots, two of which the root and the mount point keep, slots are
recycled and run out. One process walks across the mount point and two create the
same name while the third syncs. It may stop when an error has hurt a slot.
`CountMod` is above the most references there can be, as 256 is for `NPROC` and
`NFILE` of the code. *Pipe:* a request of three does not fit, so writers sleep in the
middle of one; two writers meet at the lock. It may stop when all is closed.
`ByteMod` is larger than the pipe, so that a lost or repeated byte shows. *Mw:* two
requests on one drive and one on another give every order of the queue and a change of
drives; the one of two sectors is continued by `rwintNext`; one is beyond the end.
Four tries (10 in the code, recalibration at half) pass through recalibration and
failure. *Tty:* `TTYHOG` 2 and `LOWATER` 0 make every queue fill and drain, `BSIZE` 1
gives a cblock to each character. Nine cblocks are what three queues may hold; when the
other terminals have eight of them, there is one left to fight for. `BreakMod` 4 lets
`nbreak` wrap after a few breaks that were dropped or discarded. *SwapMap:* sizes 1 to 3 produce
free runs of every size between images. *Swap:* three segments hold an image of two and
leave one that is not enough for another, so that growing, forking and swapping in all
fail at times; three processes are needed for a fork to disk to meet the swapper at the
swap lock, two are enough for the rest.

**Fairness.** A process that can take a step inside the kernel eventually does: `next()`
looks for the next process in table order, so none that is ready is passed over for ever.
This is weak fairness of each process where it stays enabled (`Buf`, `Swap`), strong in
`Inode` and `Pipe`, where other processes ready in the kernel take the cpu in turns; in
`Tty` it is enough that *some* process in the kernel goes on. The disk completes each
request it was given, swap i/o ends, the clock ticks, the terminal takes what is sent to
it. The hard-disk controller of `Mw` is *not* assumed to answer the commands it is issued:
the watchdog is. The commands `mwwait` polls for (`mw.c:507-514`) it *is* assumed to finish: there
the code loops until it does. Nothing is assumed of processes in user mode, of people who type, or of
other sleeps.

Three liveness properties have a premise. `CallsReturn`, of `Buf` and of `Tty`, is stated for
behaviours in which from some point on no new calls arrive (of `Tty`: nor characters or
signals): `wakeup` being a broadcast, a waiter may otherwise find its buffer, or the
queue, taken each time. That of `Tty` also takes the other terminals to leave cblocks
enough in the end, since `ttywrite` goes round without sleeping while its empty queue
gets none (`tty.c:46-54`). `ReadReturns` takes writes not to fail for ever: a writer whose
`iwrite` always fails never fills the pipe, and may lock it again each time before the
reader it has woken runs.

## Proofs

Every invariant of a passing run, the two action properties of `Buf` and both refinements
are theorems: what TLC shows on a small instance holds for any set of processes, any
number of buffers, slots, segments, requests or drives, any sizes and any number of
errors, from the assumption on the constants that the module states, and from the
hypotheses given here. The hypotheses are not for convenience: dropping any of them, the
property is false, and the table under "What the checks found" says how TLC shows it.

Each module is laid out the same way: the inductive invariant first, then what the
operators and the kinds of step do, one lemma per conjunct (or per action) that a step
preserves it, and the theorems last. The invariants were checked with TLC before they
were proved.

| theorem | states | for |
|---|---|---|
| `BufProofs!TypeCorrect`, `NoAliases`, `BusyIsALock`, `EverySleeperIsWoken`, `BlockNeverFails` | `TypeOK`, `OneBufferPerBlock`, `BusyHasOneOwner`, `NoLostWakeup`, `CandidateStaysFree` | any instance |
| `BufDataProofs!SuperStaysInCore`, `SyncIsComplete` | `SuperBlockInCore`, `SyncStartsAll` | any instance |
| `BufDataProofs!WritesAreNotLost` | `NothingLost` | `~Shared` |
| `BufDataProofs!FlushIsComplete` | `FlushLeavesNothing` | `~Shared`, `MaxErrors = 0` |
| `MwProofs!TypeCorrect`, `BusIsExclusive`, `DriveIsRight` | `TypeOK`, `BusExclusive`, `RightDrive` | any instance |
| `MwProofs!NoneForgotten` | `NotForgotten` | `~Prompt` |
| `MwProofs!DriverIsDisk` | `Implements`: `Mw` implements `Disk` | any instance |
| `InodeProofs!TypeCorrect`, `LockHasOneOwner`, `OneCopy`, `InodeIsRight`, `CountIsExact`, `WakeupIsNotLost`, `NameIsMadeOnce` | `TypeOK`, `OneOwner`, `OneCopyPerInode`, `RightInode`, `CountsExact`, `NoLostWakeup`, `NameMadeOnce` | `Spec`, not `FullSpec` |
| `PipeProofs!TypeCorrect`, `LockIsSafe`, `FreeIsSafe` | `TypeOK`, `LockSafe`, `FreedWhenUnused` | any instance |
| `PipeProofs!BytesInOrder` | `PipeInOrder` | one reader, not signalled; any writers |
| `TtyProofs!TypeCorrect`, `WriterIsWoken`, `ReaderIsWoken` | `TypeOK`, `OutputGoesOn`, `ReaderNotStranded` | any instance |
| `SwapMapProofs!MapIsInOrder` | `MapInOrder` | any instance |
| `SwapMapProofs!MapIsSpace` | `Implements`: `SwapMap` implements `SwapSpace` | any instance |
| `SwapProofs!TypeCorrect`, `CoreIsConserved`, `OnePlace`, `SleeperIsKnown` | `TypeOK`, `CoreConserved`, `InOnePlace`, `SleeperWantsMemory` | any instance |

### BufProofs

None of the properties is inductive by itself. The invariant `IInv` adds

- `CpuInv`: at most one process inside the kernel is awake and between two steps of
  a scan, and what its registers hold fits its place in the code;
- `ScanInv`: the buffers a scan has passed do not hold the wanted block, and its
  candidate is free. This needs `CpuInv`: while a process scans, only interrupts
  happen, and they only *release* buffers;
- `LockInv`: each buffer held or queued is busy, a busy one has an owner, a queued
  one that is waited for is `BSYNC`, and a sleeper's buffer is busy and wanted. It is
  stated as an operator `Lock` of the registers, events, flags and queue, and there
  is one lemma per *kind* of step (lock, start, hand over, release, complete), so
  that the forty actions are thirteen arguments;
- `NamedInv`: locked and queued buffers have a block.

`OneBufferPerBlock` then follows because a buffer is renamed only at the end of a
scan that passed all buffers without finding the block.

### BufDataProofs

Two invariants on top of `IInv`. `PlaceInv` holds whatever fails: the superblock is in the
first buffer, locked in core; nobody else is at a device that is being flushed; the loops
of `bflush` and `bsync` have left nothing, or only busy buffers, behind. `DataInv` holds
until a transfer fails: a buffer that is valid, or that is being written, is the newest; a
dirty one is valid or on its way; what is not on the medium is in such a buffer (`Kept`);
who holds a buffer to read it or to change a part of it has it valid; and between
`aread`'s look at the cache and its `bget` nobody else brings the block in (`AheadP`).
The last is where `~Shared` is needed. All actions but ten keep blocks and data
(`Keeps`); those ten write out, read in, rename or store (`WriteOut`, `ReadIn`, `Renamed`,
`Stored`), and the invariant is proved for these four effects.

`FlushIsComplete` takes `MaxErrors = 0`, since a write that failed is given up and a stale
`BERROR` loses one (the run `buf_stale_error`). Its first half, that no block of the
device is cached when `bflush` returns, is the lemma `FlushReturns` and needs neither
hypothesis.

### MwProofs

`LowerInv` (the lower half runs only in an interrupt, and with a request), `BusInv` (who
has the bus and who inherits it), `DriveInv` (a read or write is for the selected drive),
no request twice in the queue, and `MovedInv`, which says for each place of the lower half
which sectors of the head have been transferred. `MovedInv` is what the refinement needs:
when `advque` answers without an error, all of them have been. What `bsort` does is
stated by `Inserted`: the queue with one request more, behind its head. `NotForgotten`
needs `ServiceInv` too, that `djint` is not called while it is in service, which is
`~Prompt`.

### InodeProofs

`PlaceInv` says what the registers of a walk hold at each of its places, `OwnerInv` who has
which lock, `SlotInv` that root and mount point stay in their slots and no inode is in
two, `DiskInv` and `NumInv` that what a process is looking for, or has found, is an inode that
is known, which is one with a name or one whose name could not be written, or the one it
has made and nobody else knows. `FreshInv`: nobody uses a slot
into which an inode is being read. The count of a slot is a sum of cardinalities; each
step is shown to change one process's references to one slot by one, and the count with
it (`Stays`, `Adds`, `Drops`), which also needs that the `UINT8` does not wrap:
`CountMod > 3 * Cardinality(Proc) + 1`. `NameMadeOnce` rests on a process that makes a name
coming back to a directory that is not locked, with the cpu.

The theorems are about `Spec`. In `FullSpec` the sleep in `iio(IWRITE)` brings an inode in
twice, and `unlink` frees one that is open, as two runs show. A read error that zeroes a slot others wait for ends
what is claimed, as in the properties (`hurt`).

### PipeProofs

`PlaceInv` says which end a process has where it is and that `iread` has something to read,
`CloseInv` that whoever closes last is alone, `CountInv` that the references are the open
ends and those who wait in `ilock`. For the order of bytes `OrderInv` gives the file a
number `b` of the byte at its start: every byte of it is numbered from there, and the
reader has got as many as its position says. When the reader has caught up, both
pointers start over and `b` moves on. A reader that is interrupted after that leaves its old
position in the file, and of two readers one may go on from a position the other has
passed: hence one reader that is not signalled.

### TtyProofs

The queues hold their characters in `Ceil`-many cblocks and never more than there are
(`QInv`); registers and cpu (`RegInv`, `CpuInv`) give type correctness, a property of the run
since `nbreak` and the free list may wrap. `OutInv` adds that a sleeping writer has
`HOSLEEP` set, stopped or not. For input, `BreakInv`: unless a break was `missed`, `nbreak` is
*at least* the number of breaks in the raw queue, and one more while a process is between
the two halves of taking one. An equation would be wrong: read errors and breaks dropped
for want of a cblock leave `nbreak` too high, which costs a reader a look at an empty
queue but not its sleep. So the theorem needs nothing of the sizes of queues, of the clist or
of `nbreak`, and nothing of the other terminals.

### SwapMapProofs

The map is a sequence of runs, in order and none empty, that covers only blocks of the
area, and the images' blocks are theirs alone and not free. What `InsertAt`, `RemoveAt` and the
joining of neighbours do is stated by the blocks the map covers (`Cov`), so that no
induction over the sequence is needed.

### SwapProofs

`PlaceInv` has one part for each place an image can be: in core, on disk, on the way out, on
the way in, or being written by the parent of a new process (`LoadedP`, `SwappedP`, `OutP`,
`InP`, `KidP`), says that there is no other until a swap error (`AliveP`), and that a dead
process has nothing. `p->swap` is what tells `grow` whether the segment it was waiting for has
come with the rest of the image. With this each step adds to `InUse` what it takes from
`nsegs`.

The proof found a mistake in the model's `InOnePlace`, not in the code: it allowed a
process in core to lack one segment, while it waits in `grow`. A process that a swap error
killed goes on in the kernel until it returns, and `grow` may be called for it again
(`malloc.c:235-238`), so that it can lack several. The property now says so, and
`swap_errors` has images of three segments so that the case happens.

### Only model-checked

- Liveness: `CallsReturn` of `Buf` and `Tty`, `LockWaiterWoken`, `ReadReturns`, `ClosedIsFreed`,
  `HeadAnswered`, `MemorySleeperWakes`. Fairness and `ENABLED` are outside the prover's reach.
- What the violation runs refute, and the other properties in the table below, which the
  code does not have.

## What the checks found

Three disagreements, each a violation run and a finding in `PROJECT.json`: `BERROR`, left
by a failed transfer, surviving `bdwrite` (`uio.c:172-177`), `iget`'s sleep before it marks its slot
(`iget.c:52`), and `unlink`'s release of an inode it then sleeps on (`link.c:91`).

Further ones are reproduced by changing a constant of a cfg or adding a property the
module defines to it:

| module | change | what then fails, and why |
|---|---|---|
| `Buf` | `Shared = TRUE`, operations `update` and `ahead` | `WriteOutBeforeUsing`: `aread`'s look at the cache is out of date after `bget` has slept (`uio.c:113-117`). With a third buffer in `buf_errors` `NothingLost` fails for the same reason, and `FlushLeavesNothing` in `buf_device` with `flush` added |
| `Buf` | `buf_device` with 2 buffers, `MaxErrors = 1`, operations `read`, `update`, `fill` and `flush` | `FlushLeavesNothing`: a stale `BERROR` again, here left by the failed read of another block in the buffer that `bget` recycles (`uio.c:55`) |
| `Swap` | `NPROC = 2`, `Segs = 3`, `MINRUN = 1`, `SwapSize = 5`, `IoErrors = FALSE` | `SwapperWillSee`: the swapper sleeps past a process that was set running between its test and its sleep (`swap.c:41-52`). The clock runs the swapper only every four seconds, and only if `memwant` is set (`time.c:49`); here it is not, and the process stays on disk until something else runs the swapper |
| `SwapMap` | `MapSize` = processes + 2 | `MapFits`: `sfree` does not join upwards, and the array overflows (`malloc.c:378-383`) |
| `Pipe` | `Signalled = {r}` | `PipeInOrder`: an interrupted read leaves `size` 0 and the old offset (`rdwri.c:68`) |
| `Pipe` | `Readers = {r, r2}`, one writer, no signals | `PipeInOrder`: two readers take the offset of the file they share before either has the lock, and read the same bytes (`rdwri.c:68`) |
| `Pipe` | `Signalled = {}` | `WriterNotStranded`: the reader closes while a writer sleeps inside `iwrite`; when that has filled the pipe the writer sleeps on it without another look at `count`, and the wakeup of `fclose` is over (`rdwri.c:99`) |
| `Mw` | `Prompt = TRUE` | `NotForgotten`: `busgive` calls the heir while `djint` is still in service; if the controller answers before it returns, the call of `djint` is ignored (`dj.c:610`) |
| `Mw` | | `RetriesBounded`: a drive that goes away keeps `RECAL`, and `retry` wraps (`mw.c:312`, `mw.c:369`) |
| `Tty` | `Modes = {"cooked"}` | `NoLineWaits`, which is `ReaderNotStranded` without the exception for `missed`: a newline comes in between the drain of the raw queue and `nbreak = 0` (`queue.c:67-72`), and the next reader sleeps on it |
| `Tty` | the same, `Heed = {}` | `NoLineWaits`: breaks dropped for want of a cblock (`queue.c:272`) are counted, and the `UINT8` wraps to 0 with a line in the queue |
| `Tty` | the same, `Others = {0}` too | `NoLineWaits`: a read error empties the raw queue and leaves `nbreak` (`tty.c:66-71`), which then wraps to 0 with a line in the queue |
| `Tty` | the same, `BreakMod = 16` too | `NoLineWaits`: the raw queue overflows and is emptied between the two halves of taking a break, and the break that comes next is taken off `nbreak` for the old one (`tty.c:193-195`) |
| `Tty` | | `NoSignalSleeper`: `sleep` does not look for a signal that came before it (`sleep.c:71`, against the comment at `sig.c:189`) |

Seen on reading, without a property: `findout` never compares residency times
(`swap.c:93`, precedence of `&` and `==`); a swap error leaks swap space and can cost a
segment of core (`swap.c:111`, `malloc.c:209-217`); `ttywrite` goes round without sleeping while other
terminals hold all cblocks (`tty.c:46-54`); being woken for memory does not
mean getting it (`malloc.c:204`, `swap.c:36-46`); a reader sleeps although `cokque` has
input left by another (`tty.c:80`); `istat` returns on a bad address with the inode
locked (`sys2.c:52`); `balloc` returns with the superblock locked on a read-only device
(`balloc.c:30`).

## Not modelled

Machine code and stack switching; the numbers of memory segments and the map
registers; formats, messages and device registers; the simulators and tools outside
the kernel, which are sequential programs or taken from elsewhere (they are most of
the repository's lines). An update of `p->mode` is one step, although process code and
interrupts both write it and the compiler may need several instructions. `bget`'s
formals are `UINT8`; blocks are identified as `bget` compares them.

Of the modelled components: the free lists in the superblock and the block maps
(`balloc.c`, `imap.c`); `link`, `mknod`, permissions; `mount` and `umount` while the
system runs; the editing characters, tabs, paging, modem lines and modes of terminals;
the floppy driver's own commands; the timeout table; process ids and open files across
`fork`; signal handlers and the single slot of a pending signal.

Of what is modelled: signals other than INT and QUIT, which abort a terminal call without
`drainall` (`sig.c:153`); the drains of `ttyhangup` and of the last close; `tty->state` is changed in
one step, although process and interrupt both write it; a change of mode while a call is
under way. `exec` sleeps before `mrelse` (`iname`, `getargs`), which is one step with it, so
that no swap error kills the process there. `imap` and `ialloc` take the superblock while they
hold a buffer (`imap.c:106-112`, `ialloc.c:246-256`): `Buf` has only the opposite order, that of
`balloc`, so its `CallsReturn` does not speak of a deadlock between the two. `MAPSIZE` does not
bound `SwapMap`'s behaviour; `peak` measures it.

## Plan

1. `Buf`, `BufProofs`, `SwapMap`, `SwapSpace`, `Swap`: done.
2. `Inode`, `Pipe`, `Disk`, `Mw`, `Tty`: done.
3. Proofs of the invariants, the action properties and the refinements: done.
4. `FreeList`: `balloc`, `bfree`, `imap` over an abstract cache: a block is free or in
   one file; the read-only device.
5. Signals, timeouts, process ids: the single pending slot, the five slots, reuse.
