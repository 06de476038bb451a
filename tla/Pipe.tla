-------------------------------- MODULE Pipe --------------------------------
(***************************************************************************)
(* A pipe of the Micronix kernel (sys/rdwri.c, pipe() and close() of       *)
(* sys/open.c): a file without a name whose size is the write pointer.     *)
(* Reader and writer wait for one another on its in-core inode, whose lock *)
(* and IWANT flag they share; count tells each whether the other end is    *)
(* still open.  An end is shared by the processes that inherited it.       *)
(*                                                                         *)
(* A process in the kernel keeps the cpu until it sleeps: for the lock, on *)
(* the pipe, or in bread().                                                *)
(***************************************************************************)
EXTENDS Integers, FiniteSets

CONSTANTS
  Readers,      \* the processes that have the read end at first
  Writers,      \* the processes that have the write end at first
  NoProc,       \* the cpu is in user mode or idle
  Signalled,    \* the processes that get signals while they sleep
  PIPSIZE,      \* size at which a writer is suspended, 4096 in the code
  MaxReq,       \* longest read or write
  ByteMod       \* bytes are numbered modulo ByteMod as they are written

Proc == Readers \cup Writers

ASSUME ConstAssumption ==
  /\ Readers \cap Writers = {} /\ NoProc \notin Proc
  /\ Readers # {} /\ Writers # {} /\ IsFiniteSet(Proc)
  /\ Signalled \subseteq Proc
  /\ PIPSIZE \in Nat \ {0} /\ MaxReq \in Nat \ {0}
  /\ ByteMod \in Nat /\ ByteMod > PIPSIZE

VARIABLES
  busy,     \* IBUSY
  wanted,   \* IWANT
  count,    \* ip->count
  size,     \* ip->size
  data,     \* what the blocks of the file hold
  rwptr,    \* the offset kept in the file structure of the read end
  rend,     \* the processes that have the read end open
  wend,     \* the processes that have the write end open
  freed,    \* idec has given the inode and its blocks back to the disk
  cpu,      \* the process inside the kernel that is not asleep
  pc,       \* where each process is
  asleep,   \* the processes that sleep on the inode
  then,     \* where a process goes on when it has the lock
  offset,   \* u.offset of a process that reads
  left,     \* the bytes a process still has to read or write
  wrote,    \* auxiliary: number of the next byte written
  got       \* auxiliary: number of the next byte to be read

pipeVars == <<size, data, rwptr, wrote, got>>
endVars  == <<rend, wend, freed>>
lockVars == <<busy, wanted, asleep>>
vars == <<lockVars, count, pipeVars, endVars, cpu, pc, then, offset, left>>

TypeOK ==
  /\ busy \in BOOLEAN /\ wanted \in BOOLEAN /\ freed \in BOOLEAN
  /\ count \in 0..(2 + Cardinality(Proc))
  /\ size \in 0..PIPSIZE /\ rwptr \in 0..PIPSIZE
  /\ data \in [1..PIPSIZE -> 0..(ByteMod - 1)]
  /\ rend \subseteq Readers /\ wend \subseteq Writers
  /\ cpu \in Proc \cup {NoProc}
  /\ pc \in [Proc -> {"user", "ilock", "iwait", "pread", "iread", "pwrite", "iwrite",
                      "idec", "itrunc"}]
  /\ asleep \subseteq Proc
  /\ then \in [Proc -> {"pread", "pwrite", "idec"}]
  /\ offset \in [Proc -> 0..PIPSIZE] /\ left \in [Proc -> 0..MaxReq]
  /\ wrote \in 0..(ByteMod - 1) /\ got \in 0..(ByteMod - 1)

\* pipe() has returned, and the ends have been handed out with fork and close.
Init ==
  /\ busy = FALSE /\ wanted = FALSE /\ asleep = {} /\ count = 2
  /\ size = 0 /\ rwptr = 0 /\ data = [k \in 1..PIPSIZE |-> 0]
  /\ rend = Readers /\ wend = Writers /\ freed = FALSE
  /\ cpu = NoProc /\ pc = [p \in Proc |-> "user"]
  /\ then = [p \in Proc |-> "pread"]
  /\ offset = [p \in Proc |-> 0] /\ left = [p \in Proc |-> 0]
  /\ wrote = 0 /\ got = 0
-----------------------------------------------------------------------------
(* The lock of the inode.                                                   *)

\* p, which stands at a place of the code, has the cpu or may be given it.
At(p, place) == cpu \in {p, NoProc} /\ pc[p] = place /\ p \notin asleep

\* p goes on with the cpu, gives it up in bread(), or leaves the kernel.
Goto(p, place)  == pc' = [pc EXCEPT ![p] = place] /\ cpu' = p
Bread(p, place) == pc' = [pc EXCEPT ![p] = place] /\ cpu' = NoProc
Return(p)       == Bread(p, "user")

ilock(p, place) == Goto(p, "ilock") /\ then' = [then EXCEPT ![p] = place]

\* Unlock, and wake whoever waits for the lock or for the other end.
irelse ==
  /\ busy' = FALSE /\ wanted' = FALSE
  /\ asleep' = IF wanted THEN {} ELSE asleep

\* Mutant of irelseAndSleep: IWANT is not set again after irelse.
irelseAndSleepUnwanted(p) ==
  /\ busy' = FALSE /\ wanted' = FALSE
  /\ asleep' = (IF wanted THEN {} ELSE asleep) \cup {p}
  /\ Bread(p, "ilock")

\* irelse, then IWANT and sleep for the other end; then lock again.
irelseAndSleep(p) ==
  /\ busy' = FALSE /\ wanted' = TRUE
  /\ asleep' = (IF wanted THEN {} ELSE asleep) \cup {p}
  /\ Bread(p, "ilock")

LockFree(p) ==
  /\ At(p, "ilock") /\ ~busy
  /\ busy' = TRUE
  /\ Goto(p, then[p])
  /\ UNCHANGED <<wanted, asleep, count, pipeVars, endVars, then, offset, left>>

\* The lock is taken: wait for it with the inode counted.
LockBusy(p) ==
  /\ At(p, "ilock") /\ busy
  /\ count' = count + 1
  /\ wanted' = TRUE /\ asleep' = asleep \cup {p}
  /\ Bread(p, "iwait")
  /\ UNCHANGED <<busy, pipeVars, endVars, then, offset, left>>

\* The loop of ilock after a wakeup.
LockWoken(p) ==
  /\ At(p, "iwait")
  /\ IF busy
     THEN wanted' = TRUE /\ asleep' = asleep \cup {p} /\ Bread(p, "iwait") /\ UNCHANGED <<busy, count>>
     ELSE busy' = TRUE /\ count' = count - 1 /\ Goto(p, then[p]) /\ UNCHANGED <<wanted, asleep>>
  /\ UNCHANGED <<pipeVars, endVars, then, offset, left>>
-----------------------------------------------------------------------------
(* read and write.                                                          *)

\* A system call starts while no process is inside the kernel and awake.
Calls(p) == cpu = NoProc /\ At(p, "user")

\* rdwri calls pread with the offset of the file.
pread(p) ==
  /\ Calls(p) /\ p \in rend
  /\ \E n \in 1..MaxReq : left' = [left EXCEPT ![p] = n]
  /\ offset' = [offset EXCEPT ![p] = rwptr]
  /\ ilock(p, "pread")
  /\ UNCHANGED <<lockVars, count, pipeVars, endVars>>

\* pread unlocks and returns, and rdwri keeps the offset in the file.
PreadReturn(p, o) ==
  /\ irelse
  /\ rwptr' = o
  /\ offset' = [offset EXCEPT ![p] = 0] /\ left' = [left EXCEPT ![p] = 0]
  /\ Return(p)

\* The pipe is empty and has no writer: end of file.
Eof(p) ==
  /\ At(p, "pread") /\ offset[p] >= size /\ count < 2
  /\ PreadReturn(p, offset[p])
  /\ UNCHANGED <<count, size, data, wrote, got, endVars, then>>

\* Mutant of Empty: the write pointer is left where it was.
EmptyKeep(p) ==
  /\ At(p, "pread") /\ offset[p] >= size /\ count >= 2
  /\ offset' = [offset EXCEPT ![p] = 0] /\ size' = size
  /\ irelseAndSleep(p)
  /\ UNCHANGED <<count, data, rwptr, wrote, got, endVars, then, left>>

\* The pipe is empty: both pointers start over; wait for a write.
Empty(p) ==
  /\ At(p, "pread") /\ offset[p] >= size /\ count >= 2
  /\ offset' = [offset EXCEPT ![p] = 0] /\ size' = 0
  /\ irelseAndSleep(p)
  /\ UNCHANGED <<count, data, rwptr, wrote, got, endVars, then, left>>

\* There is something: iread sleeps for the block.
iread(p) ==
  /\ At(p, "pread") /\ offset[p] < size
  /\ Bread(p, "iread")
  /\ UNCHANGED <<lockVars, count, pipeVars, endVars, then, offset, left>>

Lesser(a, b) == IF a < b THEN a ELSE b

\* How much iread copies to the reader: what there is, up to the request.
Amount(p) == Lesser(left[p], size - offset[p])

\* iread ends: it has copied all that, or less if imap or bread fails.
ReadDone(p) ==
  /\ At(p, "iread")
  /\ \E n \in 0..Amount(p) : /\ PreadReturn(p, offset[p] + n)
                             /\ got' = (got + n) % ByteMod
  /\ UNCHANGED <<count, size, data, wrote, endVars, then>>

pwrite(p) ==
  /\ Calls(p) /\ p \in wend
  /\ \E n \in 1..MaxReq : left' = [left EXCEPT ![p] = n]
  /\ ilock(p, "pwrite")
  /\ UNCHANGED <<lockVars, count, pipeVars, endVars, offset>>

\* Nobody has the read end: EPIPE and SIGPIPE.
Broken(p) ==
  /\ At(p, "pwrite") /\ count < 2
  /\ irelse
  /\ left' = [left EXCEPT ![p] = 0]
  /\ Return(p)
  /\ UNCHANGED <<count, pipeVars, endVars, then, offset>>

\* The pipe is full: wait for a read.
Full(p) ==
  /\ At(p, "pwrite") /\ count >= 2 /\ size >= PIPSIZE
  /\ irelseAndSleep(p)
  /\ UNCHANGED <<count, pipeVars, endVars, then, offset, left>>

iwrite(p) ==
  /\ At(p, "pwrite") /\ count >= 2 /\ size < PIPSIZE
  /\ Bread(p, "iwrite")
  /\ UNCHANGED <<lockVars, count, pipeVars, endVars, then, offset, left>>

\* How much iwrite is asked to put down: what fits.
Room(p) == Lesser(PIPSIZE - size, left[p])

\* iwrite ends.  If it failed half-way (no block, or a bad one), pwrite breaks off.
\* If what fits was not all, the loop finds the pipe full; it looks for a
\* reader again only after it has slept.
WriteDone(p) ==
  /\ At(p, "iwrite")
  /\ \E n \in 0..Room(p) :
       LET over == n < Room(p) \/ n = left[p] IN
       /\ data' = [k \in 1..PIPSIZE |-> IF k \in (size + 1)..(size + n)
                                        THEN (wrote + k - size - 1) % ByteMod ELSE data[k]]
       /\ size' = size + n
       /\ wrote' = (wrote + n) % ByteMod
       /\ left' = [left EXCEPT ![p] = IF over THEN 0 ELSE @ - n]
       /\ IF over THEN irelse /\ Return(p) ELSE irelseAndSleep(p)
  /\ UNCHANGED <<count, rwptr, got, endVars, then, offset>>

\* A signal ends the sleep for the other end, which is of low priority, or
\* comes before the process that was woken runs: abort() leaves the system
\* call there and then.
Signal(p) ==
  /\ p \in Signalled /\ pc[p] = "ilock" /\ cpu = NoProc
  /\ asleep' = asleep \ {p}
  /\ offset' = [offset EXCEPT ![p] = 0] /\ left' = [left EXCEPT ![p] = 0]
  /\ Return(p)
  /\ UNCHANGED <<busy, wanted, count, pipeVars, endVars, then>>
-----------------------------------------------------------------------------
(* close.                                                                   *)

\* Mutant of Dreamers: fclose wakes nobody.
DreamersLeft == asleep

\* Who still sleeps after the wakeup of fclose.
Dreamers == {}

\* Mutant of EndClosed: a descriptor is closed like a file.
EndClosedAlways(p) == TRUE

\* --fp->count is 0: no process that p shares the end with is left.
EndClosed(p) == rend = {p} \/ wend = {p}

\* Mutant of LastReference: the count is tested before it is decremented.
LastReferenceLate == count = 0

\* --ip->count is 0.
LastReference == count = 1

\* p closes its descriptor.  With the last one of an end, fclose wakes who
\* sleeps on the pipe and iclose drops a reference; with the last reference
\* the inode is locked for idec.
close(p) ==
  /\ Calls(p) /\ p \in rend \cup wend
  /\ rend' = rend \ {p} /\ wend' = wend \ {p}
  /\ IF EndClosed(p)
     THEN /\ asleep' = Dreamers
          /\ count' = count - 1
          /\ IF LastReference THEN ilock(p, "idec") ELSE Return(p) /\ then' = then
     ELSE Return(p) /\ UNCHANGED <<asleep, count, then>>
  /\ UNCHANGED <<busy, wanted, pipeVars, freed, offset, left>>

\* idec: no reference and no link, so the file is truncated and freed.
idec(p) ==
  /\ At(p, "idec") /\ count = 0
  /\ Bread(p, "itrunc")
  /\ UNCHANGED <<lockVars, count, pipeVars, endVars, then, offset, left>>

ifree(p) ==
  /\ At(p, "itrunc")
  /\ size' = 0 /\ freed' = TRUE
  /\ irelse
  /\ Return(p)
  /\ UNCHANGED <<count, data, rwptr, wrote, got, rend, wend, then, offset, left>>
-----------------------------------------------------------------------------
\* A process inside the kernel goes on.
Continue(p) ==
  \/ LockFree(p) \/ LockBusy(p) \/ LockWoken(p)
  \/ Eof(p) \/ Empty(p) \/ iread(p) \/ ReadDone(p)
  \/ Broken(p) \/ Full(p) \/ iwrite(p) \/ WriteDone(p)
  \/ idec(p) \/ ifree(p)

Next ==
  \E p \in Proc : Continue(p) \/ pread(p) \/ pwrite(p) \/ Signal(p) \/ close(p)

Spec == Init /\ [][Next]_vars

\* The disk answers, and sched() gives the cpu to every process that is awake
\* in the kernel.  Nobody has to call.
FairSpec == Spec /\ \A p \in Proc : SF_vars(Continue(p))
-----------------------------------------------------------------------------
Holds(p) == pc[p] \in {"pread", "iread", "pwrite", "iwrite", "idec", "itrunc"}

\* p is in pread or pwrite.
Inside(p, rw) == pc[p] \notin {"user", "idec", "itrunc"} /\ then[p] = rw

\* p sleeps for the other end.
Dreams(p, rw) == p \in asleep /\ pc[p] = "ilock" /\ then[p] = rw

(* The lock excludes: while iread or iwrite sleeps for a block, nobody else *)
(* moves the pointers, and nobody waits for a lock that is not taken.       *)
LockSafe ==
  /\ busy <=> \E p \in Proc : Holds(p)
  /\ \A p, q \in Proc : Holds(p) /\ Holds(q) => p = q
  /\ \A p \in asleep : wanted /\ (pc[p] = "iwait" => busy)

(* The reader gets the bytes in the order they were written, none twice and *)
(* none left out, although both pointers start over whenever it catches up. *)
PipeInOrder ==
  \A p \in Proc : pc[p] = "iread" =>
    \A k \in 1..Amount(p) : data[offset[p] + k] = (got + k - 1) % ByteMod

(* A writer does not sleep on a pipe without a reader: "If there is no      *)
(* reader, signal and return error." (rdwri.c)                              *)
WriterNotStranded == \A p \in Proc : Dreams(p, "pwrite") => rend # {}

(* The inode and its blocks are given back only when nobody can reach them: *)
(* both ends are closed and no process is left in the kernel with the pipe. *)
FreedWhenUnused ==
  (\E p \in Proc : pc[p] = "itrunc") \/ freed =>
     /\ rend = {} /\ wend = {}
     /\ \A p \in Proc : pc[p] \in {"user", "itrunc"}

\* A write of p ends before it has put down what fits.
WriteFails(p) == pc[p] = "iwrite" /\ pc'[p] = "user" /\ size' - size < left[p]

(* A read returns once there is data or no writer is left, provided that    *)
(* writes do not fail for ever: a writer that never fills the pipe may lock *)
(* it again, each time it has woken the reader, before that one runs.       *)
ReadReturns ==
  <>[][\A p \in Writers : ~WriteFails(p)]_vars => \A p \in Readers :
    (Inside(p, "pread") /\ (wend = {} \/ size > offset[p])) ~> ~Inside(p, "pread")

(* When both ends are closed the inode is freed.                            *)
ClosedIsFreed == (rend = {} /\ wend = {}) ~> freed
=============================================================================
