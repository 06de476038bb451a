----------------------------- MODULE BufProofs -----------------------------
(***************************************************************************)
(* The buffer cache, for any number of processes, buffers and blocks and   *)
(* any number of device errors: type correctness, one buffer per block,    *)
(* BBUSY as a lock, no lost wakeup.                                        *)
(***************************************************************************)
EXTENDS Buf, TLAPS

\* Who has the cpu, and what p may have in its registers.
CpuP(p) ==
  /\ pc[p] = "idle" => event[p] = 0 /\ sb[p] = 0
  /\ cpu = p => event[p] = 0 /\ pc[p] # "idle"
  /\ pc[p] \in {"got", "bwait", "hold", "sync", "flush"} => reg[p] # 0
  /\ pc[p] \in {"sync", "flush"} => op[p] = pc[p]
  /\ pc[p] = "aread" => op[p] = "ahead"
  /\ pc[p] = "relsb" => sb[p] # 0
  /\ sb[p] # 0 => op[p] \in {"alloc", "chain"}

CpuInv == \A p \in Proc : CpuP(p)

\* The running scan of bget has not passed the block it looks for, and its
\* candidate is free.
ScanInv ==
  /\ i # 1 \/ f # 0 => cpu \in Proc /\ pc[cpu] = "scan"
  /\ f < i
  /\ CandidateStaysFree
  /\ \A b \in Blist : b < i /\ i # 1 => blkdev[b] # Target(cpu)

(***************************************************************************)
(* The locks, as a relation between R, the buffer each process holds in    *)
(* its register (0 for none), S, the superblock it holds besides, E, the   *)
(* buffer it sleeps on, W, the processes in bwait, fl, the flags, and Q,   *)
(* the device queue.                                                       *)
(***************************************************************************)
\* Nobody shares a buffer, what is held is busy, and a busy buffer is held or
\* has an asynchronous request.
OneHolder(R, S) ==
  \A p, q \in Proc : p # q =>
    /\ R[p] # 0 => R[p] # R[q] /\ R[p] # S[q]
    /\ S[p] # 0 => S[p] # S[q]

Held(R, S, fl) ==
  \A p \in Proc : /\ R[p] # 0 => "BBUSY" \in fl[R[p]] /\ R[p] # S[p]
                  /\ S[p] # 0 => "BBUSY" \in fl[S[p]]

Owned(R, S, fl, Q) ==
  \A b \in Blist : "BBUSY" \in fl[b] =>
    \/ b \in Q /\ "BSYNC" \notin fl[b]
    \/ \E p \in Proc : R[p] = b \/ S[p] = b

\* What is queued is busy and not done; of the buffers held, exactly those of
\* the processes in bwait may be queued.
Queued(R, S, W, fl, Q) ==
  /\ \A b \in Q : "BBUSY" \in fl[b] /\ "BDONE" \notin fl[b]
  /\ \A p \in W : R[p] # 0 /\ "BSYNC" \in fl[R[p]] /\ (R[p] \in Q \/ "BDONE" \in fl[R[p]])
  /\ \A p \in Proc : (R[p] \in Q => p \in W) /\ S[p] \notin Q

\* Who sleeps sleeps on a busy, wanted buffer, in bwait on a queued one.
Wakeable(R, E, W, fl, Q) ==
  \A p \in Proc : E[p] # 0 =>
    /\ "BBUSY" \in fl[E[p]] /\ "BWANT" \in fl[E[p]]
    /\ p \in W => E[p] = R[p] /\ E[p] \in Q

Lock(R, S, E, W, fl, Q) ==
  /\ OneHolder(R, S)
  /\ Held(R, S, fl)
  /\ Owned(R, S, fl, Q)
  /\ Queued(R, S, W, fl, Q)
  /\ Wakeable(R, E, W, fl, Q)

Holding == {"got", "bwait", "hold"}
Regs == [p \in Proc |-> IF pc[p] \in Holding THEN reg[p] ELSE 0]
Waiting == {p \in Proc : pc[p] = "bwait"}

LockInv == Lock(Regs, sb, event, Waiting, flags, ioq)

\* A buffer that is locked or to be written out stands for a block.
NamedInv ==
  \A b \in Blist : "BBUSY" \in flags[b] \/ "BDELWRI" \in flags[b] => blkdev[b] # NoBlock

IInv == TypeOK /\ CpuInv /\ ScanInv /\ LockInv /\ NamedInv /\ OneBufferPerBlock

\* A remainder is below the modulus: the recycling counter of btime.
LEMMA ModRange == ASSUME NEW n \in Nat, NEW m \in Nat \ {0} PROVE n % m \in 0 .. m - 1
  OBVIOUS

\* The types of what the primitives of uio.c change.
LEMMA BtimeType ==
  ASSUME TypeOK, NEW b \in Blist, btime(b)
  PROVE  count' \in 0 .. TimeMod - 1 /\ time' \in [Blist -> 0 .. TimeMod - 1]
<1>1. count' \in 0 .. TimeMod - 1
  BY ModRange, ConstAssumption DEF TypeOK, btime
<1>2. time' \in [Blist -> 0 .. TimeMod - 1]
  BY <1>1 DEF TypeOK, btime
<1> QED
  BY <1>1, <1>2

\* wakeup leaves every event a buffer or none.
LEMMA WakeupType ==
  ASSUME TypeOK, NEW b PROVE wakeup(b) \in [Proc -> 0..NBUF]
  BY ConstAssumption DEF TypeOK, wakeup

\* brelse keeps flags, events and stamps in their types.
LEMMA BrelseType ==
  ASSUME TypeOK, NEW b \in Blist, NEW fl \in SUBSET Flag, brelse(b, fl)
  PROVE  /\ flags' \in [Blist -> SUBSET Flag]
         /\ event' \in [Proc -> 0..NBUF]
         /\ count' \in 0 .. TimeMod - 1 /\ time' \in [Blist -> 0 .. TimeMod - 1]
<1>1. flags' \in [Blist -> SUBSET Flag]
  BY DEF TypeOK, brelse
<1>2. event' \in [Proc -> 0..NBUF]
  BY WakeupType DEF TypeOK, brelse
<1> QED
  BY <1>1, <1>2, BtimeType DEF brelse

\* So does bdwrite, which adds two flags first.
LEMMA BdwriteType ==
  ASSUME TypeOK, NEW b \in Blist, bdwrite(b)
  PROVE  /\ flags' \in [Blist -> SUBSET Flag]
         /\ event' \in [Proc -> 0..NBUF]
         /\ count' \in 0 .. TimeMod - 1 /\ time' \in [Blist -> 0 .. TimeMod - 1]
<1>1. flags[b] \cup {"BDELWRI", "BDONE"} \in SUBSET Flag
  BY DEF TypeOK, Flag
<1> QED
  BY <1>1, BrelseType DEF bdwrite

\* strat keeps flags and the device queue in their types.
LEMMA StratType ==
  ASSUME TypeOK, NEW b \in Blist, NEW fl \in SUBSET Flag, strat(b, fl)
  PROVE  flags' \in [Blist -> SUBSET Flag] /\ ioq' \subseteq Blist
  BY DEF TypeOK, strat, Flag

\* The end of bflush's loop body keeps what it changes in its types.
LEMMA ReleaseAndZeroType ==
  ASSUME TypeOK, NEW b \in Blist, ReleaseAndZero(b)
  PROVE  /\ flags' \in [Blist -> SUBSET Flag]
         /\ blkdev' \in [Blist -> Block \cup {NoBlock}]
         /\ event' \in [Proc -> 0..NBUF]
         /\ count' \in 0 .. TimeMod - 1 /\ time' \in [Blist -> 0 .. TimeMod - 1]
<1>1. count' \in 0 .. TimeMod - 1
  BY ModRange, ConstAssumption DEF TypeOK, ReleaseAndZero
<1>2. time' \in [Blist -> 0 .. TimeMod - 1]
  BY ConstAssumption DEF TypeOK, ReleaseAndZero
<1>3. event' \in [Proc -> 0..NBUF]
  BY WakeupType DEF TypeOK, ReleaseAndZero
<1> QED
  BY <1>1, <1>2, <1>3 DEF TypeOK, ReleaseAndZero

\* What each kind of step does to the locks.
LockType(R, S, E, W, fl, Q) ==
  /\ R \in [Proc -> 0..NBUF] /\ S \in [Proc -> 0..NBUF] /\ E \in [Proc -> 0..NBUF]
  /\ W \subseteq Proc /\ fl \in [Blist -> SUBSET Flag] /\ Q \subseteq Blist

\* Nothing happens to a buffer; a wait may end once the buffer is done.
LEMMA QuietStep ==
  ASSUME NEW R, NEW S, NEW E, NEW W, NEW fl, NEW Q, LockType(R, S, E, W, fl, Q),
         Lock(R, S, E, W, fl, Q),
         NEW p \in Proc, E[p] = 0, p \in W => R[p] \notin Q
  PROVE  Lock(R, S, E, W \ {p}, fl, Q)
  BY DEF LockType, Lock, OneHolder, Held, Owned, Queued, Wakeable, Blist

\* p goes to sleep on a busy buffer.
LEMMA SleepStep ==
  ASSUME NEW R, NEW S, NEW E, NEW W, NEW fl, NEW Q, LockType(R, S, E, W, fl, Q),
         Lock(R, S, E, W, fl, Q),
         NEW p \in Proc, NEW b \in Blist, "BBUSY" \in fl[b],
         p \in W => b = R[p] /\ b \in Q
  PROVE  Lock(R, S, [E EXCEPT ![p] = b], W, [fl EXCEPT ![b] = @ \cup {"BWANT"}], Q)
  BY DEF LockType, Lock, OneHolder, Held, Owned, Queued, Wakeable, Blist

\* p locks a free buffer.
LEMMA LockStep ==
  ASSUME NEW R, NEW S, NEW E, NEW W, NEW fl, NEW Q, LockType(R, S, E, W, fl, Q),
         Lock(R, S, E, W, fl, Q),
         NEW p \in Proc, NEW b \in Blist, "BBUSY" \notin fl[b],
         R[p] = 0, E[p] = 0, NEW x, "BBUSY" \in x
  PROVE  Lock([R EXCEPT ![p] = b], S, E, W, [fl EXCEPT ![b] = x], Q)
  BY DEF LockType, Lock, OneHolder, Held, Owned, Queued, Wakeable, Blist

\* p locks a free buffer and starts a write it is going to wait for.
LEMMA WriteStep ==
  ASSUME NEW R, NEW S, NEW E, NEW W, NEW fl, NEW Q, LockType(R, S, E, W, fl, Q),
         Lock(R, S, E, W, fl, Q),
         NEW p \in Proc, NEW b \in Blist, "BBUSY" \notin fl[b], R[p] = 0, E[p] = 0,
         NEW x, "BBUSY" \in x, "BSYNC" \in x, "BDONE" \notin x
  PROVE  Lock([R EXCEPT ![p] = b], S, E, W \cup {p}, [fl EXCEPT ![b] = x], Q \cup {b})
  BY DEF LockType, Lock, OneHolder, Held, Owned, Queued, Wakeable, Blist

\* p starts a read into the buffer it holds and is going to wait for it.
LEMMA ReadStep ==
  ASSUME NEW R, NEW S, NEW E, NEW W, NEW fl, NEW Q, LockType(R, S, E, W, fl, Q),
         Lock(R, S, E, W, fl, Q),
         NEW p \in Proc, R[p] # 0, E[p] = 0,
         NEW x, "BBUSY" \in x, "BSYNC" \in x, "BDONE" \notin x,
         "BWANT" \in fl[R[p]] => "BWANT" \in x
  PROVE  Lock(R, S, E, W \cup {p}, [fl EXCEPT ![R[p]] = x], Q \cup {R[p]})
  BY DEF LockType, Lock, OneHolder, Held, Owned, Queued, Wakeable, Blist

\* p gives the buffer it holds to an asynchronous request.
LEMMA HandoffStep ==
  ASSUME NEW R, NEW S, NEW E, NEW W, NEW fl, NEW Q, LockType(R, S, E, W, fl, Q),
         Lock(R, S, E, W, fl, Q),
         NEW p \in Proc, R[p] # 0, p \notin W,
         NEW x, "BBUSY" \in x, "BSYNC" \notin x, "BDONE" \notin x,
         "BWANT" \in fl[R[p]] => "BWANT" \in x
  PROVE  Lock([R EXCEPT ![p] = 0], S, E, W, [fl EXCEPT ![R[p]] = x], Q \cup {R[p]})
  BY DEF LockType, Lock, OneHolder, Held, Owned, Queued, Wakeable, Blist

\* An asynchronous request is started for a free buffer.
LEMMA StartStep ==
  ASSUME NEW R, NEW S, NEW E, NEW W, NEW fl, NEW Q, LockType(R, S, E, W, fl, Q),
         Lock(R, S, E, W, fl, Q),
         NEW b \in Blist, "BBUSY" \notin fl[b],
         NEW x, "BBUSY" \in x, "BSYNC" \notin x, "BDONE" \notin x
  PROVE  Lock(R, S, E, W, [fl EXCEPT ![b] = x], Q \cup {b})
  BY DEF LockType, Lock, OneHolder, Held, Owned, Queued, Wakeable, Blist

\* The sleepers on b are woken.
Woken(E, b) == [p \in Proc |-> IF E[p] = b THEN 0 ELSE E[p]]

\* p releases the buffer in its register.
LEMMA ReleaseStep ==
  ASSUME NEW R, NEW S, NEW E, NEW W, NEW fl, NEW Q, LockType(R, S, E, W, fl, Q),
         Lock(R, S, E, W, fl, Q),
         NEW p \in Proc, R[p] # 0, R[p] \notin Q, NEW x, "BBUSY" \notin x
  PROVE  Lock([R EXCEPT ![p] = 0], S, Woken(E, R[p]), W \ {p}, [fl EXCEPT ![R[p]] = x], Q)
  BY DEF LockType, Lock, OneHolder, Held, Owned, Queued, Wakeable, Blist, Woken

\* p releases the superblock.
LEMMA ReleaseSuperStep ==
  ASSUME NEW R, NEW S, NEW E, NEW W, NEW fl, NEW Q, LockType(R, S, E, W, fl, Q),
         Lock(R, S, E, W, fl, Q),
         NEW p \in Proc, S[p] # 0, NEW x, "BBUSY" \notin x
  PROVE  Lock(R, [S EXCEPT ![p] = 0], Woken(E, S[p]), W, [fl EXCEPT ![S[p]] = x], Q)
  BY DEF LockType, Lock, OneHolder, Held, Owned, Queued, Wakeable, Blist, Woken

\* p keeps the superblock while it looks for another buffer.
LEMMA KeepSuperStep ==
  ASSUME NEW R, NEW S, NEW E, NEW W, NEW fl, NEW Q, LockType(R, S, E, W, fl, Q),
         Lock(R, S, E, W, fl, Q),
         NEW p \in Proc, R[p] # 0, S[p] = 0, E[p] = 0, p \notin W
  PROVE  Lock([R EXCEPT ![p] = 0], [S EXCEPT ![p] = R[p]], E, W, fl, Q)
  BY DEF LockType, Lock, OneHolder, Held, Owned, Queued, Wakeable, Blist

\* A free buffer is zeroed.
LEMMA ZeroStep ==
  ASSUME NEW R, NEW S, NEW E, NEW W, NEW fl, NEW Q, LockType(R, S, E, W, fl, Q),
         Lock(R, S, E, W, fl, Q),
         NEW b \in Blist, "BBUSY" \notin fl[b]
  PROVE  Lock(R, S, E, W, [fl EXCEPT ![b] = {}], Q)
  BY DEF LockType, Lock, OneHolder, Held, Owned, Queued, Wakeable, Blist

\* A request somebody waits for is done.
LEMMA SyncDoneStep ==
  ASSUME NEW R, NEW S, NEW E, NEW W, NEW fl, NEW Q, LockType(R, S, E, W, fl, Q),
         Lock(R, S, E, W, fl, Q),
         NEW b \in Q, "BSYNC" \in fl[b],
         NEW x, {"BBUSY", "BSYNC", "BDONE"} \subseteq x
  PROVE  Lock(R, S, Woken(E, b), W, [fl EXCEPT ![b] = x], Q \ {b})
  BY DEF LockType, Lock, OneHolder, Held, Owned, Queued, Wakeable, Blist, Woken

\* An asynchronous request is done, and the buffer released.
LEMMA AsyncDoneStep ==
  ASSUME NEW R, NEW S, NEW E, NEW W, NEW fl, NEW Q, LockType(R, S, E, W, fl, Q),
         Lock(R, S, E, W, fl, Q),
         NEW b \in Q, "BSYNC" \notin fl[b], NEW x, "BBUSY" \notin x
  PROVE  Lock(R, S, Woken(E, b), W, [fl EXCEPT ![b] = x], Q \ {b})
  BY DEF LockType, Lock, OneHolder, Held, Owned, Queued, Wakeable, Blist, Woken

\* The registers of a process stay in range.
RegTypeOK ==
  /\ cpu \in Proc \cup {NoProc}
  /\ pc \in [Proc -> Label]
  /\ op \in [Proc -> AllOps]
  /\ want \in [Proc -> Block]
  /\ reg \in [Proc -> 0..NBUF]

\* Going on in the kernel keeps the registers of processes in their types.
LEMMA GotoType ==
  ASSUME TypeOK, NEW p \in Proc, NEW l \in Label, NEW b \in 0..NBUF, Goto(p, l, b)
  PROVE  RegTypeOK'
  BY DEF TypeOK, RegTypeOK, Goto

\* So does the return to user mode.
LEMMA ReturnType ==
  ASSUME TypeOK, NEW p \in Proc, Return(p)
  PROVE  RegTypeOK'
  BY ConstAssumption DEF TypeOK, RegTypeOK, Return, Label, AllOps

\* So does b++ in the loops of bsync and bflush.
LEMMA AdvanceType ==
  ASSUME TypeOK, NEW p \in Proc, op[p] \in {"sync", "flush"}, reg[p] \in Blist, Advance(p)
  PROVE  RegTypeOK'
<1>1. op[p] \in Label /\ (reg[p] < NBUF => reg[p] + 1 \in 0..NBUF)
  BY ConstAssumption DEF Label, Blist
<1> QED
  BY <1>1, GotoType, ReturnType DEF Advance

\* Every step of a process preserves the type invariant.
LEMMA TypeStep == ASSUME IInv, NEW p \in Proc, Step(p) PROVE TypeOK'
<1> USE ConstAssumption DEF IInv, TypeOK, stamps, errVars, Blist, Label, Flag, AllOps
<1>0. 1 \in 0..NBUF /\ {"scan", "sync"} \subseteq Label
  OBVIOUS
<1>1. CASE AreadHit(p)
  BY <1>1 DEF AreadHit, At, Return
<1>2. CASE AreadMiss(p)
  BY <1>2 DEF AreadMiss, At, Goto
<1>3. CASE ScanHit(p)
  BY <1>3 DEF ScanHit, At, Rescan, Goto, ScanInv
<1>4. CASE ScanBusy(p)
  BY <1>4 DEF ScanBusy, At, Rescan, sleep, ScanInv
<1>5. CASE ScanNext(p)
  <2>1. RegTypeOK'
    BY <1>0, <1>5, GotoType DEF ScanNext
  <2>2. i' \in 1 .. NBUF + 1 /\ f' \in 0..NBUF
    BY <1>5 DEF ScanNext
  <2>3. UNCHANGED <<blkdev, flags, time, fresh, count, ioq, saved, nerr, bad, event, sb>>
    BY <1>5 DEF ScanNext
  <2> QED
    BY <2>1, <2>2, <2>3 DEF RegTypeOK
<1>6. CASE ScanSpin(p)
  BY <1>6 DEF ScanSpin, At, Rescan, Goto, ScanInv
<1>7. CASE TakeDirty(p)
  BY <1>7 DEF TakeDirty, At, Rescan, Goto, bwrite, strat, ScanInv
<1>8. CASE TakeClean(p)
  <2>1. f \in 1..NBUF /\ Target(p) \in Block
    BY <1>8 DEF TakeClean, Target
  <2>2. RegTypeOK'
    BY <1>8, <2>1, GotoType DEF TakeClean
  <2>3. /\ blkdev' \in [Blist -> Block \cup {NoBlock}] /\ flags' \in [Blist -> SUBSET Flag]
        /\ fresh' \subseteq Blist
    BY <1>8, <2>1 DEF TakeClean
  <2>4. i' \in 1 .. NBUF + 1 /\ f' \in 0..NBUF
    BY <1>8 DEF TakeClean, Rescan
  <2>5. UNCHANGED <<time, count, ioq, saved, nerr, bad, event, sb>>
    BY <1>8 DEF TakeClean
  <2> QED
    BY <2>2, <2>3, <2>4, <2>5 DEF RegTypeOK
<1>9. CASE GotValid(p)
  BY <1>9 DEF GotValid, At, Goto, CpuInv, CpuP
<1>10. CASE GotRead(p)
  <2>1. reg[p] \in Blist
    BY <1>10 DEF GotRead, At, CpuInv, CpuP
  <2>2. RegTypeOK'
    BY <1>10, <2>1, GotoType DEF GotRead, At
  <2> QED
    BY <1>10, <2>1, <2>2 DEF GotRead, strat, RegTypeOK
<1>11. CASE GotAhead(p)
  <2>1. reg[p] \in Blist
    BY <1>11 DEF GotAhead, At, CpuInv, CpuP
  <2>2. RegTypeOK'
    BY <1>11, <2>1, ReturnType DEF GotAhead, At
  <2> QED
    BY <1>11, <2>1, <2>2 DEF GotAhead, strat, RegTypeOK
<1>12. CASE BwaitSleep(p)
  BY <1>12 DEF BwaitSleep, At, sleep, CpuInv, CpuP
<1>13. CASE BwaitRead(p)
  BY <1>13 DEF BwaitRead, At, Goto, CpuInv, CpuP
<1>14. CASE BwaitError(p)
  <2>1. reg[p] \in Blist /\ flags[reg[p]] \in SUBSET Flag
    BY <1>14 DEF BwaitError, At, CpuInv, CpuP
  <2>2. /\ flags' \in [Blist -> SUBSET Flag] /\ event' \in [Proc -> 0..NBUF]
        /\ count' \in 0 .. TimeMod - 1 /\ time' \in [Blist -> 0 .. TimeMod - 1]
    BY <1>14, <2>1, BrelseType DEF BwaitError
  <2>3. RegTypeOK'
    BY <1>0, <1>14, <2>1, GotoType, ReturnType DEF BwaitError, At
  <2> QED
    BY <1>14, <2>1, <2>2, <2>3 DEF BwaitError, RegTypeOK
<1>15. CASE BwaitWrite(p)
  <2>1. reg[p] \in Blist /\ flags[reg[p]] \in SUBSET Flag
    BY <1>15 DEF BwaitWrite, At, CpuInv, CpuP
  <2>2. /\ flags' \in [Blist -> SUBSET Flag] /\ event' \in [Proc -> 0..NBUF]
        /\ count' \in 0 .. TimeMod - 1 /\ time' \in [Blist -> 0 .. TimeMod - 1]
    BY <1>15, <2>1, BrelseType DEF BwaitWrite
  <2>3. RegTypeOK'
    BY <1>0, <1>15, <2>1, GotoType DEF BwaitWrite, At
  <2> QED
    BY <1>15, <2>1, <2>2, <2>3 DEF BwaitWrite, RegTypeOK
<1>16. CASE HoldRead(p)
  <2>1. reg[p] \in Blist /\ flags[reg[p]] \in SUBSET Flag
    BY <1>16 DEF HoldRead, At, CpuInv, CpuP
  <2>2. /\ flags' \in [Blist -> SUBSET Flag] /\ event' \in [Proc -> 0..NBUF]
        /\ count' \in 0 .. TimeMod - 1 /\ time' \in [Blist -> 0 .. TimeMod - 1]
    BY <1>16, <2>1, BrelseType DEF HoldRead
  <2> QED
    BY <1>16, <2>1, <2>2 DEF HoldRead, At, Return
<1>17. CASE HoldWrite(p)
  <2>1. reg[p] \in Blist /\ flags[reg[p]] \in SUBSET Flag
    BY <1>17 DEF HoldWrite, At, CpuInv, CpuP
  <2>2. /\ flags' \in [Blist -> SUBSET Flag] /\ event' \in [Proc -> 0..NBUF]
        /\ count' \in 0 .. TimeMod - 1 /\ time' \in [Blist -> 0 .. TimeMod - 1]
    <3>1. CASE bdwrite(reg[p])
      BY <2>1, <3>1, BdwriteType
    <3>2. CASE bawrite(reg[p]) /\ UNCHANGED <<event, stamps>>
      BY <2>1, <3>2 DEF bawrite, strat
    <3> QED
      BY <1>17, <3>1, <3>2 DEF HoldWrite
  <2> QED
    BY <1>17, <2>1, <2>2 DEF HoldWrite, At, Return, bawrite, strat, Modify
<1>18. CASE HoldSuper(p)
  <2>1. RegTypeOK'
    BY <1>18, GotoType DEF HoldSuper
  <2>2. sb' \in [Proc -> 0..NBUF]
    BY <1>18 DEF HoldSuper
  <2>3. UNCHANGED <<blkdev, flags, fresh, time, count, ioq, saved, nerr, bad, event, i, f>>
    BY <1>18 DEF HoldSuper
  <2> QED
    BY <2>1, <2>2, <2>3 DEF RegTypeOK
<1>19. CASE HoldBlock(p)
  <2>1. reg[p] \in Blist /\ flags[reg[p]] \in SUBSET Flag
    BY <1>19 DEF HoldBlock, At, CpuInv, CpuP
  <2>2. /\ flags' \in [Blist -> SUBSET Flag] /\ event' \in [Proc -> 0..NBUF]
        /\ count' \in 0 .. TimeMod - 1 /\ time' \in [Blist -> 0 .. TimeMod - 1]
    <3>1. CASE bdwrite(reg[p])
      BY <2>1, <3>1, BdwriteType
    <3>2. CASE bawrite(reg[p]) /\ UNCHANGED <<event, stamps>>
      BY <2>1, <3>2 DEF bawrite, strat
    <3> QED
      BY <1>19, <3>1, <3>2 DEF HoldBlock
  <2> QED
    BY <1>19, <2>1, <2>2 DEF HoldBlock, At, Goto, bawrite, strat, Modify
<1>20. CASE RelSuper(p)
  <2>1. sb[p] \in Blist /\ flags[sb[p]] \in SUBSET Flag
    <3>1. pc[p] = "relsb" /\ CpuP(p)
      BY <1>20 DEF RelSuper, At, CpuInv
    <3>2. sb[p] # 0
      BY <3>1 DEF CpuP
    <3> QED
      BY <3>2
  <2>2. /\ flags' \in [Blist -> SUBSET Flag] /\ event' \in [Proc -> 0..NBUF]
        /\ count' \in 0 .. TimeMod - 1 /\ time' \in [Blist -> 0 .. TimeMod - 1]
    BY <1>20, <2>1, BdwriteType DEF RelSuper
  <2>3. RegTypeOK'
    BY <1>20, ReturnType DEF RelSuper
  <2>4. fresh' \subseteq Blist /\ saved' \subseteq Block
    BY <1>20, <2>1 DEF RelSuper, Modify
  <2>5. sb' \in [Proc -> 0..NBUF]
    BY <1>20 DEF RelSuper
  <2>6. UNCHANGED <<blkdev, ioq, nerr, bad, i, f>>
    BY <1>20 DEF RelSuper
  <2> QED
    BY <2>2, <2>3, <2>4, <2>5, <2>6 DEF RegTypeOK
<1>21. CASE HoldSync(p)
  <2>1. reg[p] \in Blist /\ flags[reg[p]] \in SUBSET Flag
    BY <1>21 DEF HoldSync, At, CpuInv, CpuP
  <2>2. /\ flags' \in [Blist -> SUBSET Flag] /\ event' \in [Proc -> 0..NBUF]
        /\ count' \in 0 .. TimeMod - 1 /\ time' \in [Blist -> 0 .. TimeMod - 1]
    BY <1>21, <2>1, BdwriteType DEF HoldSync
  <2>3. RegTypeOK'
    BY <1>0, <1>21, <2>1, GotoType DEF HoldSync, At
  <2> QED
    BY <1>21, <2>1, <2>2, <2>3 DEF HoldSync, RegTypeOK, Modify
<1>22. CASE Sync(p)
  <2>1. reg[p] \in Blist
    BY <1>22 DEF Sync, At, CpuInv, CpuP
  <2>2. RegTypeOK'
    BY <1>22, <2>1, AdvanceType DEF Sync, At, CpuInv, CpuP
  <2>3. flags' \in [Blist -> SUBSET Flag] /\ ioq' \subseteq Blist
    <3>1. CASE bawrite(reg[p])
      BY <2>1, <3>1 DEF bawrite, strat
    <3>2. CASE UNCHANGED <<flags, ioq>>
      BY <3>2
    <3> QED
      BY <1>22, <3>1, <3>2 DEF Sync
  <2>4. UNCHANGED <<blkdev, fresh, time, count, saved, nerr, bad, event, sb, i, f>>
    BY <1>22 DEF Sync
  <2> QED
    BY <2>2, <2>3, <2>4 DEF RegTypeOK
<1>23. CASE FlushSkip(p)
  <2>1. reg[p] \in Blist
    BY <1>23 DEF FlushSkip, At, CpuInv, CpuP
  <2>2. RegTypeOK'
    BY <1>23, <2>1, AdvanceType DEF FlushSkip, At, CpuInv, CpuP
  <2> QED
    BY <1>23, <2>1, <2>2 DEF FlushSkip, RegTypeOK
<1>24. CASE FlushBusy(p)
  BY <1>24 DEF FlushBusy, At, sleep, CpuInv, CpuP
<1>25. CASE FlushDirty(p)
  <2>1. reg[p] \in Blist
    BY <1>25 DEF FlushDirty, At, CpuInv, CpuP
  <2>2. RegTypeOK'
    BY <1>25, <2>1, GotoType DEF FlushDirty, At
  <2> QED
    BY <1>25, <2>1, <2>2 DEF FlushDirty, bwrite, strat, RegTypeOK
<1>26. CASE FlushClean(p)
  <2>1. reg[p] \in Blist /\ flags[reg[p]] \in SUBSET Flag
    BY <1>26 DEF FlushClean, At, CpuInv, CpuP
  <2>2. /\ flags' \in [Blist -> SUBSET Flag] /\ event' \in [Proc -> 0..NBUF]
        /\ count' \in 0 .. TimeMod - 1 /\ time' \in [Blist -> 0 .. TimeMod - 1]
        /\ blkdev' \in [Blist -> Block \cup {NoBlock}]
    BY <1>26, <2>1, ReleaseAndZeroType DEF FlushClean
  <2>3. RegTypeOK'
    BY <1>0, <1>26, <2>1, AdvanceType DEF FlushClean, At, CpuInv, CpuP
  <2> QED
    BY <1>26, <2>1, <2>2, <2>3 DEF FlushClean, RegTypeOK
<1>27. CASE FlushWritten(p)
  <2>1. reg[p] \in Blist /\ flags[reg[p]] \in SUBSET Flag
    BY <1>27 DEF FlushWritten, At, CpuInv, CpuP
  <2>2. /\ flags' \in [Blist -> SUBSET Flag] /\ event' \in [Proc -> 0..NBUF]
        /\ count' \in 0 .. TimeMod - 1 /\ time' \in [Blist -> 0 .. TimeMod - 1]
        /\ blkdev' \in [Blist -> Block \cup {NoBlock}]
    BY <1>27, <2>1, ReleaseAndZeroType DEF FlushWritten
  <2>3. RegTypeOK'
    BY <1>0, <1>27, <2>1, AdvanceType DEF FlushWritten, At, CpuInv, CpuP
  <2> QED
    BY <1>27, <2>1, <2>2, <2>3 DEF FlushWritten, RegTypeOK
<1> QED
  BY <1>1, <1>2, <1>3, <1>4, <1>5, <1>6, <1>7, <1>8, <1>9, <1>10, <1>11, <1>12, <1>13, <1>14, <1>15, <1>16, <1>17, <1>18, <1>19, <1>20, <1>21, <1>22, <1>23, <1>24, <1>25, <1>26, <1>27 DEF Step, Bget, Bio, Flush, Use
-----------------------------------------------------------------------------
(* The steps of a process preserve the locks.                              *)

\* The arguments of Lock are well typed.
LEMMA LockTypeOK == ASSUME TypeOK PROVE LockType(Regs, sb, event, Waiting, flags, ioq)
  BY ConstAssumption DEF TypeOK, LockType, Regs, Waiting, Blist

\* What Goto does to the buffers processes hold and wait for.
LEMMA GotoRegs ==
  ASSUME TypeOK, NEW p \in Proc, NEW l, NEW b, Goto(p, l, b)
  PROVE  /\ Regs' = [Regs EXCEPT ![p] = IF l \in Holding THEN b ELSE 0]
         /\ Waiting' = IF l = "bwait" THEN Waiting \cup {p} ELSE Waiting \ {p}
  BY DEF TypeOK, Goto, Regs, Waiting

\* A process back in user mode holds and waits for nothing.
LEMMA ReturnRegs ==
  ASSUME TypeOK, NEW p \in Proc, Return(p)
  PROVE  Regs' = [Regs EXCEPT ![p] = 0] /\ Waiting' = Waiting \ {p}
  BY DEF TypeOK, Return, Regs, Waiting, Holding

\* A process in the loop of bsync or bflush holds nothing.
LEMMA AdvanceRegs ==
  ASSUME TypeOK, NEW p \in Proc, op[p] \in {"sync", "flush"}, Advance(p)
  PROVE  Regs' = [Regs EXCEPT ![p] = 0] /\ Waiting' = Waiting \ {p}
<1>1. CASE Goto(p, op[p], reg[p] + 1)
  BY <1>1, GotoRegs DEF Holding
<1>2. CASE Return(p)
  BY <1>2, ReturnRegs
<1> QED
  BY <1>1, <1>2 DEF Advance

\* A process that looks at no buffer, or holds one.
LEMMA NotHolding ==
  ASSUME TypeOK, NEW p \in Proc, pc[p] \notin Holding
  PROVE  Regs[p] = 0 /\ p \notin Waiting /\ Regs = [Regs EXCEPT ![p] = 0] /\ Waiting = Waiting \ {p}
  BY DEF TypeOK, Regs, Waiting, Holding

\* A process that holds the buffer in its register.
LEMMA IsHolding ==
  ASSUME TypeOK, CpuInv, NEW p \in Proc, pc[p] \in Holding
  PROVE  /\ reg[p] \in Blist /\ Regs[p] = reg[p] /\ Regs[p] # 0
         /\ Regs = [Regs EXCEPT ![p] = reg[p]]
         /\ p \in Waiting <=> pc[p] = "bwait"
<1>1. reg[p] # 0
  BY DEF CpuInv, CpuP, Holding
<1>2. Regs[p] = reg[p] /\ reg[p] \in Blist
  BY <1>1 DEF TypeOK, Regs, Blist
<1> QED
  BY <1>1, <1>2 DEF TypeOK, Regs, Waiting

\* brelse wakes the sleepers even if it looks at BWANT only: there are none
\* when the flag is clear.
LEMMA BrelseWakes ==
  ASSUME TypeOK, LockInv, NEW b \in Blist, NEW fl,
         "BWANT" \in flags[b] => "BWANT" \in fl,
         event' = IF "BWANT" \in fl THEN wakeup(b) ELSE event
  PROVE  event' = Woken(event, b)
<1>1. "BWANT" \notin flags[b] => \A q \in Proc : event[q] # b
  BY DEF TypeOK, LockInv, Lock, Wakeable, Blist
<1>2. event = [q \in Proc |-> event[q]]
  BY DEF TypeOK
<1>3. CASE "BWANT" \in fl
  BY <1>3 DEF wakeup, Woken
<1>4. CASE "BWANT" \notin fl
  BY <1>1, <1>2, <1>4 DEF Woken
<1> QED
  BY <1>3, <1>4

\* A process that waits for its own buffer has it done before it goes on; a
\* buffer held otherwise is not queued.
LEMMA NotQueued ==
  ASSUME TypeOK, LockInv, NEW p \in Proc, Regs[p] # 0, p \in Waiting => Done(Regs[p])
  PROVE  Regs[p] \notin ioq
  BY DEF TypeOK, LockInv, Lock, Queued, Done

\* bget preserves the lock invariant.
LEMMA LockStepBget == ASSUME IInv, NEW p \in Proc, Bget(p) PROVE LockInv'
<1> USE LockTypeOK DEF IInv, At
<1>1. event[p] = 0 /\ Regs[p] = 0 /\ p \notin Waiting
      /\ Regs = [Regs EXCEPT ![p] = 0] /\ Waiting = Waiting \ {p}
  BY NotHolding DEF Bget, ScanHit, ScanBusy, ScanNext, ScanSpin, TakeDirty, TakeClean, Holding
<1>2. CASE ScanHit(p)
  <2>0. Goto(p, "got", i)
    BY <1>2 DEF ScanHit
  <2>1. Regs' = [Regs EXCEPT ![p] = i] /\ Waiting' = Waiting
    BY <1>1, <2>0, GotoRegs DEF Holding
  <2>2. i \in Blist /\ "BBUSY" \notin flags[i]
    BY <1>2 DEF ScanHit, Busy
  <2> DEFINE x == flags[i] \cup {"BBUSY"}
  <2>3. flags' = [flags EXCEPT ![i] = x] /\ UNCHANGED <<sb, event, ioq>>
    BY <1>2 DEF ScanHit
  <2>4. "BBUSY" \in x
    OBVIOUS
  <2> QED
    BY <1>1, <2>1, <2>2, <2>3, <2>4, LockStep DEF LockInv
<1>3. CASE ScanBusy(p)
  <2>1. Regs' = Regs /\ Waiting' = Waiting
    BY <1>1, <1>3 DEF ScanBusy, sleep, Regs, Waiting, Holding, TypeOK
  <2>2. i \in Blist /\ "BBUSY" \in flags[i]
    BY <1>3 DEF ScanBusy, Busy
  <2>3. /\ flags' = [flags EXCEPT ![i] = @ \cup {"BWANT"}]
        /\ event' = [event EXCEPT ![p] = i]
        /\ UNCHANGED <<sb, ioq>>
    BY <1>3 DEF ScanBusy, sleep
  <2> QED
    BY <1>1, <2>1, <2>2, <2>3, SleepStep DEF LockInv
<1>4. CASE ScanNext(p) \/ ScanSpin(p)
  <2>1. Regs' = Regs /\ Waiting' = Waiting
    BY <1>1, <1>4, GotoRegs DEF ScanNext, ScanSpin, Holding
  <2>2. UNCHANGED <<sb, event, flags, ioq>>
    BY <1>4 DEF ScanNext, ScanSpin
  <2> QED
    BY <2>1, <2>2 DEF LockInv
<1>5. CASE TakeDirty(p)
  <2>1. f \in Blist /\ "BBUSY" \notin flags[f]
    BY <1>5 DEF TakeDirty, ScanInv, CandidateStaysFree, Avail, TypeOK, Blist
  <2>2. Regs' = [Regs EXCEPT ![p] = f] /\ Waiting' = Waiting \cup {p}
    BY <1>1, <1>5, GotoRegs DEF TakeDirty, Holding
  <2> DEFINE x == (((flags[f] \cup {"BBUSY", "BSYNC"}) \ {"BREAD"}) \cup {"BBUSY"}) \ {"BDONE", "BERROR"}
  <2>3. flags' = [flags EXCEPT ![f] = x] /\ ioq' = ioq \cup {f} /\ UNCHANGED <<sb, event>>
    BY <1>5 DEF TakeDirty, bwrite, strat
  <2>4. "BBUSY" \in x /\ "BSYNC" \in x /\ "BDONE" \notin x
    OBVIOUS
  <2> QED
    BY <1>1, <2>1, <2>2, <2>3, <2>4, WriteStep DEF LockInv
<1>6. CASE TakeClean(p)
  <2>1. f \in Blist /\ "BBUSY" \notin flags[f]
    BY <1>6 DEF TakeClean, ScanInv, CandidateStaysFree, Avail, TypeOK, Blist
  <2>2. Regs' = [Regs EXCEPT ![p] = f] /\ Waiting' = Waiting
    BY <1>1, <1>6, GotoRegs DEF TakeClean, Holding
  <2> DEFINE x == (flags[f] \cup {"BBUSY"}) \ {"BDONE"}
  <2>3. flags' = [flags EXCEPT ![f] = x] /\ UNCHANGED <<sb, event, ioq>>
    BY <1>6 DEF TakeClean
  <2>4. "BBUSY" \in x
    OBVIOUS
  <2> QED
    BY <1>1, <2>1, <2>2, <2>3, <2>4, LockStep DEF LockInv
<1> QED
  BY <1>2, <1>3, <1>4, <1>5, <1>6 DEF Bget

\* So do bread, aread and the end of bwrite.
LEMMA LockStepBio == ASSUME IInv, NEW p \in Proc, Bio(p) PROVE LockInv'
<1> USE LockTypeOK DEF IInv, At
<1>1. event[p] = 0
  BY DEF Bio, AreadHit, AreadMiss, GotValid, GotRead, GotAhead, BwaitSleep, BwaitRead,
         BwaitError, BwaitWrite
<1>2. CASE AreadHit(p) \/ AreadMiss(p)
  <2>1. pc[p] \notin Holding
    BY <1>2 DEF AreadHit, AreadMiss, Holding
  <2>2. Regs' = [Regs EXCEPT ![p] = 0] /\ Waiting' = Waiting \ {p}
    BY <1>2, GotoRegs, ReturnRegs DEF AreadHit, AreadMiss, Holding
  <2>3. UNCHANGED <<sb, event, flags, ioq>>
    BY <1>2 DEF AreadHit, AreadMiss
  <2> QED
    BY <2>1, <2>2, <2>3, NotHolding DEF LockInv
<1>3. CASE GotValid(p)
  <2>1. pc[p] \in Holding /\ pc[p] # "bwait"
    BY <1>3 DEF GotValid, Holding
  <2>2. Regs' = [Regs EXCEPT ![p] = reg[p]] /\ Waiting' = Waiting \ {p}
    BY <1>3, GotoRegs DEF GotValid, Holding
  <2>3. UNCHANGED <<sb, event, flags, ioq>>
    BY <1>3 DEF GotValid
  <2>4. Regs' = Regs /\ p \notin Waiting
    BY <2>1, <2>2, IsHolding
  <2> QED
    BY <1>1, <2>2, <2>3, <2>4, QuietStep DEF LockInv
<1>4. CASE GotRead(p)
  <2>1. pc[p] \in Holding
    BY <1>4 DEF GotRead, Holding
  <2>2. Goto(p, "bwait", reg[p])
    BY <1>4 DEF GotRead
  <2>3. Regs' = [Regs EXCEPT ![p] = reg[p]] /\ Waiting' = Waiting \cup {p}
    BY <2>2, GotoRegs DEF Holding
  <2>4. Regs' = Regs /\ Regs[p] = reg[p] /\ Regs[p] # 0
    BY <2>1, <2>3, IsHolding
  <2> DEFINE x == ((flags[reg[p]] \cup {"BREAD", "BSYNC"}) \cup {"BBUSY"}) \ {"BDONE", "BERROR"}
  <2>5. /\ flags' = [flags EXCEPT ![Regs[p]] = x] /\ ioq' = ioq \cup {Regs[p]}
        /\ UNCHANGED <<sb, event>>
    BY <1>4, <2>4 DEF GotRead, strat
  <2>6. /\ "BBUSY" \in x /\ "BSYNC" \in x /\ "BDONE" \notin x
        /\ "BWANT" \in flags[Regs[p]] => "BWANT" \in x
    BY <2>4
  <2> QED
    BY <1>1, <2>3, <2>4, <2>5, <2>6, ReadStep DEF LockInv
<1>5. CASE GotAhead(p)
  <2>1. pc[p] \in Holding /\ pc[p] # "bwait"
    BY <1>5 DEF GotAhead, Holding
  <2>2. Return(p)
    BY <1>5 DEF GotAhead
  <2>3. Regs' = [Regs EXCEPT ![p] = 0] /\ Waiting' = Waiting \ {p}
    BY <2>2, ReturnRegs
  <2>4. Regs[p] = reg[p] /\ Regs[p] # 0 /\ p \notin Waiting /\ Waiting' = Waiting
    BY <2>1, <2>3, IsHolding
  <2> DEFINE x == (((flags[reg[p]] \ {"BSYNC"}) \cup {"BREAD"}) \cup {"BBUSY"}) \ {"BDONE", "BERROR"}
  <2>5. /\ flags' = [flags EXCEPT ![Regs[p]] = x] /\ ioq' = ioq \cup {Regs[p]}
        /\ UNCHANGED <<sb, event>>
    BY <1>5, <2>4 DEF GotAhead, strat
  <2>6. /\ "BBUSY" \in x /\ "BSYNC" \notin x /\ "BDONE" \notin x
        /\ "BWANT" \in flags[Regs[p]] => "BWANT" \in x
    BY <2>4
  <2> QED
    BY <1>1, <2>3, <2>4, <2>5, <2>6, HandoffStep DEF LockInv
<1>6. CASE BwaitSleep(p)
  <2>1. pc[p] \in Holding /\ pc[p] = "bwait"
    BY <1>6 DEF BwaitSleep, Holding
  <2>2. Regs' = Regs /\ Waiting' = Waiting
    BY <1>6 DEF BwaitSleep, sleep, Regs, Waiting, TypeOK
  <2>3. Regs[p] = reg[p] /\ Regs[p] \in Blist /\ p \in Waiting
    BY <2>1, IsHolding
  <2>4. Regs[p] \in ioq /\ "BBUSY" \in flags[Regs[p]]
    BY <1>6, <2>3 DEF BwaitSleep, Done, LockInv, Lock, Queued
  <2>5. /\ flags' = [flags EXCEPT ![Regs[p]] = @ \cup {"BWANT"}]
        /\ event' = [event EXCEPT ![p] = Regs[p]]
        /\ UNCHANGED <<sb, ioq>>
    BY <1>6, <2>3 DEF BwaitSleep, sleep
  <2> QED
    BY <2>2, <2>3, <2>4, <2>5, SleepStep DEF LockInv
<1>7. CASE BwaitRead(p)
  <2>1. pc[p] \in Holding /\ Done(reg[p])
    BY <1>7 DEF BwaitRead, Holding, Valid
  <2>2. Goto(p, "hold", reg[p])
    BY <1>7 DEF BwaitRead
  <2>3. Regs' = Regs /\ Waiting' = Waiting \ {p} /\ Regs[p] # 0 /\ Regs[p] = reg[p]
    BY <2>1, <2>2, GotoRegs, IsHolding DEF Holding
  <2>4. Regs[p] \notin ioq
    BY <2>1, <2>3, NotQueued
  <2>5. UNCHANGED <<sb, event, flags, ioq>>
    BY <1>7 DEF BwaitRead
  <2> QED
    BY <1>1, <2>3, <2>4, <2>5, QuietStep DEF LockInv
<1>8. CASE BwaitError(p) \/ BwaitWrite(p)
  <2>1. pc[p] \in Holding /\ Done(reg[p])
    BY <1>8 DEF BwaitError, BwaitWrite, Holding
  <2>2. Regs' = [Regs EXCEPT ![p] = 0] /\ Waiting' = Waiting \ {p}
    BY <1>8, GotoRegs, ReturnRegs DEF BwaitError, BwaitWrite, Holding
  <2>3. reg[p] \in Blist /\ Regs[p] # 0 /\ Regs[p] = reg[p]
    BY <2>1, IsHolding
  <2>4. Regs[p] \notin ioq
    BY <2>1, <2>3, NotQueued
  <2>5. brelse(reg[p], flags[reg[p]]) /\ UNCHANGED <<sb, ioq>>
    BY <1>8 DEF BwaitError, BwaitWrite
  <2> DEFINE x == flags[reg[p]] \ {"BBUSY", "BWANT"}
  <2>6. flags' = [flags EXCEPT ![Regs[p]] = x] /\ event' = Woken(event, Regs[p])
    BY <2>3, <2>5, BrelseWakes DEF brelse
  <2>7. "BBUSY" \notin x
    OBVIOUS
  <2> QED
    BY <2>2, <2>3, <2>4, <2>5, <2>6, <2>7, ReleaseStep DEF LockInv
<1> QED
  BY <1>2, <1>3, <1>4, <1>5, <1>6, <1>7, <1>8 DEF Bio

\* A process that holds a buffer, not in bwait, releases it or hands it on.
LEMMA ReleaseHeld ==
  ASSUME IInv, NEW p \in Proc, pc[p] = "hold" \/ Done(reg[p]), pc[p] \in Holding,
         NEW fl, "BWANT" \in flags[reg[p]] => "BWANT" \in fl,
         event' = IF "BWANT" \in fl THEN wakeup(reg[p]) ELSE event,
         NEW x, "BBUSY" \notin x, flags' = [flags EXCEPT ![reg[p]] = x],
         UNCHANGED <<sb, ioq>>,
         Regs' = [Regs EXCEPT ![p] = 0], Waiting' = Waiting \ {p}
  PROVE  LockInv'
<1> USE LockTypeOK DEF IInv
<1>0. p \in Waiting => pc[p] = "bwait"
  BY DEF Waiting
<1>1. /\ reg[p] \in Blist /\ Regs[p] # 0 /\ Regs[p] = reg[p]
      /\ p \in Waiting => Done(reg[p])
  BY <1>0, IsHolding
<1>2. Regs[p] \notin ioq
  BY <1>1, NotQueued
<1>3. event' = Woken(event, Regs[p])
  BY <1>1, BrelseWakes
<1>4. flags' = [flags EXCEPT ![Regs[p]] = x] /\ sb' = sb /\ ioq' = ioq
  BY <1>1
<1>5. Lock([Regs EXCEPT ![p] = 0], sb, Woken(event, Regs[p]), Waiting \ {p},
           [flags EXCEPT ![Regs[p]] = x], ioq)
  BY <1>1, <1>2, ReleaseStep DEF LockInv
<1> QED
  BY <1>3, <1>4, <1>5 DEF LockInv

\* A process that holds a buffer gives it to an asynchronous write.
LEMMA BawriteHeld ==
  ASSUME IInv, NEW p \in Proc, pc[p] = "hold", bawrite(reg[p]), UNCHANGED <<sb, event>>,
         Regs' = [Regs EXCEPT ![p] = 0], Waiting' = Waiting \ {p}
  PROVE  LockInv'
<1> USE LockTypeOK DEF IInv
<1>1. Regs[p] = reg[p] /\ Regs[p] # 0 /\ p \notin Waiting /\ Waiting' = Waiting
  BY IsHolding DEF Holding
<1> DEFINE x == ((flags[reg[p]] \ {"BSYNC", "BREAD"}) \cup {"BBUSY"}) \ {"BDONE", "BERROR"}
<1>2. flags' = [flags EXCEPT ![Regs[p]] = x] /\ ioq' = ioq \cup {Regs[p]}
  BY <1>1 DEF bawrite, strat
<1>3. /\ "BBUSY" \in x /\ "BSYNC" \notin x /\ "BDONE" \notin x
      /\ "BWANT" \in flags[Regs[p]] => "BWANT" \in x
  BY <1>1
<1> QED
  BY <1>1, <1>2, <1>3, HandoffStep DEF LockInv

\* So do the cache's callers: iread, iwrite, balloc, bfree and bsync.
LEMMA LockStepUse == ASSUME IInv, NEW p \in Proc, Use(p) PROVE LockInv'
<1> USE LockTypeOK DEF IInv, At
<1>1. CASE HoldRead(p)
  <2>1. pc[p] = "hold" /\ pc[p] \in Holding /\ brelse(reg[p], flags[reg[p]]) /\ Return(p)
    BY <1>1 DEF HoldRead, Holding
  <2>2. UNCHANGED <<sb, ioq>>
    BY <1>1 DEF HoldRead
  <2>3. Regs' = [Regs EXCEPT ![p] = 0] /\ Waiting' = Waiting \ {p}
    BY <2>1, ReturnRegs
  <2> QED
    BY <2>1, <2>2, <2>3, ReleaseHeld DEF brelse
<1>2. CASE HoldWrite(p) \/ HoldBlock(p)
  <2>1. pc[p] = "hold" /\ pc[p] \in Holding /\ UNCHANGED sb
    BY <1>2 DEF HoldWrite, HoldBlock, Holding
  <2>2. Regs' = [Regs EXCEPT ![p] = 0] /\ Waiting' = Waiting \ {p}
    BY <1>2, GotoRegs, ReturnRegs DEF HoldWrite, HoldBlock, Holding
  <2>3. CASE bdwrite(reg[p]) /\ UNCHANGED ioq
    BY <2>1, <2>2, <2>3, ReleaseHeld DEF bdwrite, brelse
  <2>4. CASE bawrite(reg[p]) /\ UNCHANGED event
    BY <2>1, <2>2, <2>4, BawriteHeld
  <2> QED
    BY <1>2, <2>3, <2>4 DEF HoldWrite, HoldBlock
<1>3. CASE HoldSuper(p)
  <2>1. pc[p] \in Holding /\ pc[p] # "bwait" /\ event[p] = 0
    BY <1>3 DEF HoldSuper, Holding
  <2>2. Regs' = [Regs EXCEPT ![p] = 0] /\ Waiting' = Waiting \ {p}
    BY <1>3, GotoRegs DEF HoldSuper, Holding
  <2>3. Regs[p] = reg[p] /\ Regs[p] # 0 /\ p \notin Waiting /\ Waiting' = Waiting
    BY <2>1, <2>2, IsHolding
  <2>4. sb[p] = 0 /\ sb' = [sb EXCEPT ![p] = Regs[p]] /\ UNCHANGED <<event, flags, ioq>>
    BY <1>3, <2>3 DEF HoldSuper
  <2> QED
    BY <2>1, <2>2, <2>3, <2>4, KeepSuperStep DEF LockInv
<1>4. CASE RelSuper(p)
  <2>1. pc[p] = "relsb" /\ CpuP(p) /\ Return(p) /\ bdwrite(sb[p])
    BY <1>4 DEF RelSuper, CpuInv
  <2>2. sb[p] # 0
    BY <2>1 DEF CpuP
  <2>3. sb[p] \in Blist
    BY <2>2 DEF TypeOK, Blist
  <2>4. Regs' = Regs /\ Waiting' = Waiting
    BY <2>1, ReturnRegs, NotHolding DEF Holding
  <2>5. event' = Woken(event, sb[p])
    BY <2>1, <2>3, BrelseWakes DEF bdwrite, brelse
  <2> DEFINE x == (flags[sb[p]] \cup {"BDELWRI", "BDONE"}) \ {"BBUSY", "BWANT"}
  <2>6. flags' = [flags EXCEPT ![sb[p]] = x] /\ sb' = [sb EXCEPT ![p] = 0] /\ UNCHANGED ioq
    BY <1>4 DEF RelSuper, bdwrite, brelse
  <2>7. "BBUSY" \notin x
    OBVIOUS
  <2> QED
    BY <2>2, <2>4, <2>5, <2>6, <2>7, ReleaseSuperStep DEF LockInv
<1>5. CASE HoldSync(p)
  <2>1. pc[p] = "hold" /\ pc[p] \in Holding /\ UNCHANGED <<sb, ioq>> /\ Goto(p, "sync", 1)
    BY <1>5 DEF HoldSync, Holding
  <2>2. Regs' = [Regs EXCEPT ![p] = 0] /\ Waiting' = Waiting \ {p}
    BY <2>1, GotoRegs DEF Holding
  <2>3. bdwrite(reg[p])
    BY <1>5 DEF HoldSync
  <2> QED
    BY <2>1, <2>2, <2>3, ReleaseHeld DEF bdwrite, brelse
<1>6. CASE Sync(p)
  <2>1. pc[p] = "sync" /\ CpuP(p) /\ Advance(p) /\ UNCHANGED <<sb, event>>
    BY <1>6 DEF Sync, CpuInv
  <2>2. op[p] = "sync" /\ reg[p] # 0
    BY <2>1 DEF CpuP
  <2>3. reg[p] \in Blist
    BY <2>2 DEF TypeOK, Blist
  <2>4. Regs' = Regs /\ Waiting' = Waiting
    BY <2>1, <2>2, AdvanceRegs, NotHolding DEF Holding
  <2>5. CASE UNCHANGED <<flags, ioq>>
    BY <2>1, <2>4, <2>5 DEF LockInv
  <2>6. CASE ~Busy(reg[p]) /\ bawrite(reg[p])
    <3> DEFINE x == ((flags[reg[p]] \ {"BSYNC", "BREAD"}) \cup {"BBUSY"}) \ {"BDONE", "BERROR"}
    <3>1. flags' = [flags EXCEPT ![reg[p]] = x] /\ ioq' = ioq \cup {reg[p]}
      BY <2>6 DEF bawrite, strat
    <3>2. "BBUSY" \in x /\ "BSYNC" \notin x /\ "BDONE" \notin x
      OBVIOUS
    <3>3. "BBUSY" \notin flags[reg[p]]
      BY <2>6 DEF Busy
    <3> QED
      BY <2>1, <2>3, <2>4, <3>1, <3>2, <3>3, StartStep DEF LockInv
  <2> QED
    BY <1>6, <2>5, <2>6 DEF Sync
<1> QED
  BY <1>1, <1>2, <1>3, <1>4, <1>5, <1>6 DEF Use

\* So does bflush.
LEMMA LockStepFlush == ASSUME IInv, NEW p \in Proc, Flush(p) PROVE LockInv'
<1> USE LockTypeOK DEF IInv, At
<1>0. ASSUME pc[p] = "flush"
      PROVE  /\ op[p] = "flush" /\ reg[p] \in Blist /\ pc[p] \notin Holding
             /\ Regs[p] = 0 /\ p \notin Waiting
             /\ Regs = [Regs EXCEPT ![p] = 0] /\ Waiting = Waiting \ {p}
  <2>1. CpuP(p)
    BY DEF CpuInv
  <2>2. op[p] = "flush" /\ reg[p] # 0
    BY <1>0, <2>1 DEF CpuP
  <2>3. pc[p] \notin Holding /\ reg[p] \in Blist
    BY <1>0, <2>2 DEF TypeOK, Blist, Holding
  <2> QED
    BY <2>2, <2>3, NotHolding
<1>1. CASE FlushSkip(p)
  <2>1. pc[p] = "flush" /\ Advance(p) /\ UNCHANGED <<sb, event, flags, ioq>>
    BY <1>1 DEF FlushSkip
  <2> QED
    BY <1>0, <2>1, AdvanceRegs DEF LockInv
<1>2. CASE FlushBusy(p)
  <2>1. pc[p] = "flush" /\ "BBUSY" \in flags[reg[p]]
    BY <1>2 DEF FlushBusy, Busy
  <2>2. Regs' = Regs /\ Waiting' = Waiting
    BY <1>0, <1>2, <2>1 DEF FlushBusy, sleep, Regs, Waiting, Holding, TypeOK
  <2>3. /\ flags' = [flags EXCEPT ![reg[p]] = @ \cup {"BWANT"}]
        /\ event' = [event EXCEPT ![p] = reg[p]]
        /\ UNCHANGED <<sb, ioq>>
    BY <1>2 DEF FlushBusy, sleep
  <2> QED
    BY <1>0, <2>1, <2>2, <2>3, SleepStep DEF LockInv
<1>3. CASE FlushDirty(p)
  <2>1. pc[p] = "flush" /\ "BBUSY" \notin flags[reg[p]] /\ event[p] = 0
    BY <1>3 DEF FlushDirty, Busy
  <2>2. Goto(p, "bwait", reg[p])
    BY <1>3 DEF FlushDirty
  <2>3. Regs' = [Regs EXCEPT ![p] = reg[p]] /\ Waiting' = Waiting \cup {p}
    BY <2>2, GotoRegs DEF Holding
  <2> DEFINE x == (((flags[reg[p]] \cup {"BBUSY", "BSYNC"}) \ {"BREAD"}) \cup {"BBUSY"})
                    \ {"BDONE", "BERROR"}
  <2>4. /\ flags' = [flags EXCEPT ![reg[p]] = x] /\ ioq' = ioq \cup {reg[p]}
        /\ UNCHANGED <<sb, event>>
    BY <1>3 DEF FlushDirty, bwrite, strat
  <2>5. "BBUSY" \in x /\ "BSYNC" \in x /\ "BDONE" \notin x
    OBVIOUS
  <2> QED
    BY <1>0, <2>1, <2>3, <2>4, <2>5, WriteStep DEF LockInv
<1>4. CASE FlushClean(p)
  <2>1. pc[p] = "flush" /\ Advance(p) /\ "BBUSY" \notin flags[reg[p]]
    BY <1>4 DEF FlushClean, Busy
  <2>2. Regs' = Regs /\ Waiting' = Waiting
    BY <1>0, <2>1, AdvanceRegs
  <2>3. event' = Woken(event, reg[p])
    BY <1>0, <1>4, <2>1, BrelseWakes DEF FlushClean, ReleaseAndZero
  <2>4. event' = event
    <3>1. \A q \in Proc : event[q] # reg[p]
      BY <1>0, <2>1 DEF LockInv, Lock, Wakeable, Blist
    <3> QED
      BY <2>3, <3>1 DEF Woken, TypeOK
  <2>5. flags' = [flags EXCEPT ![reg[p]] = {}] /\ UNCHANGED <<sb, ioq>>
    BY <1>4 DEF FlushClean, ReleaseAndZero
  <2> QED
    BY <1>0, <2>1, <2>2, <2>4, <2>5, ZeroStep DEF LockInv
<1>5. CASE FlushWritten(p)
  <2>1. pc[p] \in Holding /\ Done(reg[p]) /\ op[p] = "flush" /\ Advance(p)
    BY <1>5 DEF FlushWritten, Holding
  <2>2. Regs' = [Regs EXCEPT ![p] = 0] /\ Waiting' = Waiting \ {p}
    BY <2>1, AdvanceRegs
  <2>3. /\ event' = IF "BWANT" \in flags[reg[p]] THEN wakeup(reg[p]) ELSE event
        /\ flags' = [flags EXCEPT ![reg[p]] = {}] /\ UNCHANGED <<sb, ioq>>
    BY <1>5 DEF FlushWritten, ReleaseAndZero
  <2> QED
    BY <2>1, <2>2, <2>3, ReleaseHeld
<1> QED
  BY <1>1, <1>2, <1>3, <1>4, <1>5 DEF Flush

\* So does the completion of a transfer, with or without an error.
LEMMA LockStepInterrupt == ASSUME IInv, Interrupt PROVE LockInv'
<1> USE LockTypeOK DEF IInv
<1>1. PICK b \in Blist, err \in BOOLEAN : b \in ioq /\ ioq' = ioq \ {b} /\ iodone(b, err)
                                        /\ UNCHANGED <<procVars, sb>>
  BY DEF Interrupt, Transfer, TransferError
<1>2. Regs' = Regs /\ Waiting' = Waiting /\ UNCHANGED sb
  BY <1>1 DEF procVars, Regs, Waiting
<1> DEFINE fl == (flags[b] \cup {"BDONE"} \cup (IF err THEN {"BERROR"} ELSE {})) \ {"BDELWRI"}
<1>3. "BSYNC" \in fl <=> "BSYNC" \in flags[b]
  OBVIOUS
<1>4. CASE "BSYNC" \in flags[b]
  <2>1. flags' = [flags EXCEPT ![b] = fl] /\ event' = Woken(event, b)
    BY <1>1, <1>3, <1>4 DEF iodone, wakeup, Woken
  <2>2. "BBUSY" \in flags[b]
    BY <1>1 DEF LockInv, Lock, Queued
  <2>3. {"BBUSY", "BSYNC", "BDONE"} \subseteq fl
    BY <1>4, <2>2
  <2> QED
    BY <1>1, <1>2, <1>4, <2>1, <2>3, SyncDoneStep DEF LockInv
<1>5. CASE "BSYNC" \notin flags[b]
  <2>1. brelse(b, fl)
    BY <1>1, <1>3, <1>5 DEF iodone
  <2>2. "BWANT" \in flags[b] => "BWANT" \in fl
    OBVIOUS
  <2>3. event' = Woken(event, b)
    BY <2>1, <2>2, BrelseWakes DEF brelse
  <2> DEFINE x == fl \ {"BBUSY", "BWANT"}
  <2>4. flags' = [flags EXCEPT ![b] = x] /\ "BBUSY" \notin x
    BY <2>1 DEF brelse
  <2> QED
    BY <1>1, <1>2, <1>5, <2>3, <2>4, AsyncDoneStep DEF LockInv
<1> QED
  BY <1>4, <1>5

\* So does a new system call.
LEMMA LockStepCall ==
  ASSUME IInv, NEW p \in Proc, NEW o \in Ops, NEW k \in Block, Call(p, o, k) PROVE LockInv'
<1>1. Regs' = Regs /\ Waiting' = Waiting
  BY DEF IInv, TypeOK, Call, Regs, Waiting, Holding
<1> QED
  BY <1>1 DEF IInv, LockInv, Call

-----------------------------------------------------------------------------
(* What a process knows of itself.  The others only get woken.             *)

\* The registers of the processes other than p.
OtherRegs(p) ==
  /\ cpu' \in {p, NoProc}
  /\ \A q \in Proc \ {p} :
       pc'[q] = pc[q] /\ op'[q] = op[q] /\ reg'[q] = reg[q] /\ want'[q] = want[q]

OnlyWakes == \A q \in Proc : event'[q] \in {0, event[q]}

\* Goto changes the registers of p alone.
LEMMA GotoOthers == ASSUME TypeOK, NEW p \in Proc, NEW l, NEW b, Goto(p, l, b) PROVE OtherRegs(p)
  BY DEF TypeOK, Goto, OtherRegs

\* So does the return to user mode.
LEMMA ReturnOthers == ASSUME TypeOK, NEW p \in Proc, Return(p) PROVE OtherRegs(p)
  BY DEF TypeOK, Return, OtherRegs

\* So does the loop step of bsync and bflush.
LEMMA AdvanceOthers == ASSUME TypeOK, NEW p \in Proc, Advance(p) PROVE OtherRegs(p)
  BY GotoOthers, ReturnOthers DEF Advance

\* brelse puts nobody to sleep.
LEMMA BrelseOnlyWakes ==
  ASSUME TypeOK, NEW b, NEW fl, event' = IF "BWANT" \in fl THEN wakeup(b) ELSE event
  PROVE  OnlyWakes
  BY DEF TypeOK, wakeup, OnlyWakes

\* A step that changes p alone, and wakes others at most, leaves the others
\* as CpuInv has them.
LEMMA CpuFrame ==
  ASSUME TypeOK, CpuInv, NEW p \in Proc, OtherRegs(p), CpuP(p)',
         \A q \in Proc \ {p} : event'[q] \in {0, event[q]} /\ sb'[q] = sb[q]
  PROVE  CpuInv'
<1> SUFFICES ASSUME NEW q \in Proc PROVE CpuP(q)'
  BY DEF CpuInv
<1>1. CASE q = p
  BY <1>1
<1>2. CASE q # p
  <2>1. cpu' # q
    BY <1>2, ConstAssumption DEF OtherRegs
  <2>2. CpuP(q)
    BY DEF CpuInv
  <2> QED
    BY <1>2, <2>1, <2>2 DEF CpuP, OtherRegs
<1> QED
  BY <1>1, <1>2

\* The state of a process after it has gone somewhere.
LEMMA GotoSelf ==
  ASSUME TypeOK, NEW p \in Proc, NEW l, NEW b, Goto(p, l, b)
  PROVE  cpu' = p /\ pc'[p] = l /\ reg'[p] = b /\ op'[p] = op[p]
  BY DEF TypeOK, Goto

\* What p's variables are after its return.
LEMMA ReturnSelf ==
  ASSUME TypeOK, NEW p \in Proc, Return(p)
  PROVE  cpu' = NoProc /\ pc'[p] = "idle"
  BY DEF TypeOK, Return

\* Returning preserves CpuInv.
LEMMA ReturnCpu ==
  ASSUME TypeOK, NEW p \in Proc, Return(p), event'[p] = 0, sb'[p] = 0
  PROVE  CpuP(p)'
  BY ReturnSelf, ConstAssumption DEF CpuP

\* Going on preserves CpuInv if the new place is consistent.
LEMMA GotoCpu ==
  ASSUME TypeOK, NEW p \in Proc, NEW l, NEW b, Goto(p, l, b), event'[p] = 0,
         l \notin {"idle", "aread"},
         l \in {"got", "bwait", "hold", "sync", "flush"} => b # 0,
         l \in {"sync", "flush"} => op[p] = l,
         l = "relsb" => sb'[p] # 0,
         sb'[p] # 0 => op[p] \in {"alloc", "chain"}
  PROVE  CpuP(p)'
  BY GotoSelf DEF CpuP

\* After an iteration of the loop of bsync or bflush.
LEMMA AdvanceCpu ==
  ASSUME TypeOK, CpuInv, NEW p \in Proc, Advance(p), event'[p] = 0, sb'[p] = sb[p],
         op[p] \in {"sync", "flush"}
  PROVE  CpuP(p)'
<1>1. sb[p] = 0
  BY DEF CpuInv, CpuP
<1>2. CASE Goto(p, op[p], reg[p] + 1)
  <2>1. reg[p] + 1 # 0
    BY DEF TypeOK
  <2>2. op[p] \notin {"idle", "aread"}
    OBVIOUS
  <2> QED
    BY <1>1, <1>2, <2>1, <2>2, GotoCpu
<1>3. CASE Return(p)
  BY <1>1, <1>3, ReturnCpu
<1> QED
  BY <1>2, <1>3 DEF Advance

\* sleep leaves p where it is, without the cpu.
LEMMA SleepCpu ==
  ASSUME TypeOK, CpuInv, NEW p \in Proc, NEW b, NEW r \in Nat \ {0}, sleep(p, b, r),
         pc[p] # "idle", UNCHANGED sb
  PROVE  CpuInv'
<1>1. OtherRegs(p) /\ \A q \in Proc \ {p} : event'[q] \in {0, event[q]} /\ sb'[q] = sb[q]
  BY DEF TypeOK, sleep, OtherRegs
<1>2. pc'[p] = pc[p] /\ reg'[p] = r /\ op'[p] = op[p] /\ sb'[p] = sb[p] /\ cpu' # p
  BY ConstAssumption DEF TypeOK, sleep
<1>3. CpuP(p)
  BY DEF CpuInv
<1>4. CpuP(p)'
  BY <1>2, <1>3 DEF CpuP
<1> QED
  BY <1>1, <1>4, CpuFrame

\* bget preserves CpuInv.
LEMMA CpuStepBget == ASSUME IInv, NEW p \in Proc, Bget(p) PROVE CpuInv'
<1> USE DEF IInv, At
<1>1. pc[p] = "scan" /\ event[p] = 0 /\ UNCHANGED sb /\ (sb[p] # 0 => op[p] \in {"alloc", "chain"})
  BY DEF Bget, ScanHit, ScanBusy, ScanNext, ScanSpin, TakeDirty, TakeClean, CpuInv, CpuP
<1>2. CASE ScanBusy(p)
  <2>1. sleep(p, i, 1)
    BY <1>2 DEF ScanBusy
  <2> QED
    BY <1>1, <2>1, SleepCpu
<1>3. CASE ~ScanBusy(p)
  <2>1. UNCHANGED event
    BY <1>3 DEF Bget, ScanHit, ScanNext, ScanSpin, TakeDirty, TakeClean
  <2>2. PICK l \in {"got", "scan", "bwait"}, b \in 1..NBUF : Goto(p, l, b)
    <3>1. 1 \in 1..NBUF
      BY ConstAssumption
    <3>2. (TakeDirty(p) \/ TakeClean(p)) => f \in 1..NBUF
      BY DEF TakeDirty, TakeClean, TypeOK
    <3> QED
      BY <1>3, <3>1, <3>2 DEF Bget, ScanHit, ScanNext, ScanSpin, TakeDirty, TakeClean, Blist
  <2>3. CpuP(p)'
    BY <1>1, <2>1, <2>2, GotoCpu
  <2> QED
    BY <1>1, <2>1, <2>2, <2>3, GotoOthers, CpuFrame
<1> QED
  BY <1>2, <1>3

\* So do bread, aread and the end of bwrite.
LEMMA CpuStepBio == ASSUME IInv, NEW p \in Proc, Bio(p) PROVE CpuInv'
<1> USE DEF IInv, At
<1>1. CpuP(p)
  BY DEF CpuInv
<1>2. event[p] = 0 /\ UNCHANGED sb /\ pc[p] \in {"aread", "got", "bwait"}
  BY DEF Bio, AreadHit, AreadMiss, GotValid, GotRead, GotAhead, BwaitSleep, BwaitRead,
         BwaitError, BwaitWrite
<1>3. pc[p] \in {"got", "bwait"} => reg[p] # 0
  BY <1>1 DEF CpuP
<1>4. sb[p] # 0 => op[p] \in {"alloc", "chain"}
  BY <1>1 DEF CpuP
<1>5. pc[p] = "aread" => op[p] = "ahead"
  BY <1>1 DEF CpuP
<1>6. CASE BwaitSleep(p)
  <2>1. sleep(p, reg[p], reg[p]) /\ pc[p] = "bwait"
    BY <1>6 DEF BwaitSleep
  <2>2. reg[p] \in Nat \ {0}
    BY <1>3, <2>1 DEF TypeOK
  <2> QED
    BY <1>2, <2>1, <2>2, SleepCpu
<1>7. CASE ~BwaitSleep(p)
  <2>1. OnlyWakes
    <3>1. CASE UNCHANGED event
      BY <3>1 DEF OnlyWakes
    <3>2. CASE brelse(reg[p], flags[reg[p]])
      BY <3>2, BrelseOnlyWakes DEF brelse
    <3> QED
      BY <1>7, <3>1, <3>2 DEF Bio, AreadHit, AreadMiss, GotValid, GotRead, GotAhead,
         BwaitRead, BwaitError, BwaitWrite
  <2>2. event'[p] = 0 /\ sb'[p] = sb[p]
    BY <1>2, <2>1 DEF OnlyWakes
  <2>3. CASE Return(p)
    <3>1. sb[p] = 0
      BY <1>4, <1>5, <1>7, <2>3, GotoSelf, ReturnSelf DEF Bio, AreadHit, AreadMiss, GotValid, GotRead, GotAhead,
         BwaitRead, BwaitError, BwaitWrite
    <3> QED
      BY <1>2, <2>1, <2>2, <2>3, <3>1, ReturnCpu, ReturnOthers, CpuFrame DEF OnlyWakes
  <2>4. CASE ~Return(p)
    <3>1. PICK l \in {"scan", "hold", "bwait", "relsb", "panic"}, b \in 0..NBUF : Goto(p, l, b)
                /\ (l \in {"hold", "bwait"} => b # 0) /\ (l = "relsb" => sb[p] # 0)
      <4>1. 0 \in 0..NBUF /\ 1 \in 0..NBUF /\ reg[p] \in 0..NBUF
        BY ConstAssumption DEF TypeOK
      <4> QED
        BY <1>3, <1>7, <2>4, <4>1 DEF Bio, AreadHit, AreadMiss, GotValid, GotRead, GotAhead,
           BwaitRead, BwaitError, BwaitWrite
    <3>2. CpuP(p)'
      BY <1>4, <2>2, <3>1, GotoCpu
    <3> QED
      BY <1>2, <2>1, <3>1, <3>2, GotoOthers, CpuFrame DEF OnlyWakes
  <2> QED
    BY <2>3, <2>4
<1> QED
  BY <1>6, <1>7

\* So do the cache's callers.
LEMMA CpuStepUse == ASSUME IInv, NEW p \in Proc, Use(p) PROVE CpuInv'
<1> USE DEF IInv, At
<1>1. CpuP(p)
  BY DEF CpuInv
<1>2. event[p] = 0 /\ pc[p] \in {"hold", "relsb", "sync"}
  BY DEF Use, HoldRead, HoldWrite, HoldSuper, HoldBlock, RelSuper, HoldSync, Sync
<1>3. sb[p] # 0 => op[p] \in {"alloc", "chain"}
  BY <1>1 DEF CpuP
<1>4. OnlyWakes
  <2>1. CASE UNCHANGED event
    BY <2>1 DEF OnlyWakes
  <2>2. CASE \E b, fl : brelse(b, fl)
    BY <2>2, BrelseOnlyWakes DEF brelse
  <2> QED
    BY <2>1, <2>2 DEF Use, HoldRead, HoldWrite, HoldSuper, HoldBlock, RelSuper, HoldSync, Sync, bdwrite
<1>5. event'[p] = 0
  BY <1>2, <1>4 DEF OnlyWakes
<1>6. CASE HoldRead(p) \/ HoldWrite(p)
  <2>1. Return(p) /\ UNCHANGED sb /\ sb[p] = 0
    BY <1>3, <1>6 DEF HoldRead, HoldWrite
  <2>2. CpuP(p)'
    BY <1>5, <2>1, ReturnCpu
  <2> QED
    BY <1>4, <2>1, <2>2, ReturnOthers, CpuFrame DEF OnlyWakes
<1>7. CASE HoldSuper(p)
  <2>1. PICK l \in {"scan", "relsb"}, b \in 0..NBUF : Goto(p, l, b)
    BY <1>7, ConstAssumption DEF HoldSuper
  <2>2. sb' = [sb EXCEPT ![p] = reg[p]] /\ op[p] \in {"alloc", "chain"} /\ pc[p] = "hold"
    BY <1>7 DEF HoldSuper
  <2>3. sb'[p] # 0
    BY <1>1, <2>2 DEF CpuP, TypeOK
  <2>4. CpuP(p)'
    BY <1>5, <2>1, <2>2, <2>3, GotoCpu
  <2> QED
    BY <1>4, <2>1, <2>2, <2>4, GotoOthers, CpuFrame DEF OnlyWakes, TypeOK
<1>8. CASE HoldBlock(p)
  <2>1. Goto(p, "relsb", 0) /\ UNCHANGED sb /\ op[p] \in {"alloc", "chain"} /\ sb[p] # 0
    BY <1>8 DEF HoldBlock
  <2>2. CpuP(p)'
    BY <1>5, <2>1, GotoCpu
  <2> QED
    BY <1>4, <2>1, <2>2, GotoOthers, CpuFrame DEF OnlyWakes
<1>9. CASE RelSuper(p)
  <2>1. Return(p) /\ sb' = [sb EXCEPT ![p] = 0] /\ sb'[p] = 0
    BY <1>9 DEF RelSuper, TypeOK
  <2>2. CpuP(p)'
    BY <1>5, <2>1, ReturnCpu
  <2> QED
    BY <1>4, <2>1, <2>2, ReturnOthers, CpuFrame DEF OnlyWakes, TypeOK
<1>10. CASE HoldSync(p)
  <2>1. Goto(p, "sync", 1) /\ UNCHANGED sb /\ op[p] = "sync" /\ sb[p] = 0
    BY <1>3, <1>10 DEF HoldSync
  <2>2. CpuP(p)'
    BY <1>5, <2>1, GotoCpu
  <2> QED
    BY <1>4, <2>1, <2>2, GotoOthers, CpuFrame DEF OnlyWakes
<1>11. CASE Sync(p)
  <2>1. Advance(p) /\ UNCHANGED sb /\ op[p] = "sync"
    BY <1>1, <1>11 DEF Sync, CpuP
  <2>2. CpuP(p)'
    BY <1>5, <2>1, AdvanceCpu
  <2> QED
    BY <1>4, <2>1, <2>2, AdvanceOthers, CpuFrame DEF OnlyWakes
<1> QED
  BY <1>6, <1>7, <1>8, <1>9, <1>10, <1>11 DEF Use

\* So does bflush.
LEMMA CpuStepFlush == ASSUME IInv, NEW p \in Proc, Flush(p) PROVE CpuInv'
<1> USE DEF IInv, At
<1>1. CpuP(p)
  BY DEF CpuInv
<1>2. event[p] = 0 /\ pc[p] \in {"flush", "bwait"} /\ UNCHANGED sb
  BY DEF Flush, FlushSkip, FlushBusy, FlushDirty, FlushClean, FlushWritten
<1>3. op[p] = "flush" /\ sb[p] = 0 /\ reg[p] # 0
  BY <1>1 DEF CpuP, Flush, FlushSkip, FlushBusy, FlushDirty, FlushClean, FlushWritten
<1>4. CASE FlushBusy(p)
  <2>1. sleep(p, reg[p], 1)
    BY <1>4 DEF FlushBusy
  <2> QED
    BY <1>2, <2>1, SleepCpu
<1>5. CASE ~FlushBusy(p)
  <2>1. OnlyWakes
    <3>1. CASE UNCHANGED event
      BY <3>1 DEF OnlyWakes
    <3>2. CASE ReleaseAndZero(reg[p])
      BY <3>2, BrelseOnlyWakes DEF ReleaseAndZero
    <3> QED
      BY <1>5, <3>1, <3>2 DEF Flush, FlushSkip, FlushDirty, FlushClean, FlushWritten
  <2>2. event'[p] = 0
    BY <1>2, <2>1 DEF OnlyWakes
  <2>3. CASE Advance(p)
    <3>1. CpuP(p)'
      BY <1>2, <1>3, <2>2, <2>3, AdvanceCpu
    <3> QED
      BY <1>2, <2>1, <2>3, <3>1, AdvanceOthers, CpuFrame DEF OnlyWakes
  <2>4. CASE Goto(p, "bwait", reg[p])
    <3>1. CpuP(p)'
      BY <1>2, <1>3, <2>2, <2>4, GotoCpu
    <3> QED
      BY <1>2, <2>1, <2>4, <3>1, GotoOthers, CpuFrame DEF OnlyWakes
  <2> QED
    BY <1>5, <2>3, <2>4 DEF Flush, FlushSkip, FlushDirty, FlushClean, FlushWritten
<1> QED
  BY <1>4, <1>5

\* So does the completion of a transfer.
LEMMA CpuStepInterrupt == ASSUME IInv, Interrupt PROVE CpuInv'
<1> USE DEF IInv
<1>1. PICK b \in Blist, err \in BOOLEAN : iodone(b, err) /\ UNCHANGED <<procVars, sb>>
  BY DEF Interrupt, Transfer, TransferError
<1>2. OnlyWakes
  <2>1. CASE event' = wakeup(b)
    BY <2>1 DEF OnlyWakes, wakeup, TypeOK
  <2>2. CASE \E fl : brelse(b, fl)
    BY <2>2, BrelseOnlyWakes DEF brelse
  <2> QED
    BY <1>1, <2>1, <2>2 DEF iodone
<1> SUFFICES ASSUME NEW q \in Proc PROVE CpuP(q)'
  BY DEF CpuInv
<1>3. CpuP(q) /\ event'[q] \in {0, event[q]}
  BY <1>2 DEF CpuInv, OnlyWakes
<1> QED
  BY <1>1, <1>3 DEF CpuP, procVars

\* So does a new system call.
LEMMA CpuStepCall ==
  ASSUME IInv, NEW p \in Proc, NEW o \in Ops, NEW k \in Block, Call(p, o, k) PROVE CpuInv'
<1> USE DEF IInv
<1>1. CpuP(p) /\ pc[p] = "idle" /\ UNCHANGED <<event, sb>>
  BY DEF CpuInv, Call
<1>2. event[p] = 0 /\ sb[p] = 0
  BY <1>1 DEF CpuP
<1>3. OtherRegs(p)
  BY DEF Call, OtherRegs, TypeOK
<1>4. /\ cpu' = p /\ reg'[p] = 1 /\ op'[p] = o /\ pc'[p] \in {"aread", "flush", "scan"}
      /\ (pc'[p] = "aread" => o = "ahead") /\ (pc'[p] = "flush" => o = "flush")
  BY DEF Call, TypeOK
<1>5. CpuP(p)'
  BY <1>1, <1>2, <1>4 DEF CpuP
<1> QED
  BY <1>1, <1>3, <1>5, CpuFrame

-----------------------------------------------------------------------------
(* bget's scan, and one buffer per block.                                   *)

\* A scan that starts again has no candidate.
LEMMA ScanReset == ASSUME Rescan PROVE ScanInv'
  BY ConstAssumption DEF Rescan, ScanInv, CandidateStaysFree

\* Nobody else is in the middle of a scan.
LEMMA ScanAlone ==
  ASSUME TypeOK, ScanInv, NEW p \in Proc, cpu \in {p, NoProc}
  PROVE  /\ pc[p] # "scan" => i = 1 /\ f = 0
         /\ i # 1 => cpu = p
  BY ConstAssumption DEF ScanInv

\* bget keeps its candidate free: while p scans nobody else takes a buffer.
LEMMA ScanStepBget == ASSUME IInv, NEW p \in Proc, Bget(p) PROVE ScanInv'
<1> USE DEF IInv, At
<1>1. CASE ScanNext(p)
  <2>1. i \in Blist /\ i' = i + 1 /\ UNCHANGED <<blkdev, flags, sb>> /\ Goto(p, "scan", 1)
        /\ blkdev[i] # Target(p)
    BY <1>1 DEF ScanNext
  <2>2. f' = IF Avail(i) /\ (f = 0 \/ time[i] < time[f]) THEN i ELSE f
    BY <1>1 DEF ScanNext
  <2>3. i # 1 => cpu = p
    BY <1>1, ScanAlone DEF ScanNext
  <2>4. Target(p)' = Target(p) /\ cpu' = p /\ pc'[p] = "scan"
    BY <2>1, GotoSelf DEF Target, Goto, TypeOK
  <2>5. f' < i'
    BY <2>1, <2>2 DEF TypeOK, ScanInv, Blist
  <2>6. CandidateStaysFree'
    BY <2>1, <2>2 DEF ScanInv, CandidateStaysFree, Avail
  <2>7. \A b \in Blist : b < i' => blkdev[b] # Target(p)
    BY <2>1, <2>3 DEF ScanInv, Blist
  <2> QED
    BY <2>1, <2>4, <2>5, <2>6, <2>7 DEF ScanInv
<1>2. CASE ~ScanNext(p)
  <2>1. Rescan
    BY <1>2 DEF Bget, ScanHit, ScanBusy, ScanSpin, TakeDirty, TakeClean
  <2> QED
    BY <2>1, ScanReset
<1> QED
  BY <1>1, <1>2

\* A process that is not scanning runs only while no scan is under way.
LEMMA ScanStepOther ==
  ASSUME IInv, NEW p \in Proc, Bio(p) \/ Flush(p) \/ Use(p) PROVE ScanInv'
<1> USE DEF IInv, At
<1>1. cpu \in {p, NoProc} /\ pc[p] # "scan" /\ UNCHANGED <<i, f>>
  <2>1. CASE Bio(p)
    BY <2>1 DEF Bio, AreadHit, AreadMiss, GotValid, GotRead, GotAhead, BwaitSleep, BwaitRead,
       BwaitError, BwaitWrite
  <2>2. CASE Flush(p)
    BY <2>2 DEF Flush, FlushSkip, FlushBusy, FlushDirty, FlushClean, FlushWritten
  <2>3. CASE Use(p)
    BY <2>3 DEF Use, HoldRead, HoldWrite, HoldSuper, HoldBlock, RelSuper, HoldSync, Sync
  <2> QED
    BY <2>1, <2>2, <2>3
<1>2. Rescan
  BY <1>1, ScanAlone DEF Rescan
<1> QED
  BY <1>2, ScanReset

\* A system call starts only while no scan is under way.
LEMMA ScanStepCall ==
  ASSUME IInv, NEW p \in Proc, NEW o \in Ops, NEW k \in Block, Call(p, o, k) PROVE ScanInv'
<1>1. i = 1 /\ f = 0 /\ UNCHANGED <<i, f>>
  BY ScanAlone DEF IInv, Call
<1> QED
  BY <1>1, ScanReset DEF Rescan

\* An interrupt completes requests of busy buffers, never of the candidate.
LEMMA ScanStepInterrupt == ASSUME IInv, Interrupt PROVE ScanInv'
<1> USE DEF IInv
<1>1. PICK b \in Blist, err \in BOOLEAN : b \in ioq /\ iodone(b, err)
                                        /\ UNCHANGED <<procVars, sb, blkdev, i, f>>
  BY DEF Interrupt, Transfer, TransferError
<1>2. "BBUSY" \in flags[b]
  BY <1>1 DEF LockInv, Lock, Queued
<1>3. \A c \in Blist \ {b} : flags'[c] = flags[c]
  BY <1>1 DEF iodone, brelse, TypeOK
<1>4. f # 0 => f \in Blist \ {b}
  BY <1>2 DEF ScanInv, CandidateStaysFree, Avail, TypeOK, Blist
<1>5. CandidateStaysFree'
  BY <1>1, <1>3, <1>4 DEF ScanInv, CandidateStaysFree, Avail
<1>6. \A q : Target(q)' = Target(q)
  BY <1>1 DEF Target, procVars
<1> QED
  BY <1>1, <1>5, <1>6 DEF ScanInv, procVars

\* A buffer gets a new block only at the end of a scan that has not found it.
LEMMA OneBufferStep == ASSUME IInv, NEW p \in Proc, Step(p) PROVE OneBufferPerBlock'
<1> USE DEF IInv, At
<1>1. CASE TakeClean(p)
  <2>1. f \in Blist /\ blkdev' = [blkdev EXCEPT ![f] = Target(p)] /\ i = NBUF + 1
    BY <1>1 DEF TakeClean, TypeOK, Blist
  <2>2. cpu = p
    BY <1>1, <2>1, ScanAlone, ConstAssumption DEF TakeClean
  <2>3. \A b \in Blist : blkdev[b] # Target(p)
    BY <2>1, <2>2, ConstAssumption DEF ScanInv, Blist
  <2> QED
    BY <2>1, <2>3 DEF OneBufferPerBlock, TypeOK
<1>2. CASE FlushClean(p) \/ FlushWritten(p)
  <2>1. blkdev' = [blkdev EXCEPT ![reg[p]] = NoBlock]
    BY <1>2 DEF FlushClean, FlushWritten, ReleaseAndZero
  <2> QED
    BY <2>1 DEF OneBufferPerBlock, TypeOK
<1>3. CASE ~TakeClean(p) /\ ~FlushClean(p) /\ ~FlushWritten(p)
  <2>1. UNCHANGED blkdev
    <3>1. CASE Bget(p)
      BY <1>3, <3>1 DEF Bget, ScanHit, ScanBusy, ScanNext, ScanSpin, TakeDirty
    <3>2. CASE Bio(p)
      BY <3>2 DEF Bio, AreadHit, AreadMiss, GotValid, GotRead, GotAhead, BwaitSleep, BwaitRead,
         BwaitError, BwaitWrite
    <3>3. CASE Flush(p)
      BY <1>3, <3>3 DEF Flush, FlushSkip, FlushBusy, FlushDirty
    <3>4. CASE Use(p)
      BY <3>4 DEF Use, HoldRead, HoldWrite, HoldSuper, HoldBlock, RelSuper, HoldSync, Sync
    <3> QED
      BY <3>1, <3>2, <3>3, <3>4 DEF Step
  <2> QED
    BY <2>1 DEF OneBufferPerBlock
<1> QED
  BY <1>1, <1>2, <1>3
\* A held buffer has a block.
LEMMA HeldNamed ==
  ASSUME IInv, NEW p \in Proc
  PROVE  /\ pc[p] \in Holding => reg[p] \in Blist /\ blkdev[reg[p]] # NoBlock
         /\ sb[p] # 0 => sb[p] \in Blist /\ blkdev[sb[p]] # NoBlock
<1> USE DEF IInv
<1>1. ASSUME pc[p] \in Holding PROVE reg[p] \in Blist /\ blkdev[reg[p]] # NoBlock
  <2>1. reg[p] \in Blist /\ Regs[p] = reg[p] /\ Regs[p] # 0
    BY <1>1, IsHolding
  <2>2. "BBUSY" \in flags[reg[p]]
    BY <2>1 DEF LockInv, Lock, Held
  <2> QED
    BY <2>1, <2>2 DEF NamedInv
<1>2. ASSUME sb[p] # 0 PROVE sb[p] \in Blist /\ blkdev[sb[p]] # NoBlock
  <2>1. sb[p] \in Blist /\ "BBUSY" \in flags[sb[p]]
    BY <1>2 DEF LockInv, Lock, Held, TypeOK, Blist
  <2> QED
    BY <2>1 DEF NamedInv
<1> QED
  BY <1>1, <1>2

\* The flags of one buffer change, and it has a block.
FlagsOf(b) == /\ b \in Blist /\ blkdev[b] # NoBlock
              /\ \E x : flags' = [flags EXCEPT ![b] = x]
              /\ UNCHANGED blkdev

\* A step that changes the flags of one buffer keeps the others named.
LEMMA NamedFrame == ASSUME TypeOK, NamedInv, NEW b, FlagsOf(b) PROVE NamedInv'
  BY DEF TypeOK, NamedInv, FlagsOf

\* bget is always called for a real block.
LEMMA TargetNamed == ASSUME TypeOK, NEW p \in Proc PROVE Target(p) \in Block /\ Target(p) # NoBlock
  BY ConstAssumption DEF TypeOK, Target

\* Every step of a process keeps locked and queued buffers named.
LEMMA NamedStep == ASSUME IInv, NEW p \in Proc, Step(p) PROVE NamedInv'
<1> USE DEF IInv, At
<1>1. CASE UNCHANGED <<flags, blkdev>>
  BY <1>1 DEF NamedInv
<1>2. CASE ScanHit(p) \/ ScanBusy(p)
  <2>1. FlagsOf(i)
    BY <1>2, TargetNamed DEF FlagsOf, ScanHit, ScanBusy, sleep
  <2> QED
    BY <2>1, NamedFrame
<1>3. CASE TakeDirty(p)
  <2>1. f \in Blist /\ blkdev[f] # NoBlock
    BY <1>3 DEF TakeDirty, Dirty, NamedInv, TypeOK, Blist
  <2>2. FlagsOf(f)
    BY <1>3, <2>1 DEF FlagsOf, TakeDirty, bwrite, strat
  <2> QED
    BY <2>2, NamedFrame
<1>4. CASE TakeClean(p)
  <2>1. f \in Blist /\ blkdev' = [blkdev EXCEPT ![f] = Target(p)] /\ Target(p) # NoBlock
    BY <1>4, TargetNamed DEF TakeClean, TypeOK, Blist
  <2>2. \A b \in Blist \ {f} : flags'[b] = flags[b] /\ blkdev'[b] = blkdev[b]
    BY <1>4, <2>1 DEF TakeClean, TypeOK
  <2>3. blkdev'[f] # NoBlock
    BY <2>1 DEF TypeOK
  <2> QED
    BY <2>2, <2>3 DEF NamedInv
<1>5. CASE pc[p] \in Holding /\ \E x : flags' = [flags EXCEPT ![reg[p]] = x] /\ UNCHANGED blkdev
  <2>1. FlagsOf(reg[p])
    BY <1>5, HeldNamed DEF FlagsOf
  <2> QED
    BY <2>1, NamedFrame
<1>6. CASE RelSuper(p)
  <2>1. sb[p] # 0
    BY <1>6 DEF RelSuper, CpuInv, CpuP
  <2>2. FlagsOf(sb[p])
    BY <1>6, <2>1, HeldNamed DEF FlagsOf, RelSuper, bdwrite, brelse
  <2> QED
    BY <2>2, NamedFrame
<1>7. CASE Sync(p) \/ FlushDirty(p) \/ FlushBusy(p)
  <2>1. reg[p] \in Blist
    BY <1>7 DEF Sync, FlushDirty, FlushBusy, CpuInv, CpuP, TypeOK, Blist
  <2>2. CASE UNCHANGED <<flags, blkdev>>
    BY <1>1, <2>2
  <2>3. CASE (Dirty(reg[p]) \/ Busy(reg[p])) /\ \E x : flags' = [flags EXCEPT ![reg[p]] = x]
    <3>1. FlagsOf(reg[p])
      BY <1>7, <2>1, <2>3 DEF FlagsOf, NamedInv, Dirty, Busy, Sync, FlushDirty, FlushBusy
    <3> QED
      BY <3>1, NamedFrame
  <2> QED
    BY <1>7, <2>2, <2>3 DEF Sync, FlushDirty, FlushBusy, bawrite, bwrite, strat, sleep
<1>8. CASE FlushClean(p) \/ FlushWritten(p)
  <2>1. flags' = [flags EXCEPT ![reg[p]] = {}] /\ blkdev' = [blkdev EXCEPT ![reg[p]] = NoBlock]
    BY <1>8 DEF FlushClean, FlushWritten, ReleaseAndZero
  <2> QED
    BY <2>1 DEF NamedInv, TypeOK
<1>9. CASE Bget(p)
  BY <1>1, <1>2, <1>3, <1>4, <1>9 DEF Bget, ScanNext, ScanSpin
<1>10. CASE Bio(p)
  BY <1>1, <1>5, <1>10 DEF Bio, AreadHit, AreadMiss, GotValid, GotRead, GotAhead, BwaitSleep,
     BwaitRead, BwaitError, BwaitWrite, strat, sleep, brelse, Holding
<1>11. CASE Flush(p)
  BY <1>1, <1>7, <1>8, <1>11 DEF Flush, FlushSkip
<1>12. CASE Use(p)
  BY <1>1, <1>5, <1>6, <1>7, <1>12 DEF Use, HoldRead, HoldWrite, HoldSuper, HoldBlock, HoldSync,
     bdwrite, brelse, bawrite, strat, Holding
<1> QED
  BY <1>9, <1>10, <1>11, <1>12 DEF Step

\* So does the completion of a transfer.
LEMMA NamedInterrupt == ASSUME IInv, Interrupt PROVE NamedInv'
<1> USE DEF IInv
<1>1. PICK b \in Blist, err \in BOOLEAN : b \in ioq /\ iodone(b, err) /\ UNCHANGED blkdev
  BY DEF Interrupt, Transfer, TransferError
<1>2. blkdev[b] # NoBlock
  BY <1>1 DEF LockInv, Lock, Queued, NamedInv
<1>3. FlagsOf(b)
  BY <1>1, <1>2 DEF FlagsOf, iodone, brelse
<1> QED
  BY <1>3, NamedFrame
-----------------------------------------------------------------------------
(* The types of the remaining actions, and the theorems.                    *)

\* A new system call preserves the type invariant.
LEMMA TypeCall ==
  ASSUME IInv, NEW p \in Proc, NEW o \in Ops, NEW k \in Block, Call(p, o, k) PROVE TypeOK'
<1>1. o \in AllOps /\ {"aread", "flush", "scan"} \subseteq Label /\ 1 \in 0..NBUF
  BY ConstAssumption DEF Label
<1>2. RegTypeOK'
  BY <1>1 DEF IInv, TypeOK, Call, RegTypeOK
<1>3. UNCHANGED <<blkdev, flags, fresh, time, count, ioq, saved, nerr, bad, event, sb, i, f>>
  BY DEF Call, stamps, errVars
<1> QED
  BY <1>2, <1>3 DEF IInv, TypeOK, RegTypeOK

\* So does the completion of a transfer.
LEMMA TypeInterrupt == ASSUME IInv, Interrupt PROVE TypeOK'
<1> USE DEF IInv
<1>1. PICK b \in Blist, err \in BOOLEAN : b \in ioq /\ ioq' = ioq \ {b} /\ iodone(b, err)
                                        /\ UNCHANGED <<procVars, sb, blkdev, i, f>>
  BY DEF Interrupt, Transfer, TransferError
<1>2. /\ flags' \in [Blist -> SUBSET Flag] /\ event' \in [Proc -> 0..NBUF]
      /\ count' \in 0 .. TimeMod - 1 /\ time' \in [Blist -> 0 .. TimeMod - 1]
  <2> DEFINE fl == (flags[b] \cup {"BDONE"} \cup (IF err THEN {"BERROR"} ELSE {})) \ {"BDELWRI"}
  <2>1. fl \in SUBSET Flag
    BY DEF TypeOK, Flag
  <2>2. CASE brelse(b, fl)
    BY <2>1, <2>2, BrelseType
  <2>3. CASE flags' = [flags EXCEPT ![b] = fl] /\ event' = wakeup(b) /\ UNCHANGED stamps
    BY <2>1, <2>3, WakeupType DEF TypeOK, stamps
  <2> QED
    BY <1>1, <2>2, <2>3 DEF iodone
<1>3. fresh' \subseteq Blist
  <2>1. CASE UNCHANGED fresh
    BY <2>1 DEF TypeOK
  <2>2. CASE \E c \in Blist : fresh' = fresh \cup {c} \/ fresh' = fresh \ {c}
    BY <2>2 DEF TypeOK
  <2> QED
    BY <2>1, <2>2 DEF Interrupt, Transfer, TransferError
<1>4. \A c \in ioq : blkdev[c] \in Block
  BY DEF TypeOK, LockInv, Lock, Queued, NamedInv
<1>5. saved' \subseteq Block
  <2>1. CASE UNCHANGED saved
    BY <2>1 DEF TypeOK
  <2>2. CASE \E c \in ioq : saved' = saved \cup {blkdev[c]} \/ saved' = saved \ {blkdev[c]}
    BY <1>4, <2>2 DEF TypeOK
  <2> QED
    BY <2>1, <2>2 DEF Interrupt, Transfer, TransferError
<1>6. nerr' \in 0..MaxErrors /\ bad' \subseteq Block
  <2>1. CASE UNCHANGED errVars
    BY <2>1 DEF TypeOK, errVars
  <2>2. CASE nerr < MaxErrors /\ nerr' = nerr + 1 /\ \E c \in ioq : bad' = bad \cup {blkdev[c]}
    BY <1>4, <2>2, ConstAssumption DEF TypeOK
  <2> QED
    BY <2>1, <2>2 DEF Interrupt, Transfer, TransferError
<1>7. /\ blkdev' = blkdev /\ cpu' = cpu /\ pc' = pc /\ op' = op /\ want' = want /\ reg' = reg
      /\ sb' = sb /\ i' = i /\ f' = f /\ ioq' \subseteq ioq
  BY <1>1 DEF procVars
<1> QED
  BY <1>2, <1>3, <1>5, <1>6, <1>7 DEF TypeOK

\* The state main() leaves behind satisfies the invariant.
LEMMA InitInv == Init => IInv
<1> SUFFICES ASSUME Init PROVE IInv
  OBVIOUS
<1> USE ConstAssumption DEF Init
<1>1. TypeOK
  BY DEF TypeOK, Blist, Flag, Label, AllOps
<1>2. CpuInv
  BY DEF CpuInv, CpuP
<1>3. ScanInv
  BY DEF ScanInv, CandidateStaysFree
<1>4. LockInv
  <2>1. Regs = [p \in Proc |-> 0] /\ Waiting = {}
    BY DEF Regs, Waiting, Holding
  <2>2. \A b \in Blist : "BBUSY" \notin flags[b]
    OBVIOUS
  <2> QED
    BY <2>1, <2>2 DEF LockInv, Lock, OneHolder, Held, Owned, Queued, Wakeable, Blist
<1>5. NamedInv
  BY DEF NamedInv
<1>6. OneBufferPerBlock
  BY DEF OneBufferPerBlock
<1> QED
  BY <1>1, <1>2, <1>3, <1>4, <1>5, <1>6 DEF IInv

\* A stuttering step preserves it.
LEMMA StutterInv == IInv /\ UNCHANGED vars => IInv'
<1> SUFFICES ASSUME IInv, UNCHANGED vars PROVE IInv'
  OBVIOUS
<1> USE DEF IInv, vars, stamps, errVars, procVars
<1>1. TypeOK' /\ CpuInv'
  BY DEF TypeOK, CpuInv, CpuP
<1>2. ScanInv'
  <2>1. \A q : Target(q)' = Target(q)
    BY DEF Target
  <2> QED
    BY <2>1 DEF ScanInv, CandidateStaysFree, Avail
<1>3. LockInv'
  BY DEF LockInv, Regs, Waiting
<1>4. NamedInv' /\ OneBufferPerBlock'
  BY DEF NamedInv, OneBufferPerBlock
<1> QED
  BY <1>1, <1>2, <1>3, <1>4

\* Every step preserves it, action by action.
LEMMA NextInv == IInv /\ [Next]_vars => IInv'
<1> SUFFICES ASSUME IInv, [Next]_vars PROVE IInv'
  OBVIOUS
<1>1. ASSUME NEW p \in Proc, Step(p) PROVE IInv'
  <2>1. CpuInv'
    BY <1>1, CpuStepBget, CpuStepBio, CpuStepUse, CpuStepFlush DEF Step
  <2>2. ScanInv'
    BY <1>1, ScanStepBget, ScanStepOther DEF Step
  <2>3. LockInv'
    BY <1>1, LockStepBget, LockStepBio, LockStepUse, LockStepFlush DEF Step
  <2> QED
    BY <1>1, <2>1, <2>2, <2>3, TypeStep, NamedStep, OneBufferStep DEF IInv
<1>2. ASSUME NEW p \in Proc, NEW o \in Ops, NEW k \in Block, Call(p, o, k) PROVE IInv'
  <2>1. NamedInv' /\ OneBufferPerBlock'
    BY <1>2 DEF IInv, Call, NamedInv, OneBufferPerBlock
  <2> QED
    BY <1>2, <2>1, TypeCall, CpuStepCall, ScanStepCall, LockStepCall DEF IInv
<1>3. CASE Interrupt
  <2>1. OneBufferPerBlock'
    BY <1>3 DEF IInv, Interrupt, Transfer, TransferError, OneBufferPerBlock
  <2> QED
    BY <1>3, <2>1, TypeInterrupt, CpuStepInterrupt, ScanStepInterrupt, LockStepInterrupt,
       NamedInterrupt DEF IInv
<1> QED
  BY <1>1, <1>2, <1>3, StutterInv DEF Next

\* The inductive invariant holds in every reachable state of the cache.
THEOREM Inductive == Spec => []IInv
  BY InitInv, NextInv, PTL DEF Spec

\* Type correctness: every index bget and its callers use is a buffer, and the
\* reference times stay below btime's modulus (uio.c:23-413).
THEOREM TypeCorrect == Spec => []TypeOK
<1>1. IInv => TypeOK
  BY DEF IInv
<1> QED
  BY <1>1, Inductive, PTL

\* Two buffers never stand for the same block, however many processes miss on
\* it at once, sleep in bget and find it there when they wake (uio.c:33-51).
THEOREM NoAliases == Spec => []OneBufferPerBlock
<1>1. IInv => OneBufferPerBlock
  BY DEF IInv
<1> QED
  BY <1>1, Inductive, PTL

\* BBUSY is a lock with exactly one owner, a process or an asynchronous
\* request, also after device errors (uio.c:66-78, 182-191, 299-315).
THEOREM BusyIsALock == Spec => []BusyHasOneOwner
<1>1. IInv => BusyHasOneOwner
  <2> SUFFICES ASSUME IInv, NEW b \in Blist
               PROVE  LET owners == {p \in Proc : Holds(p, b)}
                          async  == b \in ioq /\ "BSYNC" \notin flags[b]
                      IN /\ \A p, q \in owners : p = q
                         /\ Busy(b) <=> (owners # {} \/ async)
                         /\ ~(owners # {} /\ async)
    BY DEF BusyHasOneOwner
  <2> DEFINE owners == {p \in Proc : Holds(p, b)}
             async  == b \in ioq /\ "BSYNC" \notin flags[b]
  <2>1. \A p \in Proc : Holds(p, b) <=> Regs[p] = b \/ sb[p] = b
    BY DEF IInv, Holds, Regs, Holding, Blist
  <2>2. /\ OneHolder(Regs, sb) /\ Held(Regs, sb, flags) /\ Owned(Regs, sb, flags, ioq)
        /\ Queued(Regs, sb, Waiting, flags, ioq)
    BY DEF IInv, LockInv, Lock
  <2>3. \A p, q \in owners : p = q
    BY <2>1, <2>2 DEF OneHolder, Blist
  <2>4. Busy(b) <=> (owners # {} \/ async)
    BY <2>1, <2>2 DEF Held, Owned, Queued, Busy, Blist
  <2>5. ~(owners # {} /\ async)
    BY <2>1, <2>2 DEF Queued
  <2> QED
    BY <2>3, <2>4, <2>5
<1> QED
  BY <1>1, Inductive, PTL

\* No wakeup is lost: who sleeps in bget, bflush or bwait sleeps on a buffer
\* whose release or completion is still to come and will look for sleepers
\* (uio.c:69-73, 186-188, 311-314, 336-342).
THEOREM EverySleeperIsWoken == Spec => []NoLostWakeup
<1>1. IInv => NoLostWakeup
  BY DEF IInv, LockInv, Lock, Wakeable, NoLostWakeup, Busy, Waiting
<1> QED
  BY <1>1, Inductive, PTL

\* block(), whose result bget ignores, never fails: the candidate of the scan
\* is still free when bget takes it (uio.c:48).
THEOREM BlockNeverFails == Spec => []CandidateStaysFree
<1>1. IInv => CandidateStaysFree
  BY DEF IInv, ScanInv
<1> QED
  BY <1>1, Inductive, PTL
=============================================================================
