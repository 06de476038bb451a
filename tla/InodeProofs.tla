---------------------------- MODULE InodeProofs ----------------------------
(***************************************************************************)
(* The in-core inodes, for any number of processes, slots and files and    *)
(* any number of failed reads and writes: the locks, the references, the   *)
(* search of iget and the making of a name.                                *)
(***************************************************************************)
EXTENDS Inode, FiniteSetTheorems, TLAPS

\* p has the lock of slot ip[p] here.
Holding == {"walk", "dlook", "hit", "iread", "ialloc", "getsb", "nwrite", "linking", "itrunc",
            "istat", "last", "iwrite"}

\* p waits in ilock to go on at a place.
Asks(p, places) == pc[p] \in {"ilock", "iwait"} /\ ret[p] \in places

\* The names still to be looked up: New only in the root, by a process that
\* looks it up or makes it.
Names == Seq(Ino \ ({Root} \cup Free))

RestP(p) ==
  \/ rest[p] \in Names
  \/ rest[p] = <<New>> /\ (op[p] = "mkfile" \/ (ip[p] = 1 /\ (pc[p] \in {"walk", "dlook"} \/ Asks(p, {"walk"}))))

\* What p's registers hold where it is.  A process that makes a name comes
\* back to the directory, the root, without having slept in between.
PlaceP(p) ==
  /\ pc[p] \notin {"iclean", "unlink", "clear", "clearing"} /\ ret[p] # "clear"
  /\ event[p] # 0 => pc[p] = "iwait" /\ event[p] = ip[p]
  /\ pc[p] \in {"ilock", "mkfile"} => cpu = p
  /\ pc[p] \in {"ilock", "iwait"} \cup Holding => ip[p] # 0
  /\ InIget(p) => parent[p] # 0
  /\ pc[p] = "dlook" => rest[p] # <<>>
  /\ pc[p] = "done" => file[p] # 0
  /\ RestP(p)

\* A process that makes a name.
MakeP(p) ==
  /\ op[p] = "mkfile" =>
       /\ parent[p] = 1
       /\ \/ InIget(p) \/ Asks(p, {"ialloc", "nwrite"})
          \/ pc[p] \in {"mkfile", "ialloc", "getsb", "nwrite", "linking"}
  /\ pc[p] \in {"mkfile", "ialloc", "getsb", "nwrite", "linking"} \/ Asks(p, {"ialloc", "nwrite"}) =>
       op[p] = "mkfile" /\ ip[p] = 1
  /\ pc[p] = "mkfile" \/ Asks(p, {"ialloc", "nwrite"}) => pc[p] # "iwait" /\ 1 \notin busy
  /\ made[p] # 0 <=> pc[p] \in {"nwrite", "linking"} \/ Asks(p, {"nwrite"})
  /\ made[p] # 1

PlaceInv == \A p \in Proc : PlaceP(p) /\ MakeP(p)

\* The locks.
OwnerInv ==
  \A s \in Slot : /\ s \in busy <=> \E p \in Proc : Holds(p, s)
                  /\ \A p, q \in Proc : Holds(p, s) /\ Holds(q, s) => p = q

\* p has taken an inode off the free list and not yet tried to give it a name.
Secret(p) == (InIget(p) /\ op[p] = "mkfile") \/ made[p] # 0

\* The inodes others may know: those with a name, and those whose name could
\* not be written.
Known == {i \in Ino : i \notin free /\ \A q \in Proc : Secret(q) => num[q] # i}

\* What is in the slots.
SlotInv ==
  /\ inum[1] = Root /\ inum[2] = Mnt
  /\ OneCopyPerInode

\* The inode a process makes is not free any more, and nobody else knows it.
DiskInv ==
  /\ free \subseteq Free /\ entry \notin free /\ entry \in Free \cup {NoIno}
  /\ NameMadeOnce

\* What iget was asked for is what the slot holds, and whoever else uses a slot
\* uses that of an inode that is known.
NumP(p) ==
  /\ InIget(p) => num[p] \in Ino \ {Root}
  /\ InIget(p) /\ op[p] # "mkfile" => num[p] \in Known
  /\ Secret(p) => num[p] \in Free \ free
  /\ pc[p] \in {"hit", "iread"} \/ Asks(p, {"hit"}) => inum[ip[p]] = num[p] \/ hurt
  /\ made[p] # 0 => inum[made[p]] = num[p]
  /\ pc[p] \in {"walk", "dlook", "itrunc"} \/ Asks(p, {"walk"}) => inum[ip[p]] \in Known \ {Mnt} \/ hurt
  /\ pc[p] \in {"istat", "last"} \/ Asks(p, {"istat", "last"}) => inum[ip[p]] \in Known \ {Mnt} \/ hurt
  /\ InIget(p) => inum[parent[p]] \in Known \ {Mnt} \/ hurt
  /\ file[p] # 0 => inum[file[p]] \in Known \ {Mnt}

NumInv == \A p \in Proc : NumP(p)

\* Who refers to slot s.
Opened(s)  == {p \in Proc : file[p] = s}
Leaves(p, s) == parent[p] = s /\ op[p] # "mkfile" /\ InIget(p)
Left0(s)   == {p \in Proc : Leaves(p, s)}
Waiting(s) == {p \in Proc : pc[p] = "iwait" /\ ip[p] = s}

\* A slot into which an inode is read is used by nobody, and who waits for it
\* has come since.
FreshInv ==
  \A p \in Proc : pc[p] = "iread" =>
    /\ ip[p] \notin {1, 2}
    /\ \A q \in Proc : /\ file[q] # ip[p] /\ ~ Leaves(q, ip[p])
                       /\ pc[q] = "iwait" /\ ip[q] = ip[p] => event[q] = ip[p]

IInv == TypeOK /\ PlaceInv /\ OwnerInv /\ SlotInv /\ DiskInv /\ NumInv /\ FreshInv
        /\ NoLostWakeup /\ CountsExact

\* What one process does.
Step(p) == Continue(p) \/ Start(p)

\* The constants: three directories, in core in slots 1 and 2.
LEMMA ConstFacts ==
  /\ {Root, Mnt, MntRoot} \subseteq Ino \ Free /\ Free \subseteq Ino /\ NoIno \notin Ino /\ New \notin Ino
  /\ Root # Mnt /\ Mnt # MntRoot /\ MntRoot # Root
  /\ 1 \in Slot /\ 2 \in Slot /\ 0 \notin Slot /\ NoProc \notin Proc
  BY ConstAssumption DEF Slot

\* The registers of a process are its own.
LEMMA Others ==
  ASSUME TypeOK, NEW p \in Proc, Step(p), NEW q \in Proc, q # p
  PROVE  /\ pc'[q] = pc[q] /\ ret'[q] = ret[q] /\ op'[q] = op[q] /\ ip'[q] = ip[q]
         /\ num'[q] = num[q] /\ rest'[q] = rest[q] /\ parent'[q] = parent[q]
         /\ made'[q] = made[q] /\ file'[q] = file[q]
<1> USE DEF TypeOK, Step, Continue, Start, At, Goto, Bread, Return, ilock, sleep, irelse, Locked,
   Calls, IgetFails, iVars, regVars, diskVars, errVars
<1>1. pc'[q] = pc[q] /\ ret'[q] = ret[q] /\ op'[q] = op[q]
  BY ZenonT(60) DEF LockFree, LockBusy, LockWoken, Walk, Found, NotFound, IgetHit, Cross, IgetMiss, IgetFull,
     Got, ReadError, NoEntry, imkfile, ialloc, ialloc_iget, NoSpace, Made, ilink, Linked,
     Truncate, Truncated, iopen, Release, ReadDone, idec, isync, Written, Synced, iname, fstat,
     read, close, sync
<1>2. ip'[q] = ip[q] /\ num'[q] = num[q] /\ rest'[q] = rest[q]
  BY ZenonT(60) DEF LockFree, LockBusy, LockWoken, Walk, Found, NotFound, IgetHit, Cross, IgetMiss, IgetFull,
     Got, ReadError, NoEntry, imkfile, ialloc, ialloc_iget, NoSpace, Made, ilink, Linked,
     Truncate, Truncated, iopen, Release, ReadDone, idec, isync, Written, Synced, iname, fstat,
     read, close, sync
<1>3. parent'[q] = parent[q] /\ made'[q] = made[q] /\ file'[q] = file[q]
  BY ZenonT(60) DEF LockFree, LockBusy, LockWoken, Walk, Found, NotFound, IgetHit, Cross, IgetMiss, IgetFull,
     Got, ReadError, NoEntry, imkfile, ialloc, ialloc_iget, NoSpace, Made, ilink, Linked,
     Truncate, Truncated, iopen, Release, ReadDone, idec, isync, Written, Synced, iname, fstat,
     read, close, sync
<1> QED
  BY <1>1, <1>2, <1>3

\* Which steps change what.
LEMMA Frame ==
  ASSUME NEW p \in Proc, Step(p)
  PROVE  /\ inum' = inum \/ IgetMiss(p) \/ ReadError(p)
         /\ \/ count' = count \/ LockBusy(p) \/ LockWoken(p) \/ Found(p) \/ IgetMiss(p) \/ IgetFull(p)
            \/ Got(p) \/ ReadError(p) \/ Made(p) \/ iopen(p) \/ close(p)
         /\ busy' \subseteq busy \/ LockFree(p) \/ LockWoken(p) \/ IgetMiss(p) \/ isync(p)
         /\ wanted' \subseteq wanted \/ LockBusy(p) \/ LockWoken(p)
         /\ mod' \subseteq mod \/ Made(p) \/ Linked(p) \/ Truncated(p) \/ ReadDone(p)
         /\ entry' = entry \/ Linked(p)
         /\ free' = free \/ ialloc_iget(p) \/ IgetFull(p) \/ ReadError(p)
         /\ unlinked' \subseteq unlinked
         /\ hurt' = hurt \/ ReadError(p)
         /\ ~hurt
<1> USE DEF Step, Continue, Start, At, Goto, Bread, Return, ilock, sleep, irelse, Locked, Calls,
   IgetFails, iVars, regVars, diskVars, errVars
<1>1. /\ inum' = inum \/ IgetMiss(p) \/ ReadError(p)
      /\ entry' = entry \/ Linked(p)
      /\ free' = free \/ ialloc_iget(p) \/ IgetFull(p) \/ ReadError(p)
      /\ unlinked' \subseteq unlinked
  BY ZenonT(60) DEF LockFree, LockBusy, LockWoken, Walk, Found, NotFound, IgetHit, Cross, IgetMiss, IgetFull,
     Got, ReadError, NoEntry, imkfile, ialloc, ialloc_iget, NoSpace, Made, ilink, Linked,
     Truncate, Truncated, iopen, Release, ReadDone, idec, isync, Written, Synced, iname, fstat,
     read, close, sync
<1>2. \/ count' = count \/ LockBusy(p) \/ LockWoken(p) \/ Found(p) \/ IgetMiss(p) \/ IgetFull(p)
      \/ Got(p) \/ ReadError(p) \/ Made(p) \/ iopen(p) \/ close(p)
  BY ZenonT(60) DEF LockFree, LockBusy, LockWoken, Walk, Found, NotFound, IgetHit, Cross, IgetMiss, IgetFull,
     Got, ReadError, NoEntry, imkfile, ialloc, ialloc_iget, NoSpace, Made, ilink, Linked,
     Truncate, Truncated, iopen, Release, ReadDone, idec, isync, Written, Synced, iname, fstat,
     read, close, sync
<1>3. /\ busy' \subseteq busy \/ LockFree(p) \/ LockWoken(p) \/ IgetMiss(p) \/ isync(p)
      /\ wanted' \subseteq wanted \/ LockBusy(p) \/ LockWoken(p)
  BY ZenonT(60) DEF LockFree, LockBusy, LockWoken, Walk, Found, NotFound, IgetHit, Cross, IgetMiss, IgetFull,
     Got, ReadError, NoEntry, imkfile, ialloc, ialloc_iget, NoSpace, Made, ilink, Linked,
     Truncate, Truncated, iopen, Release, ReadDone, idec, isync, Written, Synced, iname, fstat,
     read, close, sync
<1>4. mod' \subseteq mod \/ Made(p) \/ Linked(p) \/ Truncated(p) \/ ReadDone(p)
  BY DEF LockFree, LockBusy, LockWoken, Walk, Found, NotFound, IgetHit, Cross, IgetMiss, IgetFull,
     Got, ReadError, NoEntry, imkfile, ialloc, ialloc_iget, NoSpace, Made, ilink, Linked,
     Truncate, Truncated, iopen, Release, ReadDone, idec, isync, Written, Synced, iname, fstat,
     read, close, sync
<1>5. (hurt' = hurt \/ ReadError(p)) /\ ~hurt
  BY DEF LockFree, LockBusy, LockWoken, Walk, Found, NotFound, IgetHit, Cross, IgetMiss, IgetFull,
     Got, ReadError, NoEntry, imkfile, ialloc, ialloc_iget, NoSpace, Made, ilink, Linked,
     Truncate, Truncated, iopen, Release, ReadDone, idec, isync, Written, Synced, iname, fstat,
     read, close, sync
<1> QED
  BY <1>1, <1>2, <1>3, <1>4, <1>5

\* Only a process that waits in ilock sleeps, and only irelse wakes.
LEMMA EventFrame ==
  ASSUME NEW p \in Proc, Step(p)
  PROVE  event' = event \/ irelse(ip[p]) \/ irelse(parent[p]) \/ LockBusy(p) \/ LockWoken(p)
BY DEF Step, Continue, Start, iVars, LockFree, LockBusy, LockWoken, Walk, Found, NotFound,
   IgetHit, Cross, IgetMiss, IgetFull, Got, ReadError, NoEntry, imkfile, ialloc, ialloc_iget,
   NoSpace, Made, ilink, Linked, Truncate, Truncated, iopen, Release, ReadDone, idec, isync,
   Written, Synced, iname, fstat, read, close, sync

\* count is a UINT8.
LEMMA CountType ==
  ASSUME TypeOK, NEW c \in [Slot -> 0..(CountMod - 1)], NEW s \in Slot
  PROVE  /\ Inc(c, s) \in [Slot -> 0..(CountMod - 1)]
         /\ Dec(c, s) \in [Slot -> 0..(CountMod - 1)]
<1>1. CountMod \in Nat \ {0}
  BY FS_CardinalityType, ConstAssumption
<1>2. \A n \in Nat : n % CountMod \in 0..(CountMod - 1)
  BY <1>1
<1>3. c[s] + 1 \in Nat /\ c[s] + CountMod - 1 \in Nat
  BY <1>1
<1> QED
  BY <1>2, <1>3 DEF Inc, Dec

\* A sequence over a set is one over any larger set.
LEMMA SeqMono ==
  ASSUME NEW S, NEW T, S \subseteq T, NEW n \in Seq(S)
  PROVE  n \in Seq(T)
<1>1. n \in [1..Len(n) -> S] /\ Len(n) \in Nat
  OBVIOUS
<1>2. n \in [1..Len(n) -> T]
  BY <1>1
<1> QED
  BY <1>1, <1>2

\* Every step keeps the types.
LEMMA TypeStep ==
  ASSUME IInv, NEW p \in Proc, Step(p)
  PROVE  TypeOK'
<1> USE DEF IInv, TypeOK, At, Goto, Bread, Return, ilock, sleep, irelse, Locked, Calls, IgetFails,
   iVars, regVars, diskVars, errVars
<1>0. /\ pc[p] \in {"ilock", "iwait"} \cup Holding => ip[p] \in Slot
      /\ InIget(p) => parent[p] \in Slot
      /\ made[p] # 0 => made[p] \in Slot
      /\ file[p] # 0 => file[p] \in Slot
  BY DEF PlaceInv, PlaceP
<1>1. inum' \in [Slot -> Ino \cup {NoIno}]
  <2>1. CASE IgetMiss(p)
    <3>1. PICK s \in Slot : inum' = [inum EXCEPT ![s] = num[p]]
      BY <2>1 DEF IgetMiss
    <3> QED
      BY <3>1
  <2>2. CASE ReadError(p)
    <3>1. inum' = [inum EXCEPT ![ip[p]] = NoIno]
      BY <2>2 DEF ReadError
    <3> QED
      BY <3>1
  <2> QED
    BY <2>1, <2>2, Frame
<1>2. busy' \subseteq Slot
  BY <1>0, Frame DEF LockFree, LockWoken, IgetMiss, isync, ToWrite
<1>3. wanted' \subseteq Slot
  BY <1>0, Frame DEF LockBusy, LockWoken
<1>4. mod' \subseteq Slot
  BY <1>0, Frame DEF Made, Linked, Truncated, ReadDone, Holding, PlaceInv, PlaceP, InIget
<1>5. count' \in [Slot -> 0..(CountMod - 1)]
  <2>0. 0 \in 0..(CountMod - 1)
    BY ConstAssumption, FS_CardinalityType
  <2>1. CASE LockBusy(p) \/ LockWoken(p) \/ Found(p) \/ iopen(p)
    <3>1. ip[p] \in Slot /\ (count' = count \/ count' = Inc(count, ip[p]) \/ count' = Dec(count, ip[p]))
      BY <1>0, <2>1 DEF LockBusy, LockWoken, Found, iopen, Holding
    <3>2. Inc(count, ip[p]) \in [Slot -> 0..(CountMod - 1)] /\ Dec(count, ip[p]) \in [Slot -> 0..(CountMod - 1)]
      BY <3>1, CountType
    <3> QED
      BY <3>1, <3>2
  <2>2. CASE IgetMiss(p)
    <3>1. PICK s \in Slot : count' = [count EXCEPT ![s] = 0]
      BY <2>2 DEF IgetMiss
    <3> QED
      BY <2>0, <3>1
  <2>6. CASE Made(p)
    <3>1. count' = [count EXCEPT ![ip[p]] = 0]
      BY <2>6 DEF Made
    <3> QED
      BY <2>0, <3>1
  <2>3. CASE IgetFull(p) \/ Got(p)
    <3>1. parent[p] \in Slot /\ (count' = count \/ count' = Dec(count, parent[p]))
      BY <1>0, <2>3 DEF IgetFull, Got, Left, InIget
    <3>2. Dec(count, parent[p]) \in [Slot -> 0..(CountMod - 1)]
      BY <3>1, CountType
    <3> QED
      BY <3>1, <3>2
  <2>4. CASE ReadError(p)
    <3>1. [count EXCEPT ![ip[p]] = 0] \in [Slot -> 0..(CountMod - 1)] /\ parent[p] \in Slot
      BY <1>0, <2>0, <2>4 DEF ReadError, InIget
    <3> QED
      BY <2>4, <3>1, CountType DEF ReadError, Left
  <2>5. CASE close(p)
    BY <1>0, <2>5, CountType DEF close
  <2> QED
    BY <2>1, <2>2, <2>3, <2>4, <2>5, <2>6, Frame
<1>6. cpu' \in Proc \cup {NoProc}
  BY DEF Step, Continue, Start, LockFree, LockBusy, LockWoken, Walk, Found, NotFound, IgetHit,
     Cross, IgetMiss, IgetFull, Got, ReadError, NoEntry, imkfile, ialloc, ialloc_iget, NoSpace,
     Made, ilink, Linked, Truncate, Truncated, iopen, Release, ReadDone, idec, isync, Written,
     Synced, iname, fstat, read, close, sync
<1>7. \E x \in {"idle", "ilock", "iwait", "walk", "dlook", "iget", "iclean", "hit", "iread",
               "mkfile", "ialloc", "getsb", "nwrite", "linking", "itrunc", "istat", "done",
               "last", "isync", "iwrite", "unlink", "clear", "clearing"} :
        pc' = [pc EXCEPT ![p] = x]
  BY DEF Step, Continue, Start, LockFree, LockBusy, LockWoken, Walk, Found, NotFound, IgetHit,
     Cross, IgetMiss, IgetFull, Got, ReadError, NoEntry, imkfile, ialloc, ialloc_iget, NoSpace,
     Made, ilink, Linked, Truncate, Truncated, iopen, Release, ReadDone, idec, isync, Written,
     Synced, iname, fstat, read, close, sync
<1>8. \E x \in {"walk", "hit", "ialloc", "nwrite", "istat", "last"} :
        ret' = ret \/ ret' = [ret EXCEPT ![p] = x]
  BY DEF Step, Continue, Start, LockFree, LockBusy, LockWoken, Walk, Found, NotFound, IgetHit,
     Cross, IgetMiss, IgetFull, Got, ReadError, NoEntry, imkfile, ialloc, ialloc_iget, NoSpace,
     Made, ilink, Linked, Truncate, Truncated, iopen, Release, ReadDone, idec, isync, Written,
     Synced, iname, fstat, read, close, sync
<1>9. \E x \in Walks \cup {"mkfile"} : op' = op \/ op' = [op EXCEPT ![p] = x]
  BY DEF Walks, Step, Continue, Start, LockFree, LockBusy, LockWoken, Walk, Found, NotFound,
     IgetHit, Cross, IgetMiss, IgetFull, Got, ReadError, NoEntry, imkfile, ialloc, ialloc_iget,
     NoSpace, Made, ilink, Linked, Truncate, Truncated, iopen, Release, ReadDone, idec, isync,
     Written, Synced, iname, fstat, read, close, sync
<1>10. made' \in [Proc -> Slot \cup {0}] /\ parent' \in [Proc -> Slot \cup {0}]
  BY ZenonT(60) DEF Step, Continue, Start, LockFree, LockBusy, LockWoken, Walk, Found, NotFound, IgetHit,
     Cross, IgetMiss, IgetFull, Got, ReadError, NoEntry, imkfile, ialloc, ialloc_iget, NoSpace,
     Made, ilink, Linked, Truncate, Truncated, iopen, Release, ReadDone, idec, isync, Written,
     Synced, iname, fstat, read, close, sync
<1>11. \E x \in Slot \cup {0} : file' = file \/ file' = [file EXCEPT ![p] = x]
  BY DEF Step, Continue, Start, LockFree, LockBusy, LockWoken, Walk, Found, NotFound, IgetHit,
     Cross, IgetMiss, IgetFull, Got, ReadError, NoEntry, imkfile, ialloc, ialloc_iget, NoSpace,
     Made, ilink, Linked, Truncate, Truncated, iopen, Release, ReadDone, idec, isync, Written,
     Synced, iname, fstat, read, close, sync
<1>12. \E x \in Slot \cup {0} : ip' = ip \/ ip' = [ip EXCEPT ![p] = x]
  BY ConstFacts DEF Step, Continue, Start, LockFree, LockBusy, LockWoken, Walk, Found, NotFound,
     IgetHit, Cross, IgetMiss, IgetFull, Got, ReadError, NoEntry, imkfile, ialloc, ialloc_iget,
     NoSpace, Made, ilink, Linked, Truncate, Truncated, iopen, Release, ReadDone, idec, isync,
     Written, Synced, iname, fstat, read, close, sync, ToWrite
<1>13. \E x \in Ino \cup {NoIno} : num' = num \/ num' = [num EXCEPT ![p] = x]
  <2>1. CASE Found(p)
    <3>1. dlook(p) \in Ino \cup {NoIno}
      BY <2>1 DEF Found, PlaceInv, PlaceP, RestP, Names, dlook
    <3> QED
      BY <2>1, <3>1 DEF Found
  <2>2. CASE ~Found(p)
    BY <2>2, ConstFacts DEF Step, Continue, Start, LockFree, LockBusy, LockWoken, Walk, Found,
       NotFound, IgetHit, Cross, IgetMiss, IgetFull, Got, ReadError, NoEntry, imkfile, ialloc,
       ialloc_iget, NoSpace, Made, ilink, Linked, Truncate, Truncated, iopen, Release, ReadDone,
       idec, isync, Written, Synced, iname, fstat, read, close, sync
  <2> QED
    BY <2>1, <2>2
<1>14. rest' \in [Proc -> Seq(Ino \cup {New})]
  <2>1. CASE iname(p)
    <3>1. PICK n \in Path[p] : rest' = [rest EXCEPT ![p] = n]
      BY <2>1 DEF iname
    <3>2. n \in Seq(Ino \cup {New})
      <4>1. n \in Seq(Ino \ ({Root} \cup Free)) \/ n = <<New>>
        BY ConstAssumption
      <4>2. Ino \ ({Root} \cup Free) \subseteq Ino \cup {New}
        OBVIOUS
      <4>3. <<New>> \in Seq(Ino \cup {New})
        OBVIOUS
      <4>4. CASE n \in Seq(Ino \ ({Root} \cup Free))
        BY <4>2, <4>4, SeqMono
      <4> QED
        BY <4>1, <4>3, <4>4
    <3> QED
      BY <3>1, <3>2
  <2>2. CASE Found(p)
    BY <2>2 DEF Found, PlaceInv, PlaceP, RestP, Names
  <2>3. CASE ~iname(p) /\ ~Found(p)
    <3>1. rest' = rest \/ rest' = [rest EXCEPT ![p] = <<>>]
      BY <2>3 DEF Step, Continue, Start, LockFree, LockBusy, LockWoken, Walk, Found, NotFound,
         IgetHit, Cross, IgetMiss, IgetFull, Got, ReadError, NoEntry, imkfile, ialloc,
         ialloc_iget, NoSpace, Made, ilink, Linked, Truncate, Truncated, iopen, Release, ReadDone,
         idec, isync, Written, Synced, iname, fstat, read, close, sync
    <3>2. <<>> \in Seq(Ino \cup {New})
      OBVIOUS
    <3> HIDE DEF Step, Continue, Start
    <3> QED
      BY <3>1, <3>2
  <2> QED
    BY <2>1, <2>2, <2>3
<1>15. event' \in [Proc -> Slot \cup {0}]
  <2>1. CASE LockBusy(p) \/ LockWoken(p)
    BY <1>0, <2>1 DEF LockBusy, LockWoken
  <2>2. CASE ~LockBusy(p) /\ ~LockWoken(p)
    <3>1. event' = event \/ irelse(ip[p]) \/ irelse(parent[p])
      BY <2>2, EventFrame
    <3> QED
      BY <3>1
  <2> QED
    BY <2>1, <2>2
<1>16. entry' \in Ino \cup {NoIno} /\ free' \subseteq Ino /\ unlinked' \subseteq Ino
  <2>1. entry' \in Ino \cup {NoIno}
    BY <1>0, Frame DEF Linked, PlaceInv, MakeP
  <2>2. free' \subseteq Ino
    <3>1. CASE IgetFull(p) \/ ReadError(p)
      <4>1. InIget(p) /\ (free' = free \/ free' = free \cup {num[p]})
        BY <3>1 DEF IgetFull, ReadError, InIget
      <4>2. num[p] \in Ino
        BY <4>1 DEF NumInv, NumP
      <4> QED
        BY <4>1, <4>2
    <3> QED
      BY <3>1, Frame DEF ialloc_iget
  <2> QED
    BY <2>1, <2>2, Frame
<1>17. nerr' \in 0..MaxErrors /\ hurt' \in BOOLEAN
  <2>1. \/ nerr' = nerr \/ (nerr < MaxErrors /\ nerr' = nerr + 1)
    BY DEF Step, Continue, Start, LockFree, LockBusy, LockWoken, Walk, Found, NotFound, IgetHit,
       Cross, IgetMiss, IgetFull, Got, ReadError, NoEntry, imkfile, ialloc, ialloc_iget, NoSpace,
       Made, ilink, Linked, Truncate, Truncated, iopen, Release, ReadDone, idec, isync, Written,
       Synced, iname, fstat, read, close, sync
  <2>2. hurt' \in BOOLEAN
    BY Frame DEF ReadError
  <2> QED
    BY <2>1, <2>2, ConstAssumption
<1>18. /\ pc' \in [Proc -> {"idle", "ilock", "iwait", "walk", "dlook", "iget", "iclean", "hit", "iread",
                      "mkfile", "ialloc", "getsb", "nwrite", "linking", "itrunc", "istat", "done",
                      "last", "isync", "iwrite", "unlink", "clear", "clearing"}]
       /\ ret' \in [Proc -> {"walk", "hit", "ialloc", "nwrite", "istat", "last", "clear"}]
  <2>1. PICK x \in {"idle", "ilock", "iwait", "walk", "dlook", "iget", "iclean", "hit", "iread",
               "mkfile", "ialloc", "getsb", "nwrite", "linking", "itrunc", "istat", "done",
               "last", "isync", "iwrite", "unlink", "clear", "clearing"} :
               pc' = [pc EXCEPT ![p] = x]
    BY <1>7
  <2>2. PICK y \in {"walk", "hit", "ialloc", "nwrite", "istat", "last"} :
               ret' = ret \/ ret' = [ret EXCEPT ![p] = y]
    BY <1>8
  <2>3. p \in Proc /\ TypeOK
    OBVIOUS
  <2> HIDE DEF IInv
  <2>4. pc' \in [Proc -> {"idle", "ilock", "iwait", "walk", "dlook", "iget", "iclean", "hit", "iread",
                      "mkfile", "ialloc", "getsb", "nwrite", "linking", "itrunc", "istat", "done",
                      "last", "isync", "iwrite", "unlink", "clear", "clearing"}]
    BY ONLY <2>1, <2>3 DEF TypeOK
  <2>5. ret' \in [Proc -> {"walk", "hit", "ialloc", "nwrite", "istat", "last", "clear"}]
    BY ONLY <2>2, <2>3 DEF TypeOK
  <2> QED
    BY ONLY <2>4, <2>5
<1>19. op' \in [Proc -> Walks \cup {"mkfile"}] /\ file' \in [Proc -> Slot \cup {0}]
  <2>1. PICK x \in Walks \cup {"mkfile"} : op' = op \/ op' = [op EXCEPT ![p] = x]
    BY <1>9
  <2>2. PICK y \in Slot \cup {0} : file' = file \/ file' = [file EXCEPT ![p] = y]
    BY <1>11
  <2>3. op' \in [Proc -> Walks \cup {"mkfile"}]
    BY <2>1
  <2> QED
    BY Zenon, <2>2, <2>3
<1>20. ip' \in [Proc -> Slot \cup {0}] /\ num' \in [Proc -> Ino \cup {NoIno}]
  <2>1. PICK x \in Slot \cup {0} : ip' = ip \/ ip' = [ip EXCEPT ![p] = x]
    BY <1>12
  <2>2. PICK y \in Ino \cup {NoIno} : num' = num \/ num' = [num EXCEPT ![p] = y]
    BY <1>13
  <2>3. p \in Proc /\ TypeOK
    OBVIOUS
  <2>4. ip' \in [Proc -> Slot \cup {0}]
    BY ONLY <2>1, <2>3 DEF TypeOK
  <2>5. num' \in [Proc -> Ino \cup {NoIno}]
    BY ONLY <2>2, <2>3 DEF TypeOK
  <2> QED
    BY ONLY <2>4, <2>5
<1> QED
  BY <1>1, <1>2, <1>3, <1>4, <1>5, <1>6, <1>10, <1>14, <1>15, <1>16, <1>17, <1>18, <1>19, <1>20

\* Who steps has the cpu or takes it, and is awake.
LEMMA Cpu ==
  ASSUME NEW p \in Proc, Step(p)
  PROVE  cpu \in {p, NoProc} /\ event[p] = 0
BY DEF Step, Continue, Start, At, Calls, LockFree, LockBusy, LockWoken, Walk, Found, NotFound,
   IgetHit, Cross, IgetMiss, IgetFull, Got, ReadError, NoEntry, imkfile, ialloc, ialloc_iget,
   NoSpace, Made, ilink, Linked, Truncate, Truncated, iopen, Release, ReadDone, idec, isync,
   Written, Synced, iname, fstat, read, close, sync

\* Another process's step leaves a process where it is, but may wake it; no
\* process steps while another is between the search and the lock of a
\* directory.
LEMMA OthersPlace ==
  ASSUME TypeOK, PlaceInv, NEW p \in Proc, Step(p), NEW q \in Proc, q # p
  PROVE  /\ pc[q] \notin {"ilock", "mkfile"}
         /\ event'[q] \in {0, event[q]}
         /\ PlaceP(q)' /\ MakeP(q)'
<1>0. PlaceP(q) /\ MakeP(q)
  BY DEF PlaceInv
<1>1. pc[q] \notin {"ilock", "mkfile"}
  BY <1>0, Cpu, ConstFacts DEF PlaceP
<1>2. event'[q] \in {0, event[q]}
  <2>1. CASE LockBusy(p) \/ LockWoken(p)
    BY <2>1 DEF LockBusy, LockWoken, sleep, Locked, TypeOK
  <2> QED
    BY <2>1, EventFrame DEF irelse
<1>3. /\ pc'[q] = pc[q] /\ ret'[q] = ret[q] /\ op'[q] = op[q] /\ ip'[q] = ip[q]
      /\ num'[q] = num[q] /\ rest'[q] = rest[q] /\ parent'[q] = parent[q]
      /\ made'[q] = made[q] /\ file'[q] = file[q]
  BY Others
<1>4. PlaceP(q)'
  BY <1>0, <1>1, <1>2, <1>3 DEF PlaceP, InIget, RestP, Asks
<1>5. MakeP(q)'
  BY <1>0, <1>1, <1>3 DEF MakeP, InIget, Asks
<1> QED
  BY <1>1, <1>2, <1>4, <1>5

\* The names that are left.
LEMMA RestStep ==
  ASSUME IInv, NEW p \in Proc, Step(p)
  PROVE  RestP(p)'
<1> USE DEF TypeOK, At, Goto, Bread, Return, ilock, sleep, irelse, Locked, Calls, IgetFails,
   iVars, regVars, diskVars, errVars, RestP, InIget, Asks
<1>1. RestP(p) /\ PlaceP(p) /\ MakeP(p) /\ TypeOK
  BY DEF IInv, PlaceInv, PlaceP
<1>2. Step(p)
  OBVIOUS
<1>3. <<>> \in Names
  BY DEF Names
<1>11. CASE LockFree(p)
  BY <1>1, <1>3, <1>11 DEF LockFree
<1>12. CASE LockBusy(p)
  BY <1>1, <1>3, <1>12 DEF LockBusy
<1>13. CASE LockWoken(p)
  BY <1>1, <1>3, <1>13 DEF LockWoken
<1>14. CASE Walk(p)
  BY <1>1, <1>3, <1>14 DEF Walk
<1>15. CASE Found(p)
  <2>1. rest'[p] = Tail(rest[p]) /\ rest[p] # <<>>
    BY <1>1, <1>15 DEF Found, PlaceP
  <2>2. CASE rest[p] = <<New>>
    <3>1. Tail(<<New>>) = <<>>
      OBVIOUS
    <3> QED
      BY <1>3, <2>1, <2>2, <3>1
  <2>3. CASE rest[p] \in Names
    <3>1. Tail(rest[p]) \in Names
      BY <2>1, <2>3 DEF Names
    <3> QED
      BY <2>1, <3>1
  <2> QED
    BY <1>1, <2>2, <2>3
<1>16. CASE NotFound(p)
  BY <1>1, <1>3, <1>16 DEF NotFound
<1>17. CASE IgetHit(p)
  BY <1>1, <1>3, <1>17 DEF IgetHit
<1>18. CASE Cross(p)
  BY <1>1, <1>3, <1>18 DEF Cross
<1>19. CASE IgetMiss(p)
  BY <1>1, <1>3, <1>19 DEF IgetMiss
<1>20. CASE IgetFull(p)
  BY <1>1, <1>3, <1>20 DEF IgetFull
<1>21. CASE Got(p)
  BY <1>1, <1>3, <1>21 DEF Got
<1>22. CASE ReadError(p)
  BY <1>1, <1>3, <1>22 DEF ReadError
<1>23. CASE NoEntry(p)
  BY <1>1, <1>3, <1>23 DEF NoEntry
<1>24. CASE imkfile(p)
  BY <1>1, <1>3, <1>24 DEF imkfile
<1>25. CASE ialloc(p)
  BY <1>1, <1>3, <1>25 DEF ialloc
<1>26. CASE ialloc_iget(p)
  BY <1>1, <1>3, <1>26 DEF ialloc_iget
<1>27. CASE NoSpace(p)
  BY <1>1, <1>3, <1>27 DEF NoSpace
<1>28. CASE Made(p)
  BY <1>1, <1>3, <1>28 DEF Made
<1>29. CASE ilink(p)
  BY <1>1, <1>3, <1>29 DEF ilink
<1>30. CASE Linked(p)
  BY <1>1, <1>3, <1>30 DEF Linked
<1>31. CASE Truncate(p)
  BY <1>1, <1>3, <1>31 DEF Truncate
<1>32. CASE Truncated(p)
  BY <1>1, <1>3, <1>32 DEF Truncated, MakeP
<1>33. CASE iopen(p)
  BY <1>1, <1>3, <1>33 DEF iopen
<1>34. CASE Release(p)
  BY <1>1, <1>3, <1>34 DEF Release
<1>35. CASE ReadDone(p)
  BY <1>1, <1>3, <1>35 DEF ReadDone
<1>36. CASE idec(p)
  BY <1>1, <1>3, <1>36 DEF idec
<1>37. CASE isync(p)
  BY <1>1, <1>3, <1>37 DEF isync
<1>38. CASE Written(p)
  BY <1>1, <1>3, <1>38 DEF Written
<1>39. CASE Synced(p)
  BY <1>1, <1>3, <1>39 DEF Synced
<1>40. CASE iname(p)
  <2>1. PICK n \in Path[p] : rest' = [rest EXCEPT ![p] = n]
    BY <1>40 DEF iname
  <2>2. n \in Names \/ n = <<New>>
    BY ConstAssumption DEF Names
  <2>3. rest'[p] = n /\ ip'[p] = 1 /\ pc'[p] = "ilock" /\ ret'[p] = "walk"
    BY <1>1, <1>40, <2>1 DEF iname
  <2> QED
    BY <2>2, <2>3
<1>41. CASE fstat(p)
  BY <1>1, <1>3, <1>41 DEF fstat
<1>42. CASE read(p)
  BY <1>1, <1>3, <1>42 DEF read
<1>43. CASE close(p)
  BY <1>1, <1>3, <1>43 DEF close
<1>44. CASE sync(p)
  BY <1>1, <1>3, <1>44 DEF sync
<1> QED
  BY <1>2, <1>11, <1>12, <1>13, <1>14, <1>15, <1>16, <1>17, <1>18, <1>19, <1>20, <1>21, <1>22,
     <1>23, <1>24, <1>25, <1>26, <1>27, <1>28, <1>29, <1>30, <1>31, <1>32, <1>33, <1>34, <1>35,
     <1>36, <1>37, <1>38, <1>39, <1>40, <1>41, <1>42, <1>43, <1>44 DEF Step, Continue, Start

\* Where a process goes, and what it has then.
LEMMA PlaceStep ==
  ASSUME IInv, NEW p \in Proc, Step(p)
  PROVE  PlaceP(p)'
<1> USE DEF TypeOK, At, Goto, Bread, Return, ilock, sleep, irelse, Locked, Calls, IgetFails,
   iVars, regVars, diskVars, errVars, PlaceP, InIget, Holding
<1>1. PlaceP(p) /\ MakeP(p) /\ TypeOK /\ ip[p] \in Slot \cup {0} /\ file[p] \in Slot \cup {0}
  BY DEF IInv, PlaceInv
<1>2. Step(p)
  OBVIOUS
<1>3. RestP(p)'
  BY RestStep
<1>11. CASE LockFree(p)
  BY <1>1, <1>3, ConstFacts, <1>11 DEF LockFree
<1>12. CASE LockBusy(p)
  BY <1>1, <1>3, ConstFacts, <1>12 DEF LockBusy
<1>13. CASE LockWoken(p)
  <2>1. CASE ip[p] \in busy
    BY <1>1, <1>3, <1>13, <2>1 DEF LockWoken
  <2>2. CASE ip[p] \notin busy
    <3>1. pc'[p] = ret[p] /\ ret'[p] = "walk" /\ event' = event /\ event[p] = 0 /\ cpu' = p
      BY <1>1, <1>13, <2>2 DEF LockWoken
    <3>2. ip'[p] = ip[p] /\ parent'[p] = parent[p] /\ ip[p] # 0 /\ pc[p] = "iwait"
      BY <1>1, <1>13, <2>2 DEF LockWoken
    <3>3. ret[p] \in {"walk", "hit", "ialloc", "nwrite", "istat", "last"}
      BY <1>1
    <3>4. ret[p] = "walk" => RestP(p)'
      BY <1>3
    <3> QED
      BY <1>1, <1>3, <3>1, <3>2, <3>3
  <2> QED
    BY <2>1, <2>2
<1>14. CASE Walk(p)
  BY <1>1, <1>3, ConstFacts, <1>14 DEF Walk
<1>15. CASE Found(p)
  BY <1>1, <1>3, ConstFacts, <1>15 DEF Found
<1>16. CASE NotFound(p)
  BY <1>1, <1>3, ConstFacts, <1>16 DEF NotFound
<1>17. CASE IgetHit(p)
  BY <1>1, <1>3, ConstFacts, <1>17 DEF IgetHit
<1>18. CASE Cross(p)
  BY <1>1, <1>3, ConstFacts, <1>18 DEF Cross
<1>19. CASE IgetMiss(p)
  BY <1>1, <1>3, ConstFacts, <1>19 DEF IgetMiss
<1>20. CASE IgetFull(p)
  BY <1>1, <1>3, ConstFacts, <1>20 DEF IgetFull
<1>21. CASE Got(p)
  BY <1>1, <1>3, ConstFacts, <1>21 DEF Got
<1>22. CASE ReadError(p)
  BY <1>1, <1>3, ConstFacts, <1>22 DEF ReadError
<1>23. CASE NoEntry(p)
  BY <1>1, <1>3, ConstFacts, <1>23 DEF NoEntry
<1>24. CASE imkfile(p)
  BY <1>1, <1>3, ConstFacts, <1>24 DEF imkfile, MakeP, Asks
<1>25. CASE ialloc(p)
  BY <1>1, <1>3, ConstFacts, <1>25 DEF ialloc
<1>26. CASE ialloc_iget(p)
  BY <1>1, <1>3, ConstFacts, <1>26 DEF ialloc_iget, MakeP, Asks
<1>27. CASE NoSpace(p)
  BY <1>1, <1>3, ConstFacts, <1>27 DEF NoSpace
<1>28. CASE Made(p)
  BY <1>1, <1>3, ConstFacts, <1>28 DEF Made
<1>29. CASE ilink(p)
  BY <1>1, <1>3, ConstFacts, <1>29 DEF ilink
<1>30. CASE Linked(p)
  BY <1>1, <1>3, ConstFacts, <1>30 DEF Linked, MakeP, Asks
<1>31. CASE Truncate(p)
  BY <1>1, <1>3, ConstFacts, <1>31 DEF Truncate
<1>32. CASE Truncated(p)
  BY <1>1, <1>3, ConstFacts, <1>32 DEF Truncated
<1>33. CASE iopen(p)
  BY <1>1, <1>3, ConstFacts, <1>33 DEF iopen
<1>34. CASE Release(p)
  BY <1>1, <1>3, ConstFacts, <1>34 DEF Release
<1>35. CASE ReadDone(p)
  BY <1>1, <1>3, ConstFacts, <1>35 DEF ReadDone
<1>36. CASE idec(p)
  BY <1>1, <1>3, ConstFacts, <1>36 DEF idec
<1>37. CASE isync(p)
  <2>1. PICK s \in Slot : ip' = [ip EXCEPT ![p] = s]
    BY <1>37 DEF isync, ToWrite
  <2>2. ip'[p] = s /\ s # 0
    BY <1>1, <2>1, ConstFacts
  <2>3. pc'[p] = "iwrite" /\ event' = event /\ event[p] = 0 /\ ret' = ret
    BY <1>1, <1>37 DEF isync
  <2> QED
    BY <1>1, <1>3, <2>2, <2>3
<1>38. CASE Written(p)
  BY <1>1, <1>3, ConstFacts, <1>38 DEF Written
<1>39. CASE Synced(p)
  BY <1>1, <1>3, ConstFacts, <1>39 DEF Synced
<1>40. CASE iname(p)
  BY <1>1, <1>3, ConstFacts, <1>40 DEF iname
<1>41. CASE fstat(p)
  BY <1>1, <1>3, ConstFacts, <1>41 DEF fstat
<1>42. CASE read(p)
  BY <1>1, <1>3, ConstFacts, <1>42 DEF read
<1>43. CASE close(p)
  BY <1>1, <1>3, ConstFacts, <1>43 DEF close
<1>44. CASE sync(p)
  BY <1>1, <1>3, ConstFacts, <1>44 DEF sync
<1> QED
  BY <1>2, <1>11, <1>12, <1>13, <1>14, <1>15, <1>16, <1>17, <1>18, <1>19, <1>20, <1>21, <1>22,
     <1>23, <1>24, <1>25, <1>26, <1>27, <1>28, <1>29, <1>30, <1>31, <1>32, <1>33, <1>34, <1>35,
     <1>36, <1>37, <1>38, <1>39, <1>40, <1>41, <1>42, <1>43, <1>44 DEF Step, Continue, Start

\* A step keeps what is known of a file that p itself is making (creat).
LEMMA MakeStep ==
  ASSUME IInv, NEW p \in Proc, Step(p)
  PROVE  MakeP(p)'
<1> USE DEF IInv, TypeOK, At, Goto, Bread, Return, ilock, sleep, irelse, Locked, Calls, IgetFails,
   iVars, regVars, diskVars, errVars, MakeP, InIget, Asks
<1>1. PlaceP(p) /\ MakeP(p)
  BY DEF PlaceInv
<1>2. Step(p)
  OBVIOUS
<1>11. CASE LockFree(p)
  BY <1>1, <1>11 DEF LockFree
<1>12. CASE LockBusy(p)
  BY <1>1, <1>12 DEF LockBusy
<1>13. CASE LockWoken(p)
  BY <1>1, <1>13 DEF LockWoken
<1>14. CASE Walk(p)
  BY <1>1, <1>14 DEF Walk
<1>15. CASE Found(p)
  BY <1>1, <1>15 DEF Found
<1>16. CASE NotFound(p)
  BY <1>1, <1>16 DEF NotFound
<1>17. CASE IgetHit(p)
  BY <1>1, <1>17 DEF IgetHit
<1>18. CASE Cross(p)
  BY <1>1, <1>18 DEF Cross
<1>19. CASE IgetMiss(p)
  BY <1>1, <1>19 DEF IgetMiss
<1>20. CASE IgetFull(p)
  BY <1>1, <1>20 DEF IgetFull
<1>21. CASE Got(p)
  BY <1>1, <1>21 DEF Got
<1>22. CASE ReadError(p)
  BY <1>1, <1>22 DEF ReadError
<1>23. CASE NoEntry(p)
  <2>1. ip[p] = 1
    <3>1. dlook(p) = NoIno /\ rest[p] # <<>>
      BY <1>1, <1>23 DEF NoEntry, PlaceP
    <3>2. rest[p] \notin Names
      <4> SUFFICES ASSUME rest[p] \in Names PROVE FALSE
        OBVIOUS
      <4>1. Head(rest[p]) \in Ino
        BY <3>1 DEF Names
      <4> QED
        BY <3>1, <4>1, ConstFacts DEF dlook
    <3> QED
      BY <1>1, <1>23, <3>2 DEF NoEntry, PlaceP, RestP
  <2> QED
    BY <1>1, <1>23, <2>1 DEF NoEntry
<1>24. CASE imkfile(p)
  BY <1>1, <1>24 DEF imkfile
<1>25. CASE ialloc(p)
  BY <1>1, <1>25 DEF ialloc
<1>26. CASE ialloc_iget(p)
  BY <1>1, <1>26 DEF ialloc_iget
<1>27. CASE NoSpace(p)
  BY <1>1, <1>27 DEF NoSpace
<1>28. CASE Made(p)
  <2>1. ip[p] # 1 /\ ip[p] # 0
    <3>1. /\ InIget(p) /\ pc[p] \in {"hit", "iread"} /\ ~hurt
      BY <1>28 DEF Made
    <3>2. inum[ip[p]] = num[p] /\ num[p] \in Free
      BY <1>28, <3>1 DEF NumInv, NumP, Secret, Made
    <3>3. inum[1] = Root /\ Root \notin Free
      BY ConstFacts DEF SlotInv
    <3> QED
      BY <1>1, <3>1, <3>2, <3>3 DEF PlaceP, Holding
  <2>2. parent[p] = 1
    BY <1>1, <1>28 DEF Made
  <2>3. /\ made'[p] = ip[p] /\ op'[p] = "mkfile" /\ parent'[p] = 1 /\ pc'[p] = "ilock" /\ ret'[p] = "nwrite"
        /\ ip'[p] = 1 /\ busy' = busy \ {1}
    BY <1>28, <2>2 DEF Made
  <2> QED
    BY <2>1, <2>3
<1>29. CASE ilink(p)
  BY <1>1, <1>29 DEF ilink
<1>30. CASE Linked(p)
  BY <1>1, <1>30 DEF Linked
<1>31. CASE Truncate(p)
  BY <1>1, <1>31 DEF Truncate
<1>32. CASE Truncated(p)
  BY <1>1, <1>32 DEF Truncated
<1>33. CASE iopen(p)
  BY <1>1, <1>33 DEF iopen
<1>34. CASE Release(p)
  BY <1>1, <1>34 DEF Release
<1>35. CASE ReadDone(p)
  BY <1>1, <1>35 DEF ReadDone
<1>36. CASE idec(p)
  BY <1>1, <1>36 DEF idec
<1>37. CASE isync(p)
  BY <1>1, <1>37 DEF isync
<1>38. CASE Written(p)
  BY <1>1, <1>38 DEF Written
<1>39. CASE Synced(p)
  BY <1>1, <1>39 DEF Synced
<1>40. CASE iname(p)
  BY <1>1, <1>40 DEF iname, Walks
<1>41. CASE fstat(p)
  BY <1>1, <1>41 DEF fstat
<1>42. CASE read(p)
  BY <1>1, <1>42 DEF read
<1>43. CASE close(p)
  BY <1>1, <1>43 DEF close
<1>44. CASE sync(p)
  BY <1>1, <1>44, SMTT(30) DEF sync
<1> QED
  BY <1>2, <1>11, <1>12, <1>13, <1>14, <1>15, <1>16, <1>17, <1>18, <1>19, <1>20, <1>21, <1>22,
     <1>23, <1>24, <1>25, <1>26, <1>27, <1>28, <1>29, <1>30, <1>31, <1>32, <1>33, <1>34, <1>35,
     <1>36, <1>37, <1>38, <1>39, <1>40, <1>41, <1>42, <1>43, <1>44 DEF Step, Continue, Start

(***************************************************************************)
(* The locks: a step of p locks one slot that is free, unlocks one that p  *)
(* has, or does neither.                                                   *)
(***************************************************************************)
Keeps(p) == busy' = busy /\ \A t \in Slot : Holds(p, t)' <=> Holds(p, t)
Takes(p, s) == s \notin busy /\ busy' = busy \cup {s} /\ \A t \in Slot : Holds(p, t)' <=> Holds(p, t) \/ t = s
Gives(p, s) == Holds(p, s) /\ busy' = busy \ {s} /\ \A t \in Slot : Holds(p, t)' <=> Holds(p, t) /\ t # s

\* A step takes one lock, gives one back or leaves the locks alone (ilock, irelse).
LEMMA LockStep ==
  ASSUME IInv, NEW p \in Proc, Step(p)
  PROVE  Keeps(p) \/ \E s \in Slot : Takes(p, s) \/ Gives(p, s)
<1> USE DEF TypeOK, At, Goto, Bread, Return, ilock, sleep, irelse, Locked, Calls, IgetFails,
   iVars, regVars, diskVars, errVars, Holds, InIget, MakeP, Asks, Keeps, Takes, Gives
<1>1. /\ PlaceP(p) /\ MakeP(p) /\ TypeOK /\ 0 \notin Slot
      /\ pc[p] \in Holding \cup {"ilock", "iwait"} => ip[p] \in Slot
  BY ConstFacts DEF IInv, PlaceInv, PlaceP
<1>2. Step(p)
  OBVIOUS
<1>3. InIget(p) /\ op[p] = "mkfile" => parent[p] = 1 /\ 1 \in Slot
  BY <1>1, ConstFacts
<1>4. (pc[p] \in {"hit", "iread"} /\ op[p] = "mkfile" => ip[p] # 1) \/ hurt
  BY ConstFacts DEF IInv, NumInv, NumP, SlotInv, FreshInv
<1>11. CASE LockFree(p)
  <2>1. Takes(p, ip[p]) /\ ip[p] \in Slot
    BY <1>1, <1>11 DEF LockFree, PlaceP
  <2> QED
    BY ONLY <2>1
<1>12. CASE LockBusy(p)
  <2>1. Keeps(p)
    BY <1>1, <1>3, <1>4, <1>12 DEF LockBusy, PlaceP, Holding
  <2> QED
    BY ONLY <2>1
<1>13. CASE LockWoken(p)
  <2>1. CASE ip[p] \in busy
    <3>1. Keeps(p)
      BY <1>1, <1>13, <2>1 DEF LockWoken
    <3> QED
      BY ONLY <3>1
  <2>2. CASE ip[p] \notin busy
    <3>1. Takes(p, ip[p]) /\ ip[p] \in Slot
      BY <1>1, <1>13, <2>2 DEF LockWoken, PlaceP
    <3> QED
      BY ONLY <3>1
  <2> QED
    BY <2>1, <2>2
<1>14. CASE Walk(p)
  <2>1. Keeps(p)
    BY <1>1, <1>3, <1>4, <1>14 DEF Walk, PlaceP, Holding
  <2> QED
    BY ONLY <2>1
<1>15. CASE Found(p)
  <2>1. Gives(p, ip[p]) /\ ip[p] \in Slot
    BY <1>1, <1>3, <1>4, ConstFacts, <1>15 DEF Found, PlaceP, Holding
  <2> QED
    BY ONLY <2>1
<1>16. CASE NotFound(p)
  <2>1. Gives(p, ip[p]) /\ ip[p] \in Slot
    BY <1>1, <1>3, <1>4, ConstFacts, <1>16 DEF NotFound, PlaceP, Holding
  <2> QED
    BY ONLY <2>1
<1>17. CASE IgetHit(p)
  <2>1. Keeps(p)
    BY <1>1, <1>3, <1>4, <1>17 DEF IgetHit, PlaceP, Holding
  <2> QED
    BY ONLY <2>1
<1>18. CASE Cross(p)
  <2>1. Gives(p, ip[p]) /\ ip[p] \in Slot
    BY <1>1, <1>3, <1>4, ConstFacts, <1>18 DEF Cross, PlaceP, Holding
  <2> QED
    BY ONLY <2>1
<1>19. CASE IgetMiss(p)
  <2>1. PICK s \in Slot : s \notin busy /\ ip' = [ip EXCEPT ![p] = s] /\ busy' = busy \cup {s}
    BY <1>19 DEF IgetMiss, Unused
  <2>2. Takes(p, s)
    BY <1>1, <1>19, <2>1 DEF IgetMiss
  <2> QED
    BY ONLY <2>2
<1>20. CASE IgetFull(p)
  <2>1. Keeps(p)
    BY <1>1, <1>3, <1>4, <1>20 DEF IgetFull, PlaceP, Holding
  <2> QED
    BY ONLY <2>1
<1>21. CASE Got(p)
  <2>1. Keeps(p)
    BY <1>1, <1>3, <1>4, <1>21 DEF Got, PlaceP, Holding
  <2> QED
    BY ONLY <2>1
<1>22. CASE ReadError(p)
  <2>1. Gives(p, ip[p]) /\ ip[p] \in Slot
    BY <1>1, <1>3, <1>4, ConstFacts, <1>22 DEF ReadError, PlaceP, Holding
  <2> QED
    BY ONLY <2>1
<1>23. CASE NoEntry(p)
  <2>1. Gives(p, ip[p]) /\ ip[p] \in Slot
    BY <1>1, <1>3, <1>4, ConstFacts, <1>23 DEF NoEntry, PlaceP, Holding
  <2> QED
    BY ONLY <2>1
<1>24. CASE imkfile(p)
  <2>1. Keeps(p)
    BY <1>1, <1>3, <1>4, <1>24 DEF imkfile, PlaceP, Holding
  <2> QED
    BY ONLY <2>1
<1>25. CASE ialloc(p)
  <2>1. Keeps(p)
    BY <1>1, <1>3, <1>4, <1>25 DEF ialloc, PlaceP, Holding
  <2> QED
    BY ONLY <2>1
<1>26. CASE ialloc_iget(p)
  <2>1. Keeps(p)
    BY <1>1, <1>3, <1>4, <1>26 DEF ialloc_iget, PlaceP, Holding
  <2> QED
    BY ONLY <2>1
<1>27. CASE NoSpace(p)
  <2>1. Gives(p, 1) /\ 1 \in Slot
    BY <1>1, <1>3, <1>4, ConstFacts, <1>27 DEF NoSpace, PlaceP, Holding
  <2> QED
    BY ONLY <2>1
<1>28. CASE Made(p)
  <2>1. Gives(p, 1) /\ 1 \in Slot
    BY <1>1, <1>3, <1>4, ConstFacts, <1>28 DEF Made, PlaceP, Holding
  <2> QED
    BY ONLY <2>1
<1>29. CASE ilink(p)
  <2>1. Keeps(p)
    BY <1>1, <1>3, <1>4, <1>29 DEF ilink, PlaceP, Holding
  <2> QED
    BY ONLY <2>1
<1>30. CASE Linked(p)
  <2>1. Gives(p, 1) /\ 1 \in Slot
    BY <1>1, <1>3, <1>4, ConstFacts, <1>30 DEF Linked, PlaceP, Holding
  <2> QED
    BY ONLY <2>1
<1>31. CASE Truncate(p)
  <2>1. Keeps(p)
    BY <1>1, <1>3, <1>4, <1>31 DEF Truncate, PlaceP, Holding
  <2> QED
    BY ONLY <2>1
<1>32. CASE Truncated(p)
  <2>1. Keeps(p)
    BY <1>1, <1>3, <1>4, <1>32 DEF Truncated, PlaceP, Holding
  <2> QED
    BY ONLY <2>1
<1>33. CASE iopen(p)
  <2>1. Gives(p, ip[p]) /\ ip[p] \in Slot
    BY <1>1, <1>3, <1>4, ConstFacts, <1>33 DEF iopen, PlaceP, Holding
  <2> QED
    BY ONLY <2>1
<1>34. CASE Release(p)
  <2>1. Gives(p, ip[p]) /\ ip[p] \in Slot
    BY <1>1, <1>3, <1>4, ConstFacts, <1>34 DEF Release, PlaceP, Holding
  <2> QED
    BY ONLY <2>1
<1>35. CASE ReadDone(p)
  <2>1. Keeps(p)
    BY <1>1, <1>3, <1>4, <1>35 DEF ReadDone, PlaceP, Holding
  <2> QED
    BY ONLY <2>1
<1>36. CASE idec(p)
  <2>1. Gives(p, ip[p]) /\ ip[p] \in Slot
    BY <1>1, <1>3, <1>4, ConstFacts, <1>36 DEF idec, PlaceP, Holding
  <2> QED
    BY ONLY <2>1
<1>37. CASE isync(p)
  <2>1. PICK s \in Slot : s \notin busy /\ ip' = [ip EXCEPT ![p] = s] /\ busy' = busy \cup {s}
    BY <1>37 DEF isync, ToWrite
  <2>2. Takes(p, s)
    BY <1>1, <1>37, <2>1 DEF isync
  <2> QED
    BY ONLY <2>2
<1>38. CASE Written(p)
  <2>1. Gives(p, ip[p]) /\ ip[p] \in Slot
    BY <1>1, <1>3, <1>4, ConstFacts, <1>38 DEF Written, PlaceP, Holding
  <2> QED
    BY ONLY <2>1
<1>39. CASE Synced(p)
  <2>1. Keeps(p)
    BY <1>1, <1>3, <1>4, <1>39 DEF Synced, PlaceP, Holding
  <2> QED
    BY ONLY <2>1
<1>40. CASE iname(p)
  <2>1. Keeps(p)
    BY <1>1, <1>3, <1>4, <1>40 DEF iname, PlaceP, Holding
  <2> QED
    BY ONLY <2>1
<1>41. CASE fstat(p)
  <2>1. Keeps(p)
    BY <1>1, <1>3, <1>4, <1>41 DEF fstat, PlaceP, Holding
  <2> QED
    BY ONLY <2>1
<1>42. CASE read(p)
  <2>1. Keeps(p)
    BY <1>1, <1>3, <1>4, <1>42 DEF read, PlaceP, Holding
  <2> QED
    BY ONLY <2>1
<1>43. CASE close(p)
  <2>1. Keeps(p)
    BY <1>1, <1>3, <1>4, <1>43 DEF close, PlaceP, Holding
  <2> QED
    BY ONLY <2>1
<1>44. CASE sync(p)
  <2>1. Keeps(p)
    BY <1>1, <1>3, <1>4, <1>44 DEF sync, PlaceP, Holding
  <2> QED
    BY ONLY <2>1
<1> QED
  BY Zenon, <1>2, <1>11, <1>12, <1>13, <1>14, <1>15, <1>16, <1>17, <1>18, <1>19, <1>20, <1>21, <1>22,
     <1>23, <1>24, <1>25, <1>26, <1>27, <1>28, <1>29, <1>30, <1>31, <1>32, <1>33, <1>34, <1>35,
     <1>36, <1>37, <1>38, <1>39, <1>40, <1>41, <1>42, <1>43, <1>44 DEF Step, Continue, Start

\* Every step leaves each locked inode with its one owner.
LEMMA OwnerStep ==
  ASSUME IInv, NEW p \in Proc, Step(p)
  PROVE  OwnerInv'
<1>1. \A q \in Proc, s \in Slot : q # p => (Holds(q, s)' <=> Holds(q, s))
  BY Others DEF IInv, Holds, InIget
<1>2. CASE Keeps(p)
  BY <1>1, <1>2 DEF IInv, OwnerInv, Keeps
<1>3. ASSUME NEW s \in Slot, Takes(p, s) PROVE OwnerInv'
  BY <1>1, <1>3 DEF IInv, OwnerInv, Takes
<1>4. ASSUME NEW s \in Slot, Gives(p, s) PROVE OwnerInv'
  BY <1>1, <1>4 DEF IInv, OwnerInv, Gives
<1> QED
  BY <1>2, <1>3, <1>4, LockStep

\* Two processes do not make a name at the same time.
LEMMA OneMaker ==
  ASSUME TypeOK, PlaceInv, OwnerInv, NEW p \in Proc, NEW q \in Proc, op[p] = "mkfile", op[q] = "mkfile",
         cpu \in {p, NoProc}, pc[p] \notin {"mkfile", "ilock"}
  PROVE  p = q
<1>1. \A r \in Proc : op[r] = "mkfile" => Holds(r, 1) \/ pc[r] \in {"mkfile", "ilock"}
  BY DEF PlaceInv, PlaceP, MakeP, Asks, Holds, InIget
<1>2. pc[q] \in {"mkfile", "ilock"} => q = p
  BY ConstFacts DEF PlaceInv, PlaceP
<1> QED
  BY <1>1, <1>2, ConstFacts DEF OwnerInv

(***************************************************************************)
(* Nobody uses a slot that iget gives away, and of those who use one whose *)
(* inode cannot be read all wait for it.                                   *)
(***************************************************************************)
LEMMA RefTypes ==
  ASSUME NEW s
  PROVE  /\ Cardinality(Proc) \in Nat /\ Cardinality(Opened(s)) \in Nat
         /\ Cardinality(Left0(s)) \in Nat /\ Cardinality(Waiting(s)) \in Nat
         /\ IsFiniteSet(Opened(s)) /\ IsFiniteSet(Left0(s)) /\ IsFiniteSet(Waiting(s))
<1>1. IsFiniteSet(Proc)
  BY ConstAssumption
<1>2. Opened(s) \subseteq Proc /\ Left0(s) \subseteq Proc /\ Waiting(s) \subseteq Proc
  BY DEF Opened, Left0, Waiting
<1>3. IsFiniteSet(Opened(s)) /\ IsFiniteSet(Left0(s)) /\ IsFiniteSet(Waiting(s))
  BY <1>1, <1>2, FS_Subset
<1> QED
  BY <1>1, <1>3, FS_CardinalityType

\* The references to a slot, counted by kind.
LEMMA Referred ==
  ASSUME NEW s
  PROVE  References(s) = (IF s = 1 THEN 1 + Cardinality(Proc) ELSE 0) + (IF s = 2 THEN 1 ELSE 0)
                         + Cardinality(Opened(s)) + Cardinality(Left0(s)) + Cardinality(Waiting(s))
BY DEF References, Opened, Left0, Leaves, Waiting

\* A slot whose count is 0 is not the root's, and nobody has it open, walks from it or
\* waits for it.
LEMMA UnreferredSlot ==
  ASSUME IInv, ~hurt, NEW s \in Slot, count[s] = 0
  PROVE  s \notin {1, 2} /\ Opened(s) = {} /\ Left0(s) = {} /\ Waiting(s) = {}
<1> DEFINE N == Cardinality(Proc)
           o == Cardinality(Opened(s))
           l == Cardinality(Left0(s))
           w == Cardinality(Waiting(s))
<1>1. N \in Nat /\ o \in Nat /\ l \in Nat /\ w \in Nat
  BY RefTypes
<1>2. (IF s = 1 THEN 1 + N ELSE 0) + (IF s = 2 THEN 1 ELSE 0) + o + l + w = 0
  BY Referred DEF IInv, CountsExact
<1> HIDE DEF N, o, l, w
<1>3. s # 1 /\ s # 2 /\ o = 0 /\ l = 0 /\ w = 0
  BY <1>1, <1>2
<1>4. Cardinality(Opened(s)) = 0 /\ Cardinality(Left0(s)) = 0 /\ Cardinality(Waiting(s)) = 0
  BY <1>3 DEF o, l, w
<1>5. IsFiniteSet(Opened(s)) /\ IsFiniteSet(Left0(s)) /\ IsFiniteSet(Waiting(s))
  BY RefTypes
<1>6. Opened(s) = {} /\ Left0(s) = {} /\ Waiting(s) = {}
  BY <1>4, <1>5, FS_EmptySet
<1> QED
  BY <1>3, <1>6

\* The slot iget takes for a new inode is one that nobody is at.
LEMMA MissUnused ==
  ASSUME IInv, NEW p \in Proc, Step(p), NEW s \in Slot, Unused(s), pc[p] = "iget"
  PROVE  /\ s \notin {1, 2}
         /\ \A q \in Proc : /\ pc[q] \in Holding \cup {"ilock", "iwait"} => ip[q] # s
                            /\ made[q] # s /\ file[q] # s /\ (InIget(q) => parent[q] # s)
<1>1. ~hurt /\ cpu \in {p, NoProc}
  BY Frame, Cpu
<1>2. s \notin {1, 2} /\ Opened(s) = {} /\ Left0(s) = {} /\ Waiting(s) = {}
  BY <1>1, UnreferredSlot DEF Unused
<1>3. ASSUME NEW q \in Proc
      PROVE  /\ pc[q] \in Holding \cup {"ilock", "iwait"} => ip[q] # s
             /\ made[q] # s /\ file[q] # s /\ (InIget(q) => parent[q] # s)
  <2>1. ~ Holds(q, s)
    BY DEF IInv, OwnerInv, Unused
  <2>2. pc[q] # "ilock"
    BY <1>1, ConstFacts DEF IInv, PlaceInv, PlaceP
  <2>3. q \notin Opened(s) /\ q \notin Left0(s) /\ q \notin Waiting(s)
    BY <1>2
  <2> QED
    BY <2>1, <2>2, <2>3 DEF Holds, Holding, Opened, Left0, Leaves, Waiting
<1> QED
  BY <1>2, <1>3

\* The slot that iget zeroes after a read error is in nobody's hands but p's; that
\* others may wait for it is what hurt notes (iget.c:60).
LEMMA ErrorUnused ==
  ASSUME IInv, NEW p \in Proc, ReadError(p)
  PROVE  /\ ip[p] \in Slot \ {1, 2} /\ file[p] # ip[p] /\ parent[p] # ip[p] /\ made[p] = 0
         /\ \A q \in Proc \ {p} :
              /\ pc[q] \in Holding \cup {"ilock", "iwait"} /\ ip[q] = ip[p] => hurt'
              /\ made[q] # ip[p] /\ file[q] # ip[p] /\ (InIget(q) => parent[q] # ip[p])
         /\ Waiting(ip[p]) # {} => hurt'
<1> DEFINE s == ip[p]
<1>1. cpu \in {p, NoProc} /\ pc[p] = "iread"
  BY DEF ReadError, At
<1>2. s \in Slot \ {1, 2} /\ Opened(s) = {} /\ Left0(s) = {} /\ \A q \in Waiting(s) : event[q] = s
  <2>1. s \in Slot
    BY <1>1 DEF IInv, TypeOK, PlaceInv, PlaceP, Holding
  <2>2. /\ s \notin {1, 2}
        /\ \A q \in Proc : file[q] # s /\ ~ Leaves(q, s) /\ (pc[q] = "iwait" /\ ip[q] = s => event[q] = s)
    BY <1>1 DEF IInv, FreshInv
  <2> QED
    BY <2>1, <2>2 DEF Opened, Left0, Waiting
<1>3. Holds(p, s)
  BY <1>1 DEF Holds
<1>4. \A q \in Proc : Holds(q, s) => q = p
  BY <1>2, <1>3 DEF IInv, OwnerInv
<1>5. (hurt' <=> \E q \in Proc : event[q] = s)
  BY DEF ReadError
<1>6. ASSUME NEW q \in Waiting(s) PROVE hurt'
  BY <1>2, <1>5 DEF Waiting
<1>7. ASSUME NEW q \in Proc, q # p
      PROVE  /\ pc[q] \in Holding \cup {"ilock", "iwait"} /\ ip[q] = s => hurt'
             /\ made[q] # s /\ file[q] # s /\ (InIget(q) => parent[q] # s)
  <2>1. ~ Holds(q, s)
    BY <1>4, <1>7
  <2>2. pc[q] # "ilock"
    BY <1>1, <1>7, ConstFacts DEF IInv, PlaceInv, PlaceP
  <2>3. q \notin Opened(s) /\ q \notin Left0(s) /\ (q \in Waiting(s) => hurt')
    BY <1>2, <1>6
  <2> QED
    BY <2>1, <2>2, <2>3 DEF Holds, Holding, Opened, Left0, Leaves, Waiting
<1>8. file[p] # s /\ made[p] = 0
  BY <1>1, <1>2 DEF Opened, IInv, PlaceInv, MakeP, Asks
<1>9. parent[p] # s
  <2>1. CASE op[p] = "mkfile"
    BY <1>2, <2>1 DEF IInv, PlaceInv, MakeP
  <2>2. CASE op[p] # "mkfile"
    BY <1>1, <1>2, <2>2 DEF Left0, Leaves, InIget
  <2> QED
    BY <2>1, <2>2
<1> QED
  BY <1>2, <1>6, <1>7, <1>8, <1>9

\* What is in the slots.
LEMMA SlotStep ==
  ASSUME IInv, NEW p \in Proc, Step(p)
  PROVE  SlotInv'
<1>1. CASE IgetMiss(p)
  <2>1. PICK s \in Slot : Unused(s) /\ inum' = [inum EXCEPT ![s] = num[p]] /\ \A t \in Slot : inum[t] # num[p]
    BY <1>1 DEF IgetMiss, Missed
  <2>2. s \notin {1, 2}
    BY <1>1, <2>1, MissUnused DEF IgetMiss, At
  <2>3. \A t \in Slot : inum'[t] = IF t = s THEN num[p] ELSE inum[t]
    BY <2>1 DEF IInv, TypeOK
  <2> QED
    BY <2>1, <2>2, <2>3, ConstFacts DEF IInv, SlotInv, OneCopyPerInode
<1>2. CASE ReadError(p)
  <2>1. \A t \in Slot : inum'[t] = IF t = ip[p] THEN NoIno ELSE inum[t]
    BY <1>2 DEF IInv, TypeOK, ReadError
  <2>2. ip[p] \notin {1, 2}
    BY <1>2, ErrorUnused
  <2> QED
    BY <2>1, <2>2, ConstFacts DEF IInv, SlotInv, OneCopyPerInode
<1>3. CASE inum' = inum
  BY <1>3 DEF IInv, SlotInv, OneCopyPerInode
<1> QED
  BY <1>1, <1>2, <1>3, Frame

\* What is on disk.
LEMMA DiskStep ==
  ASSUME IInv, NEW p \in Proc, Step(p)
  PROVE  DiskInv'
<1>0. DiskInv /\ TypeOK /\ PlaceInv /\ OwnerInv /\ cpu \in {p, NoProc}
  BY Cpu DEF IInv
<1>1. \A q \in Proc : q # p => op'[q] = op[q]
  BY <1>0, Others
<1>2. CASE ialloc_iget(p)
  BY <1>0, <1>2 DEF ialloc_iget, DiskInv, NameMadeOnce
<1>3. CASE IgetFull(p) \/ ReadError(p)
  <2>1. /\ InIget(p) /\ entry' = entry
        /\ free' = free \/ (op[p] = "mkfile" /\ free' = free \cup {num[p]})
        /\ op'[p] = op[p] \/ op'[p] = "open"
    <3>1. InIget(p) /\ entry' = entry /\ IgetFails(p)
      BY <1>3 DEF IgetFull, ReadError, InIget, At
    <3>2. CASE op[p] = "mkfile"
      BY <3>1, <3>2 DEF IgetFails
    <3>3. CASE op[p] # "mkfile"
      <4>1. free' = free /\ op' = [op EXCEPT ![p] = "open"]
        BY <3>1, <3>3 DEF IgetFails, Return
      <4> QED
        BY <1>0, <3>1, <4>1 DEF TypeOK
    <3> QED
      BY <3>2, <3>3
  <2>2. op[p] = "mkfile" => num[p] \in Free /\ entry = NoIno
    BY <2>1 DEF IInv, DiskInv, NameMadeOnce, NumInv, NumP, Secret
  <2>3. NameMadeOnce'
    BY <1>0, <1>1, <2>1 DEF DiskInv, NameMadeOnce
  <2> QED
    BY <1>0, <2>1, <2>2, <2>3, ConstFacts DEF DiskInv
<1>4. CASE Linked(p)
  <2>1. op[p] = "mkfile" /\ made[p] # 0 /\ pc[p] = "linking" /\ op' = [op EXCEPT ![p] = "open"] /\ free' = free
    BY <1>0, <1>4 DEF Linked, PlaceInv, MakeP, At
  <2>2. entry' \in {entry, num[p]} /\ num[p] \in Free \ free
    BY <1>4, <2>1 DEF Linked, IInv, NumInv, NumP, Secret
  <2>3. NameMadeOnce'
    <3>1. \A q \in Proc : op[q] = "mkfile" => q = p
      BY <1>0, <2>1, OneMaker
    <3> QED
      BY <1>0, <2>1, <3>1 DEF NameMadeOnce, TypeOK
  <2> QED
    BY <1>0, <2>1, <2>2, <2>3 DEF DiskInv
<1>5. CASE NoEntry(p)
  <2>1. entry' = entry /\ free' = free
    BY <1>5 DEF NoEntry, diskVars
  <2>2. entry = NoIno
    <3>1. rest[p] # <<>> /\ RestP(p) /\ dlook(p) = NoIno
      BY <1>0, <1>5 DEF PlaceInv, PlaceP, NoEntry, At
    <3>2. CASE rest[p] \in Names
      <4>1. Head(rest[p]) \in Ino
        BY <3>1, <3>2 DEF Names
      <4> QED
        BY <3>1, <4>1, ConstFacts DEF dlook
    <3>3. CASE rest[p] = <<New>>
      BY <3>1, <3>3 DEF dlook
    <3> QED
      BY <3>1, <3>2, <3>3 DEF RestP
  <2> QED
    BY <1>0, <2>1, <2>2 DEF DiskInv, NameMadeOnce
<1>6. CASE ~ ialloc_iget(p) /\ ~ IgetFull(p) /\ ~ ReadError(p) /\ ~ Linked(p) /\ ~ NoEntry(p)
  <2>1. entry' = entry /\ free' = free
    BY <1>6, Frame
  <2>2. op'[p] = op[p] \/ op'[p] # "mkfile"
    BY <1>0, <1>6 DEF Step, Continue, Start, TypeOK, Return, Walks, Calls, ilock, regVars,
       LockFree, LockBusy, LockWoken, Walk, Found, NotFound, IgetHit, Cross, IgetMiss, IgetFull,
       Got, ReadError, NoEntry, imkfile, ialloc, ialloc_iget, NoSpace, Made, ilink, Linked,
       Truncate, Truncated, iopen, Release, ReadDone, idec, isync, Written, Synced, iname, fstat,
       read, close, sync
  <2>3. NameMadeOnce'
    BY <1>0, <1>1, <2>1, <2>2 DEF DiskInv, NameMadeOnce
  <2> QED
    BY <1>0, <2>1, <2>3 DEF DiskInv
<1> QED
  BY <1>2, <1>3, <1>4, <1>5, <1>6

(***************************************************************************)
(* The inodes that the processes have, and those they ask for.             *)
(***************************************************************************)
\* Only creat has an inode that it has just allocated.
LEMMA MakerHas ==
  ASSUME IInv, NEW q \in Proc, Secret(q)
  PROVE  op[q] = "mkfile"
<1>1. MakeP(q)
  BY DEF IInv, PlaceInv
<1> QED
  BY <1>1 DEF MakeP, Asks, Secret

\* What has had a name from the start is known, and so is what creat has named.
LEMMA KnownAre ==
  ASSUME IInv
  PROVE  Ino \ Free \subseteq Known /\ Known \subseteq Ino /\ (entry # NoIno => entry \in Known)
<1>1. \A q \in Proc : Secret(q) => num[q] \in Free /\ entry = NoIno
  BY MakerHas DEF IInv, NumInv, NumP, DiskInv, NameMadeOnce
<1>2. free \subseteq Free /\ entry \notin free /\ entry \in Ino \cup {NoIno}
  BY DEF IInv, DiskInv, TypeOK
<1> QED
  BY <1>1, <1>2 DEF Known

\* A process comes by an inode to make a file of only in ialloc.
LEMMA SecretStep ==
  ASSUME IInv, NEW p \in Proc, Step(p), Secret(p)', ~ ialloc_iget(p)
  PROVE  Secret(p) /\ num'[p] = num[p]
<1> USE DEF At, Goto, Bread, Return, ilock, sleep, irelse, Locked, Calls, IgetFails, iVars,
   regVars, InIget, Asks, Secret
<1>1. /\ PlaceP(p) /\ MakeP(p) /\ TypeOK
  BY DEF IInv, PlaceInv
<1>2. /\ DOMAIN ret = Proc /\ DOMAIN op = Proc /\ DOMAIN num = Proc /\ DOMAIN made = Proc
      /\ DOMAIN pc = Proc
  BY <1>1 DEF TypeOK
<1>3. pc[p] \in {"ilock", "iwait"} => ret[p] \in {"walk", "hit", "ialloc", "nwrite", "istat", "last"}
  BY <1>1 DEF TypeOK, PlaceP
<1>4. CASE LockFree(p) \/ LockWoken(p)
  BY <1>1, <1>2, <1>3, <1>4 DEF LockFree, LockWoken, MakeP
<1>5. CASE LockBusy(p) \/ Walk(p) \/ Found(p) \/ NotFound(p)
  BY <1>1, <1>2, <1>5 DEF MakeP, LockBusy, Walk, Found, NotFound
<1>6. CASE IgetHit(p) \/ IgetMiss(p)
  BY <1>1, <1>2, <1>6 DEF MakeP, IgetHit, IgetMiss
<1>16. CASE Cross(p)
  <2>1. NumP(p)
    BY DEF IInv, NumInv
  <2>2. op[p] # "mkfile"
    BY <1>16, <2>1, ConstFacts DEF Cross, NumP
  <2> QED
    BY <1>1, <1>2, <1>16, <2>2 DEF MakeP, Cross
<1>7. CASE IgetFull(p) \/ ReadError(p)
  BY <1>1, <1>2, <1>7 DEF MakeP, IgetFull, ReadError
<1>8. CASE Got(p)
  BY <1>1, <1>2, <1>8 DEF MakeP, Got
<1>9. CASE NoEntry(p) \/ imkfile(p) \/ ialloc(p) \/ NoSpace(p)
  BY <1>1, <1>2, <1>9 DEF MakeP, NoEntry, imkfile, ialloc, NoSpace
<1>10. CASE Made(p)
  BY <1>1, <1>2, <1>10 DEF MakeP, Made
<1>11. CASE ilink(p) \/ Linked(p)
  BY <1>1, <1>2, <1>11 DEF MakeP, ilink, Linked
<1>12. CASE Truncate(p) \/ Truncated(p) \/ iopen(p) \/ Release(p)
  BY <1>1, <1>2, <1>12 DEF MakeP, Truncate, Truncated, iopen, Release
<1>13. CASE ReadDone(p) \/ idec(p) \/ isync(p) \/ Written(p) \/ Synced(p)
  BY <1>1, <1>2, <1>13 DEF MakeP, ReadDone, idec, isync, Written, Synced
<1>14. CASE iname(p) \/ fstat(p) \/ read(p)
  BY <1>1, <1>2, <1>14 DEF MakeP, iname, fstat, read, Walks
<1>15. CASE close(p) \/ sync(p)
  BY <1>1, <1>2, <1>15 DEF MakeP, close, sync
<1> QED
  BY <1>4, <1>5, <1>6, <1>7, <1>8, <1>9, <1>10, <1>11, <1>12, <1>13, <1>14, <1>15,
     <1>16 DEF Step, Continue, Start

\* What is known stays so.
LEMMA KnownStep ==
  ASSUME IInv, NEW p \in Proc, Step(p)
  PROVE  Known \subseteq Known'
<1> SUFFICES ASSUME NEW i \in Known PROVE i \notin free' /\ \A q \in Proc : Secret(q)' => num'[q] # i
  BY DEF Known
<1>1. i \notin free /\ \A q \in Proc : Secret(q) => num[q] # i
  BY DEF Known
<1>2. i \notin free'
  <2>1. CASE IgetFull(p) \/ ReadError(p)
    <3>1. InIget(p) /\ (free' = free \/ (op[p] = "mkfile" /\ free' = free \cup {num[p]}))
      BY <2>1 DEF IgetFull, ReadError, IgetFails, InIget, At
    <3> QED
      BY <1>1, <3>1 DEF Secret
  <2>2. CASE ialloc_iget(p)
    BY <1>1, <2>2 DEF ialloc_iget
  <2> QED
    BY <1>1, <2>1, <2>2, Frame
<1>3. ASSUME NEW q \in Proc, Secret(q)' PROVE num'[q] # i
  <2>1. CASE q # p
    <3>1. Secret(q) /\ num'[q] = num[q]
      BY <1>3, <2>1, Others DEF IInv, Secret, InIget, Asks
    <3> QED
      BY <1>1, <3>1
  <2>2. CASE q = p /\ ialloc_iget(p)
    <3>1. num'[p] \in free
      BY <2>2 DEF ialloc_iget, IInv, TypeOK
    <3> QED
      BY <1>1, <2>2, <3>1
  <2>3. CASE q = p /\ ~ ialloc_iget(p)
    BY <1>1, <1>3, <2>3, SecretStep
  <2> QED
    BY <2>1, <2>2, <2>3
<1> QED
  BY <1>2, <1>3

\* What a step does to the slots that others use.
LEMMA OthersSlots ==
  ASSUME IInv, NEW p \in Proc, Step(p), NEW q \in Proc, q # p
  PROVE  /\ pc[q] \in Holding \cup {"ilock", "iwait"} => inum'[ip[q]] = inum[ip[q]] \/ hurt'
         /\ made[q] # 0 => inum'[made[q]] = inum[made[q]]
         /\ InIget(q) => inum'[parent[q]] = inum[parent[q]]
         /\ file[q] # 0 => inum'[file[q]] = inum[file[q]]
<1>1. CASE IgetMiss(p)
  <2>1. PICK s \in Slot : Unused(s) /\ inum' = [inum EXCEPT ![s] = num[p]]
    BY <1>1 DEF IgetMiss
  <2>2. /\ pc[q] \in Holding \cup {"ilock", "iwait"} => ip[q] # s
        /\ made[q] # s /\ file[q] # s /\ (InIget(q) => parent[q] # s)
    BY <1>1, <2>1, MissUnused DEF IgetMiss, At
  <2>3. \A t \in Slot : t # s => inum'[t] = inum[t]
    BY <2>1 DEF IInv, TypeOK
  <2>4. /\ pc[q] \in Holding \cup {"ilock", "iwait"} => ip[q] \in Slot
        /\ made[q] # 0 => made[q] \in Slot
        /\ InIget(q) => parent[q] \in Slot
        /\ file[q] # 0 => file[q] \in Slot
    BY DEF IInv, PlaceInv, PlaceP, TypeOK
  <2> QED
    BY <2>2, <2>3, <2>4
<1>2. CASE ReadError(p)
  <2>1. inum' = [inum EXCEPT ![ip[p]] = NoIno]
    BY <1>2 DEF ReadError
  <2>2. \A t \in Slot : t # ip[p] => inum'[t] = inum[t]
    BY <2>1 DEF IInv, TypeOK
  <2>3. /\ pc[q] \in Holding \cup {"ilock", "iwait"} => ip[q] \in Slot
        /\ made[q] # 0 => made[q] \in Slot
        /\ InIget(q) => parent[q] \in Slot
        /\ file[q] # 0 => file[q] \in Slot
    BY DEF IInv, PlaceInv, PlaceP, TypeOK
  <2>4. /\ pc[q] \in Holding \cup {"ilock", "iwait"} /\ ip[q] = ip[p] => hurt'
        /\ made[q] # ip[p] /\ file[q] # ip[p] /\ (InIget(q) => parent[q] # ip[p])
    BY <1>2, ErrorUnused
  <2> QED
    BY <2>2, <2>3, <2>4
<1>3. CASE inum' = inum
  BY <1>3
<1> QED
  BY <1>1, <1>2, <1>3, Frame

\* The free inode that a process makes a file of is known to nobody else.
LEMMA OthersFree ==
  ASSUME IInv, NEW p \in Proc, Step(p), NEW q \in Proc, q # p, op[q] = "mkfile", num[q] \notin free
  PROVE  num[q] \notin free'
<1>1. CASE IgetFull(p) \/ ReadError(p)
  <2>1. InIget(p) /\ pc[p] \in {"iget", "iread"} /\ IgetFails(p)
    BY <1>1 DEF IgetFull, ReadError, At, InIget
  <2>2. op[p] # "mkfile"
    <3> SUFFICES ASSUME op[p] = "mkfile" PROVE FALSE
      OBVIOUS
    <3> QED
      BY <2>1, OneMaker, Cpu DEF IInv
  <2> QED
    BY <2>1, <2>2 DEF IgetFails
<1>2. CASE ialloc_iget(p)
  BY <1>2 DEF ialloc_iget
<1> QED
  BY <1>1, <1>2, Frame

\* A step of p leaves every other process with the inode it asked for.
LEMMA OthersNum ==
  ASSUME IInv, NEW p \in Proc, Step(p), NEW q \in Proc, q # p
  PROVE  NumP(q)'
<1>1. NumP(q)
  BY DEF IInv, NumInv
<1>2. /\ pc'[q] = pc[q] /\ ret'[q] = ret[q] /\ op'[q] = op[q] /\ ip'[q] = ip[q]
      /\ num'[q] = num[q] /\ parent'[q] = parent[q] /\ made'[q] = made[q] /\ file'[q] = file[q]
  BY Others DEF IInv
<1>3. /\ pc[q] \in Holding \cup {"ilock", "iwait"} => inum'[ip[q]] = inum[ip[q]] \/ hurt'
      /\ made[q] # 0 => inum'[made[q]] = inum[made[q]]
      /\ InIget(q) => inum'[parent[q]] = inum[parent[q]]
      /\ file[q] # 0 => inum'[file[q]] = inum[file[q]]
  BY OthersSlots
<1>4. Known \subseteq Known'
  BY KnownStep
<1>5. Secret(q) => num[q] \in Free \ free'
  BY <1>1, OthersFree, MakerHas DEF NumP
<1>6. ~hurt
  BY Frame
<1>7. (InIget(q)' <=> InIget(q)) /\ \A x : (Asks(q, x)' <=> Asks(q, x))
  BY <1>2 DEF InIget, Asks
<1>8. /\ InIget(q)' => num'[q] \in Ino \ {Root}
      /\ InIget(q)' /\ op'[q] # "mkfile" => num'[q] \in Known'
      /\ Secret(q)' => num'[q] \in Free \ free'
      /\ made'[q] # 0 => inum'[made'[q]] = num'[q]
  BY <1>1, <1>2, <1>3, <1>4, <1>5, <1>7 DEF NumP, Secret
<1>9. pc'[q] \in {"hit", "iread"} \/ Asks(q, {"hit"})' => inum'[ip'[q]] = num'[q] \/ hurt'
  BY <1>1, <1>2, <1>3, <1>6, <1>7 DEF NumP, Asks, Holding
<1>10. pc'[q] \in {"walk", "dlook", "itrunc"} \/ Asks(q, {"walk"})' => inum'[ip'[q]] \in Known' \ {Mnt} \/ hurt'
  BY <1>1, <1>2, <1>3, <1>4, <1>6, <1>7 DEF NumP, Asks, Holding
<1>11. pc'[q] \in {"istat", "last"} \/ Asks(q, {"istat", "last"})' => inum'[ip'[q]] \in Known' \ {Mnt} \/ hurt'
  BY <1>1, <1>2, <1>3, <1>4, <1>6, <1>7 DEF NumP, Asks, Holding
<1>12. /\ InIget(q)' => inum'[parent'[q]] \in Known' \ {Mnt} \/ hurt'
       /\ file'[q] # 0 => inum'[file'[q]] \in Known' \ {Mnt}
  BY <1>1, <1>2, <1>3, <1>4, <1>6, <1>7, SMTT(30) DEF NumP
<1> QED
  BY <1>8, <1>9, <1>10, <1>11, <1>12 DEF NumP

\* The process itself.
LEMMA OwnNum ==
  ASSUME IInv, NEW p \in Proc, Step(p)
  PROVE  NumP(p)'
<1> USE DEF At, Goto, Bread, Return, ilock, sleep, irelse, Locked, Calls, IgetFails, iVars,
   regVars, diskVars, errVars, NumP, InIget, Asks, Secret
<1>1. /\ PlaceP(p) /\ MakeP(p) /\ NumP(p) /\ TypeOK /\ ~hurt
  BY Frame DEF IInv, PlaceInv, NumInv
<1>2. Step(p)
  OBVIOUS
<1>3. Known \subseteq Known'
  BY KnownStep
<1>4. /\ DOMAIN ret = Proc /\ DOMAIN op = Proc /\ DOMAIN ip = Proc /\ DOMAIN num = Proc
      /\ DOMAIN parent = Proc /\ DOMAIN made = Proc /\ DOMAIN file = Proc
      /\ DOMAIN pc = Proc
  BY <1>1 DEF TypeOK
<1>5. op[p] = "mkfile" => InIget(p) \/ Asks(p, {"ialloc", "nwrite"})
                          \/ pc[p] \in {"mkfile", "ialloc", "getsb", "nwrite", "linking"}
  BY <1>1 DEF MakeP
<1>6. made[p] # 0 <=> pc[p] \in {"nwrite", "linking"} \/ Asks(p, {"nwrite"})
  BY <1>1 DEF MakeP
<1>11. CASE LockFree(p)
  <2>1. PICK r \in {"walk", "hit", "ialloc", "nwrite", "istat", "last"} : ret[p] = r
    BY <1>1 DEF TypeOK, PlaceP
  <2>2. /\ pc'[p] = r /\ ret'[p] = "walk" /\ pc[p] \in {"ilock", "iwait"} /\ entry' = entry
        /\ op' = op /\ ip' = ip /\ num' = num /\ parent' = parent /\ made' = made /\ file' = file
        /\ inum' = inum /\ free' = free /\ hurt' = hurt
    BY <1>4, <1>11, <2>1 DEF LockFree
  <2>3. (InIget(p)' <=> InIget(p)) /\ Known \subseteq Known'
    BY <1>3, <2>1, <2>2
  <2>4. pc'[p] \in {"nwrite"} <=> made[p] # 0
    BY <1>6, <2>1, <2>2
  <2> QED
    BY <1>1, <2>1, <2>2, <2>3, <2>4
<1>12. CASE LockBusy(p)
  BY <1>1, <1>3, <1>4, <1>5, <1>6, <1>12 DEF LockBusy
<1>13. CASE LockWoken(p)
  <2>1. CASE ip[p] \in busy
    BY <1>1, <1>3, <1>4, <1>5, <1>6, <1>13, <2>1 DEF LockWoken
  <2>2. CASE ip[p] \notin busy
    <3>1. PICK r \in {"walk", "hit", "ialloc", "nwrite", "istat", "last"} : ret[p] = r
      BY <1>1 DEF TypeOK, PlaceP
    <3>2. /\ pc'[p] = r /\ ret'[p] = "walk" /\ pc[p] \in {"ilock", "iwait"} /\ entry' = entry
          /\ op' = op /\ ip' = ip /\ num' = num /\ parent' = parent /\ made' = made /\ file' = file
          /\ inum' = inum /\ free' = free /\ hurt' = hurt
      BY <1>4, <1>13, <2>2, <3>1 DEF LockWoken
    <3>3. (InIget(p)' <=> InIget(p)) /\ Known \subseteq Known'
      BY <1>3, <3>1, <3>2
    <3>4. pc'[p] \in {"nwrite"} <=> made[p] # 0
      BY <1>6, <3>1, <3>2
    <3> QED
      BY <1>1, <3>1, <3>2, <3>3, <3>4
  <2> QED
    BY <2>1, <2>2
<1>14. CASE Walk(p)
  BY <1>1, <1>3, <1>4, <1>5, <1>6, <1>14 DEF Walk
<1>15. CASE Found(p)
  <2>1. dlook(p) \in Known \ {Root}
    <3>1. rest[p] # <<>> /\ RestP(p) /\ dlook(p) # NoIno
      BY <1>1, <1>15 DEF Found, PlaceP
    <3>2. CASE rest[p] \in Names
      <4>1. Head(rest[p]) \in Ino \ ({Root} \cup Free)
        BY <3>1, <3>2 DEF Names
      <4> QED
        BY <4>1, ConstFacts, KnownAre DEF dlook
    <3>3. CASE rest[p] = <<New>>
      <4>1. entry \in Free
        BY <3>1, <3>3 DEF dlook, IInv, DiskInv
      <4> QED
        BY <3>1, <3>3, <4>1, ConstFacts, KnownAre DEF dlook
    <3> QED
      BY <3>1, <3>2, <3>3 DEF RestP
  <2>2. Known \subseteq Ino
    BY KnownAre
  <2> QED
    BY <1>1, <1>3, <1>4, <1>5, <1>6, <1>15, <2>1, <2>2 DEF Found
<1>16. CASE NotFound(p)
  BY <1>1, <1>3, <1>4, <1>5, <1>6, <1>16 DEF NotFound
<1>17. CASE IgetHit(p)
  BY <1>1, <1>3, <1>4, <1>5, <1>6, <1>17 DEF IgetHit
<1>18. CASE Cross(p)
  <2>1. op[p] # "mkfile"
    BY <1>1, <1>18, ConstFacts DEF Cross
  <2>2. MntRoot \in Known \ {Root}
    BY ConstFacts, KnownAre
  <2>3. MntRoot \in Ino
    BY ConstFacts
  <2> QED
    BY <1>1, <1>3, <1>4, <1>5, <1>6, <1>18, <2>1, <2>2, <2>3 DEF Cross
<1>19. CASE IgetMiss(p)
  <2>1. PICK s \in Slot : Unused(s) /\ inum' = [inum EXCEPT ![s] = num[p]] /\ ip' = [ip EXCEPT ![p] = s]
    BY <1>19 DEF IgetMiss
  <2>2. file[p] # s /\ parent[p] # s
    BY <1>19, <2>1, MissUnused DEF IgetMiss
  <2>3. \A t \in Slot : inum'[t] = IF t = s THEN num[p] ELSE inum[t]
    BY <1>1, <2>1 DEF TypeOK
  <2>4. parent[p] \in Slot /\ (file[p] # 0 => file[p] \in Slot)
    BY <1>1, <1>19 DEF TypeOK, PlaceP, IgetMiss
  <2> QED
    BY <1>1, <1>3, <1>4, <1>5, <1>6, <1>19, <2>1, <2>2, <2>3, <2>4 DEF IgetMiss
<1>20. CASE IgetFull(p)
  BY <1>1, <1>3, <1>4, <1>5, <1>6, <1>20 DEF IgetFull
<1>21. CASE Got(p)
  <2>1. inum[ip[p]] = num[p] /\ num[p] \in Known /\ num[p] # Mnt
    <3>1. CASE pc[p] = "iread"
      <4>1. inum[ip[p]] = num[p] /\ num[p] \in Known /\ ip[p] \in Slot \ {1, 2}
        BY <1>1, <1>21, <3>1 DEF Got, IInv, FreshInv, PlaceP, Holding, TypeOK
      <4>2. inum[2] = Mnt /\ 2 \in Slot /\ Mnt # NoIno
        BY ConstFacts DEF IInv, SlotInv
      <4> QED
        BY <4>1, <4>2 DEF IInv, SlotInv, OneCopyPerInode
    <3> QED
      BY <1>1, <1>21, <3>1 DEF Got
  <2> QED
    BY <1>1, <1>3, <1>4, <1>5, <1>6, <1>21, <2>1 DEF Got
<1>22. CASE ReadError(p)
  <2>1. inum' = [inum EXCEPT ![ip[p]] = NoIno]
    BY <1>22 DEF ReadError
  <2>2. file[p] # ip[p] /\ made[p] = 0
    BY <1>22, ErrorUnused
  <2>3. file[p] # 0 => inum'[file[p]] = inum[file[p]]
    BY <1>1, <2>1, <2>2 DEF TypeOK
  <2>4. pc'[p] \in {"getsb", "idle"} /\ made'[p] = 0 /\ file' = file /\ entry' = entry
    BY <1>1, <1>4, <1>22, <2>2 DEF ReadError
  <2> QED
    BY <1>1, <1>3, <2>3, <2>4
<1>23. CASE NoEntry(p)
  BY <1>1, <1>3, <1>4, <1>5, <1>6, <1>23 DEF NoEntry
<1>24. CASE imkfile(p)
  BY <1>1, <1>3, <1>4, <1>5, <1>6, <1>24 DEF imkfile
<1>25. CASE ialloc(p)
  BY <1>1, <1>3, <1>4, <1>5, <1>6, <1>25 DEF ialloc
<1>26. CASE ialloc_iget(p)
  <2>1. PICK i \in free : num' = [num EXCEPT ![p] = i] /\ free' = free \ {i}
    BY <1>26 DEF ialloc_iget
  <2>2. i \in Free /\ i \in Ino \ {Root}
    BY ConstFacts DEF IInv, DiskInv
  <2>3. op[p] = "mkfile" /\ parent[p] = 1 /\ inum[1] = Root /\ Root \in Known \ {Mnt}
    BY <1>1, <1>26, ConstFacts, KnownAre DEF ialloc_iget, MakeP, IInv, SlotInv
  <2> QED
    BY <1>1, <1>3, <1>4, <1>5, <1>6, <1>26, <2>1, <2>2, <2>3 DEF ialloc_iget
<1>27. CASE NoSpace(p)
  BY <1>1, <1>3, <1>4, <1>5, <1>6, <1>27 DEF NoSpace
<1>28. CASE Made(p)
  BY <1>1, <1>3, <1>4, <1>5, <1>6, <1>28 DEF Made
<1>29. CASE ilink(p)
  BY <1>1, <1>3, <1>4, <1>5, <1>6, <1>29 DEF ilink
<1>30. CASE Linked(p)
  <2>1. made[p] # 0 /\ inum[made[p]] = num[p] /\ num[p] \in Free /\ num[p] # Mnt /\ num[p] # NoIno
    BY <1>1, <1>6, <1>30, ConstFacts DEF Linked
  <2>2. num[p] \in Known'
    <3>1. \A q \in Proc : Secret(q)' => FALSE
      <4>1. op[p] = "mkfile" /\ pc[p] = "linking" /\ cpu \in {p, NoProc}
        BY <1>1, <1>30 DEF Linked, MakeP
      <4>2. \A q \in Proc : q # p => op[q] # "mkfile"
        BY <4>1, OneMaker DEF IInv
      <4>3. ASSUME NEW q \in Proc, q # p PROVE ~ Secret(q)'
        BY <1>2, <4>2, <4>3, Others, MakerHas DEF IInv
      <4>4. ~ Secret(p)'
        BY <1>4, <1>30 DEF Linked
      <4> QED
        BY <4>3, <4>4
    <3>2. num[p] \in Ino /\ num[p] \notin free'
      BY <1>1, <1>6, <1>30, <2>1, ConstFacts DEF Linked
    <3> QED
      BY <3>1, <3>2 DEF Known
  <2> QED
    BY <1>1, <1>3, <1>4, <1>30, <2>1, <2>2 DEF Linked
<1>31. CASE Truncate(p)
  BY <1>1, <1>3, <1>4, <1>5, <1>6, <1>31 DEF Truncate
<1>32. CASE Truncated(p)
  BY <1>1, <1>3, <1>4, <1>5, <1>6, <1>32 DEF Truncated
<1>33. CASE iopen(p)
  BY <1>1, <1>3, <1>4, <1>5, <1>6, <1>33 DEF iopen
<1>34. CASE Release(p)
  BY <1>1, <1>3, <1>4, <1>5, <1>6, <1>34 DEF Release
<1>35. CASE ReadDone(p)
  BY <1>1, <1>3, <1>4, <1>5, <1>6, <1>35 DEF ReadDone
<1>36. CASE idec(p)
  BY <1>1, <1>3, <1>4, <1>5, <1>6, <1>36 DEF idec
<1>37. CASE isync(p)
  BY <1>1, <1>3, <1>4, <1>5, <1>6, <1>37 DEF isync
<1>38. CASE Written(p)
  BY <1>1, <1>3, <1>4, <1>5, <1>6, <1>38 DEF Written
<1>39. CASE Synced(p)
  BY <1>1, <1>3, <1>4, <1>5, <1>6, <1>39 DEF Synced
<1>40. CASE iname(p)
  BY <1>1, <1>3, <1>4, <1>5, <1>6, ConstFacts, KnownAre, <1>40 DEF iname, Walks, IInv, SlotInv
<1>41. CASE fstat(p)
  BY <1>1, <1>3, <1>4, <1>5, <1>6, <1>41 DEF fstat
<1>42. CASE read(p)
  BY <1>1, <1>3, <1>4, <1>5, <1>6, <1>42 DEF read
<1>43. CASE close(p)
  <2>1. CASE count'[file[p]] = 0
    BY <1>1, <1>3, <1>4, <1>5, <1>6, <1>43, <2>1 DEF close
  <2>2. CASE count'[file[p]] # 0
    BY <1>1, <1>3, <1>4, <1>5, <1>6, <1>43, <2>2 DEF close
  <2> QED
    BY <2>1, <2>2
<1>44. CASE sync(p)
  BY <1>1, <1>3, <1>4, <1>5, <1>6, <1>44 DEF sync
<1> QED
  BY Zenon, <1>2, <1>11, <1>12, <1>13, <1>14, <1>15, <1>16, <1>17, <1>18, <1>19, <1>20, <1>21, <1>22,
     <1>23, <1>24, <1>25, <1>26, <1>27, <1>28, <1>29, <1>30, <1>31, <1>32, <1>33, <1>34, <1>35,
     <1>36, <1>37, <1>38, <1>39, <1>40, <1>41, <1>42, <1>43, <1>44 DEF Step, Continue, Start

\* Every step keeps the inodes processes are at the ones they asked for.
LEMMA NumStep ==
  ASSUME IInv, NEW p \in Proc, Step(p)
  PROVE  NumInv'
BY OthersNum, OwnNum DEF NumInv

(***************************************************************************)
(* Sleep and wakeup.                                                       *)
(***************************************************************************)
LEMMA BusyFrame ==
  ASSUME NEW p \in Proc, Step(p)
  PROVE  irelse(ip[p]) \/ irelse(parent[p]) \/ ReadError(p) \/ (busy \subseteq busy' /\ wanted \subseteq wanted')
BY DEF Step, Continue, Start, sleep, Locked, iVars, LockFree, LockBusy, LockWoken, Walk, Found,
   NotFound, IgetHit, Cross, IgetMiss, IgetFull, Got, ReadError, NoEntry, imkfile, ialloc,
   ialloc_iget, NoSpace, Made, ilink, Linked, Truncate, Truncated, iopen, Release, ReadDone, idec,
   isync, Written, Synced, iname, fstat, read, close, sync

\* Every step leaves each sleeper of ilock on a locked, wanted inode.
LEMMA WakeStep ==
  ASSUME IInv, NEW p \in Proc, Step(p)
  PROVE  NoLostWakeup'
<1> SUFFICES ASSUME NEW q \in Proc, event'[q] # 0
             PROVE  event'[q] \in wanted' \cap busy' \/ hurt'
  BY DEF NoLostWakeup
<1>0. ~hurt /\ TypeOK /\ (event[q] # 0 => event[q] \in wanted \cap busy)
  BY Frame DEF IInv, NoLostWakeup
<1>1. CASE LockBusy(p)
  BY <1>0, <1>1 DEF LockBusy, sleep, TypeOK
<1>2. CASE LockWoken(p)
  <2>1. CASE ip[p] \in busy
    BY <1>0, <1>2, <2>1 DEF LockWoken, sleep, TypeOK
  <2>2. CASE ip[p] \notin busy
    BY <1>0, <1>2, <2>2 DEF LockWoken, Locked
  <2> QED
    BY <2>1, <2>2
<1>3. ASSUME NEW s, irelse(s) PROVE event'[q] \in wanted' \cap busy'
  BY <1>0, <1>3 DEF irelse
<1>4. CASE ReadError(p)
  BY <1>0, <1>4 DEF ReadError
<1>5. CASE event' = event /\ busy \subseteq busy' /\ wanted \subseteq wanted'
  BY <1>0, <1>5
<1> QED
  BY <1>1, <1>2, <1>3, <1>4, <1>5, EventFrame, BusyFrame

\* How a process comes to be one of those who use a slot.
LEMMA UseFrame ==
  ASSUME TypeOK, NEW p \in Proc, Step(p), NEW s \in Slot
  PROVE  /\ file'[p] = s => file[p] = s \/ (iopen(p) /\ s = ip[p])
         /\ pc'[p] = "iwait" => event'[p] = ip'[p] /\ (LockBusy(p) \/ LockWoken(p))
         /\ pc'[p] = "iread" => IgetMiss(p)
<1> USE DEF Step, Continue, Start, At, Goto, Bread, Return, ilock, Calls, IgetFails, iVars,
   regVars, diskVars, errVars
<1>1. file'[p] = s => file[p] = s \/ (iopen(p) /\ s = ip[p])
  BY ConstFacts, ZenonT(60) DEF TypeOK, LockFree, LockBusy, LockWoken, Walk, Found, NotFound, IgetHit, Cross,
     IgetMiss, IgetFull, Got, ReadError, NoEntry, imkfile, ialloc, ialloc_iget, NoSpace, Made,
     ilink, Linked, Truncate, Truncated, iopen, Release, ReadDone, idec, isync, Written, Synced,
     iname, fstat, read, close, sync
<1>2. pc'[p] = "iread" => IgetMiss(p)
  <2>1. (LockFree(p) \/ LockWoken(p)) => pc'[p] # "iread"
    BY DEF LockFree, LockWoken, Locked, sleep, TypeOK
  <2> QED
    BY <2>1, ZenonT(60) DEF TypeOK, sleep, LockFree, LockBusy, LockWoken, Walk, Found, NotFound, IgetHit,
       Cross, IgetMiss, IgetFull, Got, ReadError, NoEntry, imkfile, ialloc, ialloc_iget, NoSpace,
       Made, ilink, Linked, Truncate, Truncated, iopen, Release, ReadDone, idec, isync, Written,
       Synced, iname, fstat, read, close, sync
<1>3. pc'[p] = "iwait" => event'[p] = ip'[p] /\ (LockBusy(p) \/ LockWoken(p))
  <2>1. LockFree(p) => pc'[p] # "iwait"
    BY DEF LockFree, Locked, TypeOK
  <2>2. LockWoken(p) /\ pc'[p] = "iwait" => event'[p] = ip'[p]
    <3>1. ASSUME LockWoken(p), ip[p] \in busy PROVE event'[p] = ip'[p]
      BY <3>1 DEF LockWoken, sleep, TypeOK
    <3>2. ASSUME LockWoken(p), ip[p] \notin busy PROVE pc'[p] # "iwait"
      BY <3>2 DEF LockWoken, Locked, TypeOK
    <3> QED
      BY <3>1, <3>2
  <2>3. LockBusy(p) => event'[p] = ip'[p]
    BY DEF LockBusy, sleep, TypeOK
  <2>4. pc'[p] = "iwait" => LockBusy(p) \/ LockWoken(p)
    BY <2>1, ZenonT(60) DEF TypeOK, LockFree, LockBusy, LockWoken, Walk, Found, NotFound, IgetHit, Cross,
       IgetMiss, IgetFull, Got, ReadError, NoEntry, imkfile, ialloc, ialloc_iget, NoSpace, Made,
       ilink, Linked, Truncate, Truncated, iopen, Release, ReadDone, idec, isync, Written, Synced,
       iname, fstat, read, close, sync
  <2> QED
    BY <2>2, <2>3, <2>4
<1> QED
  BY <1>1, <1>2, <1>3

\* iname takes a reference to a directory when it has found the next name.
LEMMA LeaveFrame ==
  ASSUME TypeOK, PlaceInv, NEW p \in Proc, Step(p), NEW s, Leaves(p, s)'
  PROVE  Leaves(p, s) \/ (Found(p) /\ s = ip[p])
<1> USE DEF Step, Continue, Start, At, Goto, Bread, Return, ilock, Calls, IgetFails, iVars,
   regVars, diskVars, errVars, Leaves, InIget
<1>1. TypeOK /\ MakeP(p) /\ Step(p)
  BY DEF PlaceInv
<1>11. CASE LockFree(p)
  BY <1>1, <1>11 DEF TypeOK, MakeP, Asks, sleep, Locked, LockFree
<1>12. CASE LockBusy(p)
  BY <1>1, <1>12 DEF TypeOK, MakeP, Asks, sleep, Locked, LockBusy
<1>13. CASE LockWoken(p)
  <2>1. CASE ip[p] \in busy
    BY <1>1, <1>13, <2>1 DEF LockWoken, sleep, TypeOK
  <2>2. CASE ip[p] \notin busy
    BY <1>1, <1>13, <2>2 DEF LockWoken, Locked, TypeOK
  <2> QED
    BY <2>1, <2>2
<1>14. CASE Walk(p)
  BY <1>1, <1>14 DEF TypeOK, MakeP, Asks, sleep, Locked, Walk
<1>15. CASE Found(p)
  BY <1>1, <1>15 DEF TypeOK, MakeP, Asks, sleep, Locked, Found
<1>16. CASE NotFound(p)
  BY <1>1, <1>16 DEF TypeOK, MakeP, Asks, sleep, Locked, NotFound
<1>17. CASE IgetHit(p)
  BY <1>1, <1>17 DEF TypeOK, MakeP, Asks, sleep, Locked, IgetHit
<1>18. CASE Cross(p)
  BY <1>1, <1>18 DEF TypeOK, MakeP, Asks, sleep, Locked, Cross
<1>19. CASE IgetMiss(p)
  BY <1>1, <1>19 DEF TypeOK, MakeP, Asks, sleep, Locked, IgetMiss
<1>20. CASE IgetFull(p)
  BY <1>1, <1>20 DEF TypeOK, MakeP, Asks, sleep, Locked, IgetFull
<1>21. CASE Got(p)
  BY <1>1, <1>21 DEF TypeOK, MakeP, Asks, sleep, Locked, Got
<1>22. CASE ReadError(p)
  BY <1>1, <1>22 DEF TypeOK, MakeP, Asks, sleep, Locked, ReadError
<1>23. CASE NoEntry(p)
  BY <1>1, <1>23 DEF TypeOK, MakeP, Asks, sleep, Locked, NoEntry
<1>24. CASE imkfile(p)
  BY <1>1, <1>24 DEF TypeOK, MakeP, Asks, sleep, Locked, imkfile
<1>25. CASE ialloc(p)
  BY <1>1, <1>25 DEF TypeOK, MakeP, Asks, sleep, Locked, ialloc
<1>26. CASE ialloc_iget(p)
  BY <1>1, <1>26 DEF TypeOK, MakeP, Asks, sleep, Locked, ialloc_iget
<1>27. CASE NoSpace(p)
  BY <1>1, <1>27 DEF TypeOK, MakeP, Asks, sleep, Locked, NoSpace
<1>28. CASE Made(p)
  BY <1>1, <1>28 DEF TypeOK, MakeP, Asks, sleep, Locked, Made
<1>29. CASE ilink(p)
  BY <1>1, <1>29 DEF TypeOK, MakeP, Asks, sleep, Locked, ilink
<1>30. CASE Linked(p)
  BY <1>1, <1>30 DEF TypeOK, MakeP, Asks, sleep, Locked, Linked
<1>31. CASE Truncate(p)
  BY <1>1, <1>31 DEF TypeOK, MakeP, Asks, sleep, Locked, Truncate
<1>32. CASE Truncated(p)
  BY <1>1, <1>32 DEF TypeOK, MakeP, Asks, sleep, Locked, Truncated
<1>33. CASE iopen(p)
  BY <1>1, <1>33 DEF TypeOK, MakeP, Asks, sleep, Locked, iopen
<1>34. CASE Release(p)
  BY <1>1, <1>34 DEF TypeOK, MakeP, Asks, sleep, Locked, Release
<1>35. CASE ReadDone(p)
  BY <1>1, <1>35 DEF TypeOK, MakeP, Asks, sleep, Locked, ReadDone
<1>36. CASE idec(p)
  BY <1>1, <1>36 DEF TypeOK, MakeP, Asks, sleep, Locked, idec
<1>37. CASE isync(p)
  BY <1>1, <1>37 DEF TypeOK, MakeP, Asks, sleep, Locked, isync
<1>38. CASE Written(p)
  BY <1>1, <1>38 DEF TypeOK, MakeP, Asks, sleep, Locked, Written
<1>39. CASE Synced(p)
  BY <1>1, <1>39 DEF TypeOK, MakeP, Asks, sleep, Locked, Synced
<1>40. CASE iname(p)
  BY <1>1, <1>40 DEF TypeOK, MakeP, Asks, sleep, Locked, iname
<1>41. CASE fstat(p)
  BY <1>1, <1>41 DEF TypeOK, MakeP, Asks, sleep, Locked, fstat
<1>42. CASE read(p)
  BY <1>1, <1>42 DEF TypeOK, MakeP, Asks, sleep, Locked, read
<1>43. CASE close(p)
  BY <1>1, <1>43 DEF TypeOK, MakeP, Asks, sleep, Locked, close
<1>44. CASE sync(p)
  BY <1>1, <1>44 DEF TypeOK, MakeP, Asks, sleep, Locked, sync
<1> QED
  BY <1>1, <1>11, <1>12, <1>13, <1>14, <1>15, <1>16, <1>17, <1>18, <1>19, <1>20, <1>21, <1>22,
     <1>23, <1>24, <1>25, <1>26, <1>27, <1>28, <1>29, <1>30, <1>31, <1>32, <1>33, <1>34, <1>35,
     <1>36, <1>37, <1>38, <1>39, <1>40, <1>41, <1>42, <1>43, <1>44

\* Nobody gets at a slot into which iget is still reading, except to wait for it.
LEMMA FreshStep ==
  ASSUME IInv, OwnerInv', PlaceInv', NEW p \in Proc, Step(p)
  PROVE  FreshInv'
<1> SUFFICES ASSUME NEW q \in Proc, NEW s, pc'[q] = "iread", s = ip'[q]
             PROVE  /\ s \notin {1, 2}
                    /\ \A r \in Proc : /\ file'[r] # s /\ ~ Leaves(r, s)'
                                       /\ pc'[r] = "iwait" /\ ip'[r] = s => event'[r] = s
  BY DEF FreshInv, Leaves
<1>0. TypeOK /\ PlaceInv
  BY DEF IInv
<1>1. \A r \in Proc : r # p => /\ pc'[r] = pc[r] /\ ret'[r] = ret[r] /\ op'[r] = op[r] /\ ip'[r] = ip[r]
                               /\ parent'[r] = parent[r] /\ file'[r] = file[r]
  BY <1>0, Others
<1>4. \A r \in Proc : r # p => (Leaves(r, s)' <=> Leaves(r, s))
  BY <1>1 DEF Leaves, InIget
<1>2. CASE q = p
  <2>1. IgetMiss(p)
    BY <1>0, <1>2, UseFrame, ConstFacts
  <2>2. s \in Slot /\ Unused(s)
    BY <1>0, <1>2, <2>1 DEF IgetMiss, TypeOK
  <2>3. /\ s \notin {1, 2}
        /\ \A r \in Proc : /\ pc[r] \in Holding \cup {"ilock", "iwait"} => ip[r] # s
                           /\ made[r] # s /\ file[r] # s /\ (InIget(r) => parent[r] # s)
    BY <2>1, <2>2, MissUnused DEF IgetMiss, At
  <2>5. file' = file /\ parent' = parent /\ InIget(p)
    BY <2>1 DEF IgetMiss, InIget, At
  <2>6. \A r \in Proc : ~ Leaves(r, s)'
    BY <1>4, <2>3, <2>5 DEF Leaves
  <2>7. \A r \in Proc : ~ (pc'[r] = "iwait" /\ ip'[r] = s)
    BY <1>1, <1>2, <2>3
  <2> QED
    BY <2>3, <2>5, <2>6, <2>7
<1>3. CASE q # p
  <2>1. pc[q] = "iread" /\ ip[q] = s /\ s \in Slot
    BY <1>0, <1>1, <1>3 DEF PlaceInv, PlaceP, TypeOK, Holding
  <2>2. /\ s \notin {1, 2}
        /\ \A r \in Proc : /\ file[r] # s /\ ~ Leaves(r, s)
                           /\ pc[r] = "iwait" /\ ip[r] = s => event[r] = s
    BY <2>1 DEF IInv, FreshInv
  <2>3. Holds(q, s) /\ ~ Holds(p, s) /\ s \in busy'
    <3>1. Holds(q, s) /\ Holds(q, s)'
      BY <1>1, <1>3, <2>1 DEF Holds
    <3> QED
      BY <1>3, <2>1, <3>1 DEF IInv, OwnerInv
  <2>4. ~ (iopen(p) /\ s = ip[p]) /\ ~ (Found(p) /\ s = ip[p])
    BY <2>3 DEF Holds, iopen, Found, At
  <2>6. ASSUME NEW r \in Proc PROVE file'[r] # s
    <3>1. CASE r = p
      BY <1>0, <2>1, <2>2, <2>4, <3>1, UseFrame
    <3>2. CASE r # p
      BY <1>1, <2>2, <3>2
    <3> QED
      BY <3>1, <3>2
  <2>7. ASSUME NEW r \in Proc PROVE ~ Leaves(r, s)'
    <3>1. CASE r = p
      BY <1>0, <2>2, <2>4, <3>1, LeaveFrame
    <3>2. CASE r # p
      BY <1>4, <2>2, <3>2
    <3> QED
      BY <3>1, <3>2
  <2>8. ASSUME NEW r \in Proc, pc'[r] = "iwait", ip'[r] = s PROVE event'[r] = s
    <3>2. CASE r = p
      BY <1>0, <2>1, <2>8, <3>2, UseFrame
    <3>3. CASE r # p
      <4>1. event[r] = s
        BY <1>1, <2>2, <2>8, <3>3
      <4>2. CASE LockBusy(p) \/ LockWoken(p)
        BY <1>0, <3>3, <4>1, <4>2 DEF LockBusy, LockWoken, sleep, Locked, TypeOK
      <4>3. ASSUME NEW t, irelse(t) PROVE event'[r] = s
        BY <2>3, <4>1, <4>3 DEF irelse
      <4> QED
        BY <4>1, <4>2, <4>3, EventFrame
    <3> QED
      BY <3>2, <3>3
  <2> QED
    BY <2>2, <2>6, <2>7, <2>8
<1> QED
  BY <1>2, <1>3

(***************************************************************************)
(* The counts.  A step of p changes only p's own references, at most one   *)
(* of them, and the count of that slot with it.                            *)
(***************************************************************************)
Waits(p, s) == pc[p] = "iwait" /\ ip[p] = s

One(b) == IF b THEN 1 ELSE 0

Refs(p, s) == One(file[p] = s) + One(Leaves(p, s)) + One(Waits(p, s))

Stays(p)    == count' = count /\ \A s \in Slot : Refs(p, s)' = Refs(p, s)
Adds(p, t)  == count' = Inc(count, t) /\ \A s \in Slot : Refs(p, s)' = Refs(p, s) + One(s = t)
Drops(p, t) == count' = Dec(count, t) /\ \A s \in Slot : Refs(p, s)' = Refs(p, s) - One(s = t)

\* Two sets of processes that differ in p at most differ in size by what p adds.
LEMMA CardMove ==
  ASSUME NEW S \in SUBSET Proc, NEW T \in SUBSET Proc, NEW p \in Proc,
         \A q \in Proc : q # p => (q \in S <=> q \in T)
  PROVE  Cardinality(T) = Cardinality(S) + One(p \in T) - One(p \in S)
<1>1. IsFiniteSet(S) /\ IsFiniteSet(T)
  BY ConstAssumption, FS_Subset
<1>2. Cardinality(S) \in Nat /\ Cardinality(T) \in Nat
  BY <1>1, FS_CardinalityType
<1>3. CASE p \in S /\ p \notin T
  <2>1. T = S \ {p}
    BY <1>3
  <2>2. Cardinality(T) = Cardinality(S) - 1
    BY <1>1, <1>3, <2>1, FS_RemoveElement
  <2> QED
    BY <1>2, <1>3, <2>2 DEF One
<1>4. CASE p \notin S /\ p \in T
  <2>1. T = S \cup {p}
    BY <1>4
  <2>2. Cardinality(T) = Cardinality(S) + 1
    BY <1>1, <1>4, <2>1, FS_AddElement
  <2> QED
    BY <1>2, <1>4, <2>2 DEF One
<1>5. CASE p \in S <=> p \in T
  <2>1. T = S
    BY <1>5
  <2> QED
    BY <1>2, <2>1 DEF One
<1> QED
  BY <1>3, <1>4, <1>5

\* A step of p changes the references to a slot by those of p.
LEMMA RefMove ==
  ASSUME TypeOK, NEW p \in Proc, Step(p), NEW s \in Slot
  PROVE  References(s)' = References(s) + Refs(p, s)' - Refs(p, s)
<1> DEFINE O1 == {q \in Proc : file[q] = s}
           O2 == {q \in Proc : file'[q] = s}
           L1 == {q \in Proc : Leaves(q, s)}
           L2 == {q \in Proc : Leaves(q, s)'}
           W1 == {q \in Proc : Waits(q, s)}
           W2 == {q \in Proc : Waits(q, s)'}
           k == (IF s = 1 THEN 1 + Cardinality(Proc) ELSE 0) + (IF s = 2 THEN 1 ELSE 0)
<1>1. \A q \in Proc : q # p => /\ (q \in O1 <=> q \in O2)
                               /\ (q \in L1 <=> q \in L2)
                               /\ (q \in W1 <=> q \in W2)
  BY Others DEF Leaves, Waits, InIget
<1>2. References(s) = k + Cardinality(O1) + Cardinality(L1) + Cardinality(W1)
  BY DEF References, Leaves, Waits
<1>3. References(s)' = k + Cardinality(O2) + Cardinality(L2) + Cardinality(W2)
  BY DEF References, Leaves, Waits
<1>4. /\ O1 \in SUBSET Proc /\ O2 \in SUBSET Proc /\ L1 \in SUBSET Proc /\ L2 \in SUBSET Proc
      /\ W1 \in SUBSET Proc /\ W2 \in SUBSET Proc
  OBVIOUS
<1>5. /\ (p \in O1 <=> file[p] = s) /\ (p \in O2 <=> file'[p] = s)
      /\ (p \in L1 <=> Leaves(p, s)) /\ (p \in L2 <=> Leaves(p, s)')
      /\ (p \in W1 <=> Waits(p, s)) /\ (p \in W2 <=> Waits(p, s)')
  OBVIOUS
<1>6. k \in Nat
  BY RefTypes
<1> HIDE DEF O1, O2, L1, L2, W1, W2, k
<1>7. /\ Cardinality(O2) = Cardinality(O1) + One(p \in O2) - One(p \in O1)
      /\ Cardinality(L2) = Cardinality(L1) + One(p \in L2) - One(p \in L1)
      /\ Cardinality(W2) = Cardinality(W1) + One(p \in W2) - One(p \in W1)
  BY <1>1, <1>4, CardMove
<1>8. /\ Cardinality(O1) \in Nat /\ Cardinality(L1) \in Nat /\ Cardinality(W1) \in Nat
  BY <1>4, ConstAssumption, FS_Subset, FS_CardinalityType
<1>9. Refs(p, s) = One(p \in O1) + One(p \in L1) + One(p \in W1)
  BY <1>5 DEF Refs, One
<1>10. Refs(p, s)' = One(p \in O2) + One(p \in L2) + One(p \in W2)
  BY <1>5 DEF Refs, One
<1>11. \A b \in BOOLEAN : One(b) \in Nat
  BY DEF One
<1>12. /\ One(p \in O1) \in Nat /\ One(p \in L1) \in Nat /\ One(p \in W1) \in Nat
       /\ One(p \in O2) \in Nat /\ One(p \in L2) \in Nat /\ One(p \in W2) \in Nat
  BY DEF One
<1> QED
  BY <1>2, <1>3, <1>6, <1>7, <1>8, <1>9, <1>10, <1>12

\* A process has at most three references to a slot.
LEMMA RefsType ==
  ASSUME NEW p, NEW s
  PROVE  Refs(p, s) \in 0 .. 3 /\ Refs(p, s)' \in 0 .. 3
BY DEF Refs, One

\* A process waits for a slot that is not the directory it steps from, so it
\* refers to a slot three times at most, and to the root twice besides its
\* current directory.
LEMMA RefBound ==
  ASSUME NEW O \in SUBSET Proc, NEW L \in SUBSET Proc, NEW W \in SUBSET Proc, NEW s,
         s = 1 => L \cap W = {}
  PROVE  LET R == (IF s = 1 THEN 1 + Cardinality(Proc) ELSE 0) + (IF s = 2 THEN 1 ELSE 0)
                  + Cardinality(O) + Cardinality(L) + Cardinality(W)
         IN  R \in Nat /\ R < CountMod
<1> DEFINE N == Cardinality(Proc)
           o == Cardinality(O)
           l == Cardinality(L)
           w == Cardinality(W)
<1>1. IsFiniteSet(Proc) /\ IsFiniteSet(O) /\ IsFiniteSet(L) /\ IsFiniteSet(W) /\ IsFiniteSet(L \cup W)
  BY ConstAssumption, FS_Subset
<1>2. N \in Nat /\ o \in Nat /\ l \in Nat /\ w \in Nat
  BY <1>1, FS_CardinalityType
<1>3. o <= N /\ l <= N /\ w <= N
  BY <1>1, FS_Subset
<1>4. s = 1 => l + w <= N
  <2> SUFFICES ASSUME L \cap W = {} PROVE l + w <= N
    OBVIOUS
  <2>1. Cardinality(L \cup W) = l + w - Cardinality(L \cap W)
    BY <1>1, FS_Union
  <2>2. Cardinality(L \cap W) = 0
    BY FS_EmptySet
  <2>3. Cardinality(L \cup W) <= N
    BY <1>1, FS_Subset
  <2> HIDE DEF N, l, w
  <2> QED
    BY <1>2, <2>1, <2>2, <2>3
<1>5. CountMod \in Nat /\ CountMod > 3 * N + 1
  BY ConstAssumption
<1> HIDE DEF N, o, l, w
<1>6. LET R == (IF s = 1 THEN 1 + N ELSE 0) + (IF s = 2 THEN 1 ELSE 0) + o + l + w
      IN  R \in Nat /\ R < CountMod
  <2>1. CASE s = 1
    BY <1>2, <1>3, <1>4, <1>5, <2>1
  <2>2. CASE s = 2
    BY <1>2, <1>3, <1>5, <2>2
  <2>3. CASE s # 1 /\ s # 2
    BY <1>2, <1>3, <1>5, <2>3
  <2> QED
    BY <2>1, <2>2, <2>3
<1> QED
  BY <1>6 DEF N, o, l, w

\* The references to a slot stay below the modulus of its count.
LEMMA NextBound ==
  ASSUME NumInv', SlotInv', ~ hurt', NEW s \in Slot
  PROVE  References(s)' \in Nat /\ References(s)' < CountMod
<1> DEFINE O == {q \in Proc : file'[q] = s}
           L == {q \in Proc : Leaves(q, s)'}
           W == {q \in Proc : Waits(q, s)'}
<1>1. s = 1 => L \cap W = {}
  <2> SUFFICES ASSUME NEW q \in Proc, Leaves(q, 1)', Waits(q, 1)' PROVE FALSE
    OBVIOUS
  <2>1. pc'[q] = "iwait" /\ ip'[q] = 1 /\ InIget(q)'
    BY DEF Leaves, Waits
  <2>2. Asks(q, {"hit"})'
    BY <2>1 DEF InIget, Asks
  <2>3. inum'[1] = num'[q] /\ num'[q] # Root
    BY <2>1, <2>2 DEF NumInv, NumP
  <2> QED
    BY <2>3 DEF SlotInv
<1>2. References(s)' = (IF s = 1 THEN 1 + Cardinality(Proc) ELSE 0) + (IF s = 2 THEN 1 ELSE 0)
                       + Cardinality(O) + Cardinality(L) + Cardinality(W)
  BY DEF References, Leaves, Waits
<1>3. O \in SUBSET Proc /\ L \in SUBSET Proc /\ W \in SUBSET Proc
  OBVIOUS
<1> HIDE DEF O, L, W
<1> QED
  BY ZenonT(60), <1>1, <1>2, <1>3, RefBound

\* Adding one, or taking one away, is exact while the count stays in range.
LEMMA CountArith ==
  ASSUME NEW c \in [Slot -> 0..(CountMod - 1)], NEW t \in Slot, NEW s \in Slot
  PROVE  /\ c[s] + One(s = t) < CountMod => Inc(c, t)[s] = c[s] + One(s = t)
         /\ c[s] - One(s = t) >= 0 => Dec(c, t)[s] = c[s] - One(s = t)
<1>1. CountMod \in Nat \ {0}
  BY FS_CardinalityType, ConstAssumption
<1>2. \A n \in Nat : n < CountMod => n % CountMod = n /\ (n + CountMod) % CountMod = n
  BY <1>1
<1>3. CASE s = t
  <2>1. Inc(c, t)[s] = (c[s] + 1) % CountMod /\ Dec(c, t)[s] = (c[s] + CountMod - 1) % CountMod
    BY <1>3 DEF Inc, Dec
  <2>2. c[s] \in Nat /\ c[s] < CountMod
    BY <1>1
  <2>3. c[s] + 1 < CountMod => (c[s] + 1) % CountMod = c[s] + 1
    BY <1>2, <2>2
  <2>4. c[s] - 1 >= 0 => (c[s] + CountMod - 1) % CountMod = c[s] - 1
    <3> SUFFICES ASSUME c[s] - 1 >= 0 PROVE (c[s] + CountMod - 1) % CountMod = c[s] - 1
      OBVIOUS
    <3>1. c[s] - 1 \in Nat /\ c[s] - 1 < CountMod /\ (c[s] - 1) + CountMod = c[s] + CountMod - 1
      BY <1>1, <2>2
    <3> QED
      BY <1>2, <3>1
  <2> QED
    BY <1>3, <2>1, <2>3, <2>4 DEF One
<1>4. CASE s # t
  BY <1>4 DEF Inc, Dec, One
<1> QED
  BY <1>3, <1>4

\* The new inode of a file being made is not referred to by anybody.
LEMMA MadeUnreferred ==
  ASSUME IInv, NEW p \in Proc, Made(p)
  PROVE  ip[p] \in Slot /\ count[ip[p]] = 0
<1> DEFINE s == ip[p]
<1>1. /\ pc[p] \in {"hit", "iread"} /\ op[p] = "mkfile" /\ InIget(p) /\ ~hurt /\ cpu \in {p, NoProc}
  BY DEF Made, At, InIget
<1>2. s \in Slot
  BY <1>1 DEF IInv, PlaceInv, PlaceP, TypeOK, Holding
<1>3. num[p] \in Free \ free /\ inum[s] = num[p] /\ entry = NoIno
  BY <1>1 DEF IInv, NumInv, NumP, Secret, DiskInv, NameMadeOnce
<1>4. num[p] \notin Known /\ s # 1 /\ s # 2
  BY <1>1, <1>3, ConstFacts DEF Known, Secret, IInv, SlotInv
<1> HIDE DEF s
<1>5. ASSUME NEW q \in Proc PROVE file[q] # s /\ ~ Leaves(q, s) /\ ~ Waits(q, s)
  <2>1. file[q] # s
    BY <1>2, <1>3, <1>4, ConstFacts DEF IInv, NumInv, NumP
  <2>2. ~ Leaves(q, s)
    BY <1>1, <1>3, <1>4 DEF IInv, NumInv, NumP, Leaves
  <2>3. ~ Waits(q, s)
    <3> SUFFICES ASSUME pc[q] = "iwait", ip[q] = s PROVE FALSE
      BY DEF Waits
    <3>1. ret[q] \in {"walk", "hit", "istat", "last"}
      BY DEF IInv, TypeOK, PlaceInv, PlaceP, MakeP, Asks
    <3>2. ret[q] = "hit"
      BY <1>1, <1>3, <1>4, <3>1 DEF IInv, NumInv, NumP, Asks
    <3>3. InIget(q) /\ num[q] = num[p]
      BY <1>1, <1>3, <3>2 DEF IInv, NumInv, NumP, Asks, InIget
    <3>4. op[q] = "mkfile"
      BY <1>4, <3>3 DEF IInv, NumInv, NumP
    <3>5. p = q
      BY <1>1, <3>4, OneMaker DEF IInv
    <3> QED
      BY <1>1, <3>5
  <2> QED
    BY <2>1, <2>2, <2>3
<1>6. Opened(s) = {} /\ Left0(s) = {} /\ Waiting(s) = {}
  BY <1>5 DEF Opened, Left0, Waiting, Waits
<1>7. References(s) = 0
  <2>1. Cardinality({}) = 0
    BY FS_EmptySet
  <2> QED
    BY <1>4, <1>6, <2>1, Referred
<1>8. count[s] = 0
  BY <1>1, <1>2, <1>7 DEF IInv, CountsExact
<1> QED
  BY <1>2, <1>8 DEF s

\* When nobody waits, the slot that a read error zeroes has no references.
LEMMA ErrorUnreferred ==
  ASSUME IInv, NEW p \in Proc, ReadError(p), ~ hurt'
  PROVE  ip[p] \in Slot /\ count[ip[p]] = 0
<1> DEFINE s == ip[p]
<1>1. pc[p] = "iread" /\ ~hurt
  BY DEF ReadError, At
<1>2. s \in Slot \ {1, 2} /\ Waiting(s) = {}
  BY ErrorUnused
<1>3. \A q \in Proc : file[q] # s /\ ~ Leaves(q, s)
  BY <1>1 DEF IInv, FreshInv
<1> HIDE DEF s
<1>4. Opened(s) = {} /\ Left0(s) = {}
  BY <1>3 DEF Opened, Left0
<1>5. References(s) = 0
  <2>1. Cardinality({}) = 0
    BY FS_EmptySet
  <2> QED
    BY <1>2, <1>4, <2>1, Referred
<1>6. count[s] = 0
  BY <1>1, <1>2, <1>5 DEF IInv, CountsExact
<1> QED
  BY <1>2, <1>6 DEF s

\* A step of p adds one reference to a slot and counts it, drops one and discounts
\* it, or does neither.
LEMMA CountMoves ==
  ASSUME IInv, NEW p \in Proc, Step(p), ~ hurt'
  PROVE  Stays(p) \/ \E t \in Slot : Adds(p, t) \/ Drops(p, t)
<1> USE DEF At, Goto, Bread, Return, ilock, sleep, irelse, Locked, Calls, IgetFails, iVars,
   regVars, diskVars, errVars, Refs, One, Leaves, Waits, InIget
<1>1. TypeOK /\ MakeP(p) /\ PlaceP(p) /\ ~hurt
  BY Frame DEF IInv, PlaceInv
<1>2. Step(p)
  OBVIOUS
<1>3. 0 \notin Slot /\ 1 \in Slot
  BY ConstFacts
<1>4. /\ pc[p] \in {"ilock", "iwait", "walk", "dlook", "hit", "iread"} => ip[p] \in Slot
      /\ InIget(p) => parent[p] \in Slot
      /\ file[p] # 0 => file[p] \in Slot
  BY <1>1 DEF PlaceP, TypeOK, Holding
<1>5. /\ DOMAIN pc = Proc /\ DOMAIN ret = Proc /\ DOMAIN op = Proc /\ DOMAIN ip = Proc /\ DOMAIN parent = Proc
      /\ DOMAIN file = Proc
  BY <1>1 DEF TypeOK
<1>11. CASE LockFree(p)
  <2>1. PICK r \in {"walk", "hit", "ialloc", "nwrite", "istat", "last"} : ret[p] = r
    BY <1>1 DEF TypeOK, PlaceP
  <2>2. /\ pc'[p] = r /\ pc[p] = "ilock" /\ count' = count /\ ret'[p] = "walk"
        /\ op' = op /\ ip' = ip /\ parent' = parent /\ file' = file
    BY <1>5, <1>11, <2>1 DEF LockFree
  <2>3. Stays(p)
    BY <2>1, <2>2 DEF Stays
  <2> QED
    BY ONLY <2>3
<1>12. CASE LockBusy(p)
  <2>1. Adds(p, ip[p]) /\ ip[p] \in Slot
    BY <1>1, <1>3, <1>4, <1>5, <1>12 DEF Adds, MakeP, Asks, LockBusy
  <2> HIDE DEF Refs, One
  <2> QED
    BY <2>1 DEF Adds
<1>13. CASE LockWoken(p)
  <2>1. CASE ip[p] \in busy
    <3>1. Stays(p)
      BY <1>1, <1>5, <1>13, <2>1 DEF Stays, LockWoken
    <3> QED
      BY ONLY <3>1
  <2>2. CASE ip[p] \notin busy
    <3>1. PICK r \in {"walk", "hit", "ialloc", "nwrite", "istat", "last"} : ret[p] = r
      BY <1>1 DEF TypeOK, PlaceP
    <3>2. /\ pc'[p] = r /\ pc[p] = "iwait" /\ count' = Dec(count, ip[p]) /\ ret'[p] = "walk"
          /\ op' = op /\ ip' = ip /\ parent' = parent /\ file' = file
      BY <1>5, <1>13, <2>2, <3>1 DEF LockWoken
    <3>3. \A s : Leaves(p, s)' <=> Leaves(p, s)
      BY <3>1, <3>2
    <3>4. \A s : (Waits(p, s) <=> s = ip[p]) /\ ~ Waits(p, s)' /\ (file'[p] = s <=> file[p] = s)
      BY <3>1, <3>2
    <3>5. \A s : Refs(p, s)' = Refs(p, s) - One(s = ip[p])
      <4> HIDE DEF Leaves, Waits
      <4> QED
        BY <3>3, <3>4
    <3>6. Drops(p, ip[p]) /\ ip[p] \in Slot
      BY <1>4, <3>2, <3>5 DEF Drops
    <3> HIDE DEF Refs, One
    <3> QED
      BY <3>6 DEF Drops
  <2> QED
    BY <2>1, <2>2
<1>14. CASE Walk(p)
  <2>1. Stays(p)
    BY <1>1, <1>3, <1>4, <1>5, <1>14 DEF Stays, MakeP, Asks, Walk
  <2> QED
    BY ONLY <2>1
<1>15. CASE Found(p)
  <2>1. Adds(p, ip[p]) /\ ip[p] \in Slot
    BY <1>1, <1>3, <1>4, <1>5, <1>15 DEF Adds, MakeP, Asks, Found
  <2> HIDE DEF Refs, One
  <2> QED
    BY <2>1 DEF Adds
<1>16. CASE NotFound(p)
  <2>1. Stays(p)
    BY <1>1, <1>3, <1>4, <1>5, <1>16 DEF Stays, MakeP, Asks, NotFound
  <2> QED
    BY ONLY <2>1
<1>17. CASE IgetHit(p)
  <2>1. Stays(p)
    BY <1>1, <1>3, <1>4, <1>5, <1>17 DEF Stays, MakeP, Asks, IgetHit
  <2> QED
    BY ONLY <2>1
<1>18. CASE Cross(p)
  <2>1. Stays(p)
    BY <1>1, <1>3, <1>4, <1>5, <1>18 DEF Stays, MakeP, Asks, Cross
  <2> QED
    BY ONLY <2>1
<1>19. CASE IgetMiss(p)
  <2>1. PICK s \in Slot : Unused(s) /\ ip' = [ip EXCEPT ![p] = s] /\ count' = [count EXCEPT ![s] = 0]
    BY <1>19 DEF IgetMiss
  <2>2. count' = count
    BY <1>1, <2>1 DEF Unused, TypeOK
  <2>3. Stays(p)
    BY <1>1, <1>3, <1>4, <1>5, <1>19, <2>1, <2>2 DEF Stays, IgetMiss
  <2> QED
    BY ONLY <2>3
<1>20. CASE IgetFull(p)
  <2>1. CASE op[p] = "mkfile"
    <3>1. Stays(p)
      BY <1>1, <1>3, <1>4, <1>5, <1>20, <2>1 DEF Stays, Left, IgetFull
    <3> QED
      BY ONLY <3>1
  <2>2. CASE op[p] # "mkfile"
    <3>1. Drops(p, parent[p]) /\ parent[p] \in Slot
      BY <1>1, <1>3, <1>4, <1>5, <1>20, <2>2 DEF Drops, Left, IgetFull
    <3> HIDE DEF Refs, One
    <3> QED
      BY <3>1 DEF Drops
  <2> QED
    BY <2>1, <2>2
<1>21. CASE Got(p)
  <2>1. CASE op[p] = "mkfile"
    <3>1. Stays(p)
      BY <1>1, <1>3, <1>4, <1>5, <1>21, <2>1 DEF Stays, Left, Got
    <3> QED
      BY ONLY <3>1
  <2>2. CASE op[p] # "mkfile"
    <3>1. Drops(p, parent[p]) /\ parent[p] \in Slot
      BY <1>1, <1>3, <1>4, <1>5, <1>21, <2>2 DEF Drops, Left, Got
    <3> HIDE DEF Refs, One
    <3> QED
      BY <3>1 DEF Drops
  <2> QED
    BY <2>1, <2>2
<1>22. CASE ReadError(p)
  <2>3. [count EXCEPT ![ip[p]] = 0] = count
    <3>1. ip[p] \in Slot /\ count[ip[p]] = 0
      BY <1>22, ErrorUnreferred
    <3> QED
      BY <1>1, <3>1 DEF TypeOK
  <2>1. CASE op[p] = "mkfile"
    <3>1. Stays(p)
      BY <1>1, <1>3, <1>4, <1>5, <1>22, <2>1, <2>3 DEF Stays, Left, ReadError
    <3> QED
      BY ONLY <3>1
  <2>2. CASE op[p] # "mkfile"
    <3>1. Drops(p, parent[p]) /\ parent[p] \in Slot
      BY <1>1, <1>3, <1>4, <1>5, <1>22, <2>2, <2>3 DEF Drops, Left, ReadError
    <3> HIDE DEF Refs, One
    <3> QED
      BY <3>1 DEF Drops
  <2> QED
    BY <2>1, <2>2
<1>23. CASE NoEntry(p)
  <2>1. Stays(p)
    BY <1>1, <1>3, <1>4, <1>5, <1>23 DEF Stays, MakeP, Asks, NoEntry
  <2> QED
    BY ONLY <2>1
<1>24. CASE imkfile(p)
  <2>1. Stays(p)
    BY <1>1, <1>3, <1>4, <1>5, <1>24 DEF Stays, MakeP, Asks, imkfile
  <2> QED
    BY ONLY <2>1
<1>25. CASE ialloc(p)
  <2>1. Stays(p)
    BY <1>1, <1>3, <1>4, <1>5, <1>25 DEF Stays, MakeP, Asks, ialloc
  <2> QED
    BY ONLY <2>1
<1>26. CASE ialloc_iget(p)
  <2>1. Stays(p)
    BY <1>1, <1>3, <1>4, <1>5, <1>26 DEF Stays, MakeP, Asks, ialloc_iget
  <2> QED
    BY ONLY <2>1
<1>27. CASE NoSpace(p)
  <2>1. Stays(p)
    BY <1>1, <1>3, <1>4, <1>5, <1>27 DEF Stays, MakeP, Asks, NoSpace
  <2> QED
    BY ONLY <2>1
<1>28. CASE Made(p)
  <2>1. count' = count
    <3>1. ip[p] \in Slot /\ count[ip[p]] = 0 /\ count' = [count EXCEPT ![ip[p]] = 0]
      BY <1>28, MadeUnreferred DEF Made
    <3> QED
      BY <1>1, <3>1 DEF TypeOK
  <2>2. Stays(p)
    BY <1>1, <1>3, <1>4, <1>5, <1>28, <2>1 DEF Stays, Made
  <2> QED
    BY ONLY <2>2
<1>29. CASE ilink(p)
  <2>1. Stays(p)
    BY <1>1, <1>3, <1>4, <1>5, <1>29 DEF Stays, MakeP, Asks, ilink
  <2> QED
    BY ONLY <2>1
<1>30. CASE Linked(p)
  <2>1. Stays(p)
    BY <1>1, <1>3, <1>4, <1>5, <1>30 DEF Stays, MakeP, Asks, Linked
  <2> QED
    BY ONLY <2>1
<1>31. CASE Truncate(p)
  <2>1. Stays(p)
    BY <1>1, <1>3, <1>4, <1>5, <1>31 DEF Stays, MakeP, Asks, Truncate
  <2> QED
    BY ONLY <2>1
<1>32. CASE Truncated(p)
  <2>1. Stays(p)
    BY <1>1, <1>3, <1>4, <1>5, <1>32 DEF Stays, MakeP, Asks, Truncated
  <2> QED
    BY ONLY <2>1
<1>33. CASE iopen(p)
  <2>1. Adds(p, ip[p]) /\ ip[p] \in Slot
    BY <1>1, <1>3, <1>4, <1>5, <1>33 DEF Adds, MakeP, Asks, iopen
  <2> HIDE DEF Refs, One
  <2> QED
    BY <2>1 DEF Adds
<1>34. CASE Release(p)
  <2>1. Stays(p)
    BY <1>1, <1>3, <1>4, <1>5, <1>34 DEF Stays, MakeP, Asks, Release
  <2> QED
    BY ONLY <2>1
<1>35. CASE ReadDone(p)
  <2>1. Stays(p)
    BY <1>1, <1>3, <1>4, <1>5, <1>35 DEF Stays, MakeP, Asks, ReadDone
  <2> QED
    BY ONLY <2>1
<1>36. CASE idec(p)
  <2>1. Stays(p)
    BY <1>1, <1>3, <1>4, <1>5, <1>36 DEF Stays, MakeP, Asks, idec
  <2> QED
    BY ONLY <2>1
<1>37. CASE isync(p)
  <2>1. Stays(p)
    BY <1>1, <1>3, <1>4, <1>5, <1>37 DEF Stays, MakeP, Asks, isync
  <2> QED
    BY ONLY <2>1
<1>38. CASE Written(p)
  <2>1. Stays(p)
    BY <1>1, <1>3, <1>4, <1>5, <1>38 DEF Stays, MakeP, Asks, Written
  <2> QED
    BY ONLY <2>1
<1>39. CASE Synced(p)
  <2>1. Stays(p)
    BY <1>1, <1>3, <1>4, <1>5, <1>39 DEF Stays, MakeP, Asks, Synced
  <2> QED
    BY ONLY <2>1
<1>40. CASE iname(p)
  <2>1. Stays(p)
    BY <1>1, <1>3, <1>4, <1>5, <1>40 DEF Stays, MakeP, Asks, iname
  <2> QED
    BY ONLY <2>1
<1>41. CASE fstat(p)
  <2>1. Stays(p)
    BY <1>1, <1>3, <1>4, <1>5, <1>41 DEF Stays, MakeP, Asks, fstat
  <2> QED
    BY ONLY <2>1
<1>42. CASE read(p)
  <2>1. Stays(p)
    BY <1>1, <1>3, <1>4, <1>5, <1>42 DEF Stays, MakeP, Asks, read
  <2> QED
    BY ONLY <2>1
<1>43. CASE close(p)
  <2>1. Drops(p, file[p]) /\ file[p] \in Slot
    BY <1>1, <1>3, <1>4, <1>5, <1>43 DEF Drops, MakeP, Asks, close
  <2> HIDE DEF Refs, One
  <2> QED
    BY <2>1 DEF Drops
<1>44. CASE sync(p)
  <2>1. Stays(p)
    BY <1>1, <1>3, <1>4, <1>5, <1>44 DEF Stays, MakeP, Asks, sync
  <2> QED
    BY ONLY <2>1
<1> QED
  BY <1>2, <1>11, <1>12, <1>13, <1>14, <1>15, <1>16, <1>17, <1>18, <1>19, <1>20, <1>21, <1>22,
     <1>23, <1>24, <1>25, <1>26, <1>27, <1>28, <1>29, <1>30, <1>31, <1>32, <1>33, <1>34, <1>35,
     <1>36, <1>37, <1>38, <1>39, <1>40, <1>41, <1>42, <1>43, <1>44 DEF Step, Continue, Start

\* Every step keeps the counts equal to the references.
LEMMA CountStep ==
  ASSUME IInv, NumInv', SlotInv', NEW p \in Proc, Step(p)
  PROVE  CountsExact'
<1> SUFFICES ASSUME NEW s \in Slot, ~ hurt' PROVE count'[s] = References(s)'
  BY DEF CountsExact
<1>1. count[s] = References(s) /\ count \in [Slot -> 0..(CountMod - 1)] /\ TypeOK
  BY Frame DEF IInv, CountsExact, TypeOK
<1>2. References(s)' = References(s) + Refs(p, s)' - Refs(p, s)
  BY <1>1, RefMove
<1>3. References(s)' \in Nat /\ References(s)' < CountMod
  BY NextBound
<1>4. count[s] \in Nat /\ Refs(p, s) \in Nat /\ Refs(p, s)' \in Nat
  <2>1. CountMod \in Nat
    BY ConstAssumption
  <2> QED
    BY <1>1, <2>1, RefsType
<1>5. CASE Stays(p)
  BY <1>1, <1>2, <1>4, <1>5 DEF Stays
<1>6. ASSUME NEW t \in Slot, Adds(p, t) PROVE count'[s] = References(s)'
  <2>1. count' = Inc(count, t) /\ Refs(p, s)' = Refs(p, s) + One(s = t) /\ One(s = t) \in Nat
    BY <1>6 DEF Adds, One
  <2>2. References(s)' = count[s] + One(s = t)
    BY <1>1, <1>2, <1>4, <2>1
  <2>3. Inc(count, t)[s] = count[s] + One(s = t)
    BY <1>1, <1>3, <2>2, CountArith
  <2> QED
    BY <2>1, <2>2, <2>3
<1>7. ASSUME NEW t \in Slot, Drops(p, t) PROVE count'[s] = References(s)'
  <2>1. count' = Dec(count, t) /\ Refs(p, s)' = Refs(p, s) - One(s = t) /\ One(s = t) \in Nat
    BY <1>7 DEF Drops, One
  <2>2. References(s)' = count[s] - One(s = t)
    BY <1>1, <1>2, <1>4, <2>1
  <2>4. count[s] - One(s = t) >= 0
    BY <1>3, <2>2
  <2>3. Dec(count, t)[s] = count[s] - One(s = t)
    BY <1>1, <2>4, CountArith
  <2> QED
    BY <2>1, <2>2, <2>3
<1> QED
  BY <1>5, <1>6, <1>7, CountMoves
-----------------------------------------------------------------------------
\* After start-up the invariant holds: the root and the mount point are in core.
LEMMA InitInv == Init => IInv
<1> SUFFICES ASSUME Init PROVE IInv
  OBVIOUS
<1> USE DEF Init
<1>0. /\ Cardinality(Proc) \in Nat /\ CountMod \in Nat /\ 1 + Cardinality(Proc) \in 0..(CountMod - 1)
      /\ 1 \in 0..(CountMod - 1) /\ 0 \in 0..(CountMod - 1) /\ MaxErrors \in Nat
  BY ConstAssumption, FS_CardinalityType
<1>1. TypeOK
  <2>1. inum \in [Slot -> Ino \cup {NoIno}]
    BY ConstFacts
  <2>2. count \in [Slot -> 0..(CountMod - 1)]
    BY <1>0
  <2>3. rest \in [Proc -> Seq(Ino \cup {New})]
    <3>1. <<>> \in Seq(Ino \cup {New})
      OBVIOUS
    <3> QED
      BY <3>1
  <2>4. hurt \in BOOLEAN
    OBVIOUS
  <2>5. nerr \in 0..MaxErrors /\ free \subseteq Ino /\ entry \in Ino \cup {NoIno}
    BY <1>0, ConstFacts
  <2>6. /\ pc \in [Proc -> {"idle", "ilock", "iwait", "walk", "dlook", "iget", "iclean", "hit", "iread",
                      "mkfile", "ialloc", "getsb", "nwrite", "linking", "itrunc", "istat", "done",
                      "last", "isync", "iwrite", "unlink", "clear", "clearing"}]
        /\ ret \in [Proc -> {"walk", "hit", "ialloc", "nwrite", "istat", "last", "clear"}]
        /\ op \in [Proc -> Walks \cup {"mkfile"}]
    BY DEF Walks
  <2>7. /\ event \in [Proc -> Slot \cup {0}] /\ ip \in [Proc -> Slot \cup {0}] /\ num \in [Proc -> Ino \cup {NoIno}]
        /\ parent \in [Proc -> Slot \cup {0}] /\ made \in [Proc -> Slot \cup {0}] /\ file \in [Proc -> Slot \cup {0}]
    OBVIOUS
  <2> QED
    BY <2>1, <2>2, <2>3, <2>4, <2>5, <2>6, <2>7 DEF TypeOK
<1>2. PlaceInv
  <2>1. <<>> \in Names
    BY DEF Names
  <2> QED
    BY <2>1 DEF PlaceInv, PlaceP, MakeP, InIget, Asks, RestP, Holding
<1>3. OwnerInv
  BY ConstFacts DEF OwnerInv, Holds, InIget
<1>4. inum[1] = Root /\ inum[2] = Mnt /\ \A s \in Slot : s # 1 /\ s # 2 => inum[s] = NoIno
  BY ConstFacts
<1>5. SlotInv
  BY <1>4, ConstFacts DEF SlotInv, OneCopyPerInode
<1>6. DiskInv
  BY ConstFacts DEF DiskInv, NameMadeOnce
<1>7. NumInv
  BY DEF NumInv, NumP, Secret, InIget, Asks
<1>8. FreshInv /\ NoLostWakeup
  BY DEF FreshInv, NoLostWakeup
<1>9. CountsExact
  <2> SUFFICES ASSUME NEW s \in Slot PROVE count[s] = References(s)
    BY DEF CountsExact
  <2>1. Opened(s) = {} /\ Left0(s) = {} /\ Waiting(s) = {}
    BY ConstFacts DEF Opened, Left0, Waiting, Leaves, InIget
  <2>2. Cardinality({}) = 0
    BY FS_EmptySet
  <2>3. References(s) = (IF s = 1 THEN 1 + Cardinality(Proc) ELSE 0) + (IF s = 2 THEN 1 ELSE 0)
    <3> DEFINE N == Cardinality(Proc)
    <3>1. References(s) = (IF s = 1 THEN 1 + N ELSE 0) + (IF s = 2 THEN 1 ELSE 0) + 0 + 0 + 0
      BY <2>1, <2>2, Referred
    <3> HIDE DEF N
    <3>2. N \in Nat
      BY <1>0 DEF N
    <3>3. References(s) = (IF s = 1 THEN 1 + N ELSE 0) + (IF s = 2 THEN 1 ELSE 0)
      BY <3>1, <3>2
    <3> QED
      BY <3>3 DEF N
  <2>4. count[s] = CASE s = 1 -> 1 + Cardinality(Proc) [] s = 2 -> 1 [] OTHER -> 0
    OBVIOUS
  <2> QED
    BY <1>0, <2>3, <2>4
<1> QED
  BY <1>1, <1>2, <1>3, <1>5, <1>6, <1>7, <1>8, <1>9 DEF IInv

\* Every step of a process preserves the whole invariant.
LEMMA StepInv ==
  ASSUME IInv, NEW p \in Proc, Step(p)
  PROVE  IInv'
<1>1. TypeOK' /\ SlotInv' /\ DiskInv' /\ NumInv' /\ NoLostWakeup' /\ OwnerInv'
  BY TypeStep, SlotStep, DiskStep, NumStep, WakeStep, OwnerStep
<1>2. PlaceInv'
  <2> SUFFICES ASSUME NEW q \in Proc PROVE PlaceP(q)' /\ MakeP(q)'
    BY DEF PlaceInv
  <2>1. CASE q = p
    BY <2>1, PlaceStep, MakeStep
  <2>2. CASE q # p
    BY <2>2, OthersPlace DEF IInv
  <2> QED
    BY <2>1, <2>2
<1>3. FreshInv'
  BY <1>1, <1>2, FreshStep
<1>4. CountsExact'
  BY <1>1, CountStep
<1> QED
  BY <1>1, <1>2, <1>3, <1>4 DEF IInv

\* The locks, references and contents of the in-core inodes, whatever the
\* processes do and however many transfers fail.
THEOREM InodeInvariant == Spec => []IInv
<1>1. Init => IInv
  BY InitInv
<1>2. IInv /\ [Next]_vars => IInv'
  <2> SUFFICES ASSUME IInv, [Next]_vars PROVE IInv'
    OBVIOUS
  <2>1. CASE Next
    BY <2>1, StepInv DEF Next, Step
  <2>2. CASE UNCHANGED vars
    <3> USE <2>2 DEF vars, iVars, regVars, diskVars, errVars
    <3>1. TypeOK' /\ PlaceInv' /\ OwnerInv'
      BY DEF IInv, TypeOK, PlaceInv, PlaceP, MakeP, RestP, Asks, InIget, OwnerInv, Holds
    <3>2. SlotInv' /\ DiskInv' /\ NumInv'
      BY DEF IInv, SlotInv, OneCopyPerInode, DiskInv, NameMadeOnce, NumInv, NumP, Known, Secret,
         Asks, InIget
    <3>3. FreshInv' /\ NoLostWakeup' /\ CountsExact'
      BY DEF IInv, FreshInv, Leaves, InIget, NoLostWakeup, CountsExact, References
    <3> QED
      BY <3>1, <3>2, <3>3 DEF IInv
  <2> QED
    BY <2>1, <2>2
<1> QED
  BY <1>1, <1>2, PTL DEF Spec

\* Every variable keeps its type; in particular no count leaves the range of
\* inode.count (UINT8, inode.h), and no slot number leaves ilist[].
THEOREM TypeCorrect == Spec => []TypeOK
<1>1. IInv => TypeOK
  BY DEF IInv
<1> QED
  BY <1>1, InodeInvariant, PTL

\* IBUSY is the lock of one process (iget.c, ilock and irelse): however many
\* processes irelse wakes, and whatever order they come back in, only one of
\* them has the inode, and nobody leaves it locked.
THEOREM LockHasOneOwner == Spec => []OneOwner
<1>1. IInv => OneOwner
  <2> SUFFICES ASSUME IInv, NEW s \in Slot
               PROVE  Cardinality({p \in Proc : Holds(p, s)}) = (IF s \in busy THEN 1 ELSE 0)
    BY DEF OneOwner
  <2> DEFINE H == {p \in Proc : Holds(p, s)}
  <2>1. CASE s \in busy
    <3>1. PICK p \in Proc : Holds(p, s)
      BY <2>1 DEF IInv, OwnerInv
    <3>2. H = {p}
      BY <3>1 DEF IInv, OwnerInv
    <3> QED
      BY <2>1, <3>2, FS_Singleton
  <2>2. CASE s \notin busy
    <3>1. H = {}
      BY <2>2 DEF IInv, OwnerInv
    <3> QED
      BY <2>2, <3>1, FS_EmptySet
  <2> QED
    BY <2>1, <2>2
<1> QED
  BY <1>1, InodeInvariant, PTL

\* iget never brings an inode into core twice (iget.c): between its search and
\* the mark "for other searchers" it does not sleep, as long as the slot it
\* takes needs no read to be written.
THEOREM OneCopy == Spec => []OneCopyPerInode
<1>1. IInv => OneCopyPerInode
  BY DEF IInv, SlotInv
<1> QED
  BY <1>1, InodeInvariant, PTL

\* What iget returns is the inode it was asked for, and an open file is not a
\* free inode: no slot is given away under those who wait for it, step from it
\* or have it open (iget.c, name.c).
THEOREM InodeIsRight == Spec => []RightInode
<1>1. IInv => RightInode
  <2> SUFFICES ASSUME IInv, NEW p \in Proc
               PROVE  /\ InIget(p) /\ pc[p] \notin {"iget", "iclean"} => inum[ip[p]] = num[p] \/ hurt
                      /\ file[p] # 0 => inum[file[p]] \notin {NoIno, Mnt} \cup free
    BY DEF RightInode
  <2>1. NumP(p) /\ DiskInv
    BY DEF IInv, NumInv
  <2>2. InIget(p) /\ pc[p] \notin {"iget", "iclean"} => inum[ip[p]] = num[p] \/ hurt
    BY <2>1 DEF NumP, InIget, Asks
  <2>3. file[p] # 0 => inum[file[p]] \notin {NoIno, Mnt} \cup free
    BY <2>1, ConstFacts DEF NumP, Known, DiskInv
  <2> QED
    BY <2>2, <2>3
<1> QED
  BY <1>1, InodeInvariant, PTL

\* i->count is the number of references to the slot, and its eight bits never
\* overflow, along every path through iname, iget, open, creat and close.
THEOREM CountIsExact == Spec => []CountsExact
<1>1. IInv => CountsExact
  BY DEF IInv
<1> QED
  BY <1>1, InodeInvariant, PTL

\* Who sleeps in ilock sleeps on a locked inode with IWANT set, so the irelse
\* of its owner wakes him (iget.c).
THEOREM WakeupIsNotLost == Spec => []NoLostWakeup
<1>1. IInv => NoLostWakeup
  BY DEF IInv
<1> QED
  BY <1>1, InodeInvariant, PTL

\* "No sleeps between now and create" (name.c): two creats of a name do not
\* both write the entry.
THEOREM NameIsMadeOnce == Spec => []NameMadeOnce
<1>1. IInv => NameMadeOnce
  BY DEF IInv, DiskInv
<1> QED
  BY <1>1, InodeInvariant, PTL
=============================================================================
