------------------------------- MODULE Inode -------------------------------
(***************************************************************************)
(* The in-core inodes of the Micronix kernel (sys/iget.c), the walk along  *)
(* a path name (sys/name.c), open, creat, close, fstat, read and sync, and *)
(* unlink (sys/open.c, create.c, link.c, ialloc.c, sys2.c, rdwri.c).       *)
(*                                                                         *)
(* No interrupt touches an inode, and a process in the kernel keeps the    *)
(* cpu until it sleeps.  cpu is the process that has it between two steps; *)
(* processes change over only where the code sleeps: for an inode lock or  *)
(* in bread().  All files are ordinary files and directories.              *)
(***************************************************************************)
EXTENDS Integers, FiniteSets, Sequences

CONSTANTS
  Proc,         \* processes
  NoProc,       \* the cpu is in user mode or idle
  Ino,          \* the inodes on disk, (i_inum, i_dev) in the code
  NoIno,        \* the zeroed i_inum of an unused slot or directory entry
  NINODE,       \* slots of ilist[], 50 in the code
  Root,         \* the root directory
  Mnt,          \* a directory a device is mounted on
  MntRoot,      \* the root directory of that device, its inode 1
  Free,         \* the inodes that are free at first
  New,          \* a name in the root directory that creat makes
  Path,         \* the path names each process uses; a file that is there for
                \* good is its own name
  Ops,          \* the operations that each process performs
  CountMod,     \* inode.count is a UINT8, 256 in the code
  MaxErrors     \* bound on the failed reads and writes of a behaviour

Slot   == 1..NINODE
Walks  == {"open", "stat", "creat", "unlink"}
AllOps == Walks \cup {"fstat", "close", "read", "sync"}

ASSUME ConstAssumption ==
  /\ IsFiniteSet(Proc) /\ NoProc \notin Proc
  /\ {Root, Mnt, MntRoot} \subseteq Ino \ Free /\ Free \subseteq Ino
  /\ Root # Mnt /\ Mnt # MntRoot /\ MntRoot # Root
  /\ NoIno \notin Ino /\ New \notin Ino
  /\ NINODE \in Nat /\ NINODE >= 3
  /\ \A p \in Proc : \A n \in Path[p] : n \in Seq(Ino \ ({Root} \cup Free)) \/ n = <<New>>
  /\ Ops \in [Proc -> SUBSET AllOps]
  /\ CountMod \in Nat /\ CountMod > 3 * Cardinality(Proc) + 1
  /\ MaxErrors \in Nat

VARIABLES
  inum,     \* i_inum and i_dev of each slot
  busy,     \* the slots with IBUSY
  wanted,   \* the slots with IWANT
  mod,      \* the slots with IMOD
  count,    \* count of in-core references
  cpu,      \* the process inside the kernel that is not asleep
  pc,       \* where each process is
  event,    \* the slot it sleeps on, 0 if none
  ret,      \* where it goes on when it has the lock it asks for
  op,       \* what iname was called for; "mkfile" once the name is to be made
  ip,       \* its register variable ip (i in iget)
  num,      \* the inode it looks for in iget
  rest,     \* the names of its path still to be looked up
  parent,   \* u.iparent while it will still be used, else 0
  made,     \* the slot of the inode that imkfile makes a name for, 0 if none
  file,     \* the slot of the file it has open, 0 if none
  entry,    \* the inode that the directory entry of New names
  free,     \* the free inodes on disk
  unlinked, \* the inodes whose i_nlink unlink has made 0
  nerr,     \* auxiliary: failed transfers so far
  hurt      \* auxiliary: a slot was zeroed while processes waited for it

iVars    == <<inum, busy, wanted, mod, count>>
regVars  == <<ret, op, ip, num, rest, parent, made>>
diskVars == <<entry, free, unlinked>>
errVars  == <<nerr, hurt>>
vars == <<iVars, cpu, pc, event, regVars, file, diskVars, errVars>>

TypeOK ==
  /\ inum \in [Slot -> Ino \cup {NoIno}]
  /\ busy \subseteq Slot /\ wanted \subseteq Slot /\ mod \subseteq Slot
  /\ count \in [Slot -> 0..(CountMod - 1)]
  /\ cpu \in Proc \cup {NoProc}
  /\ pc \in [Proc -> {"idle", "ilock", "iwait", "walk", "dlook", "iget", "iclean", "hit", "iread",
                      "mkfile", "ialloc", "getsb", "nwrite", "linking", "itrunc", "istat", "done",
                      "last", "isync", "iwrite", "unlink", "clear", "clearing"}]
  /\ ret \in [Proc -> {"walk", "hit", "ialloc", "nwrite", "istat", "last", "clear"}]
  /\ event \in [Proc -> Slot \cup {0}]
  /\ op \in [Proc -> Walks \cup {"mkfile"}]
  /\ ip \in [Proc -> Slot \cup {0}]
  /\ num \in [Proc -> Ino \cup {NoIno}]
  /\ rest \in [Proc -> Seq(Ino \cup {New})]
  /\ parent \in [Proc -> Slot \cup {0}] /\ made \in [Proc -> Slot \cup {0}]
  /\ file \in [Proc -> Slot \cup {0}]
  /\ entry \in Ino \cup {NoIno} /\ free \subseteq Ino /\ unlinked \subseteq Ino
  /\ nerr \in 0..MaxErrors /\ hurt \in BOOLEAN

\* The root, everybody's current directory, and the mount point are in core.
Init ==
  /\ inum = [s \in Slot |-> CASE s = 1 -> Root [] s = 2 -> Mnt [] OTHER -> NoIno]
  /\ count = [s \in Slot |-> CASE s = 1 -> 1 + Cardinality(Proc) [] s = 2 -> 1 [] OTHER -> 0]
  /\ busy = {} /\ wanted = {} /\ mod = {}
  /\ cpu = NoProc
  /\ pc = [p \in Proc |-> "idle"] /\ event = [p \in Proc |-> 0]
  /\ ret = [p \in Proc |-> "walk"] /\ op = [p \in Proc |-> "open"]
  /\ ip = [p \in Proc |-> 0] /\ num = [p \in Proc |-> NoIno]
  /\ rest = [p \in Proc |-> <<>>]
  /\ parent = [p \in Proc |-> 0] /\ made = [p \in Proc |-> 0]
  /\ file = [p \in Proc |-> 0]
  /\ entry = NoIno /\ free = Free /\ unlinked = {}
  /\ nerr = 0 /\ hurt = FALSE
-----------------------------------------------------------------------------
(* Locks, sleep and wakeup.                                                 *)

Inc(c, s) == [c EXCEPT ![s] = (@ + 1) % CountMod]
Dec(c, s) == [c EXCEPT ![s] = (@ + CountMod - 1) % CountMod]

\* p, which stands at a place of the code, has the cpu or may be given it.
\* Behaviours are followed until a failed read zeroes a slot under waiters:
\* they sleep for ever then, on an inode whose count is wrong.
At(p, place) == cpu \in {p, NoProc} /\ pc[p] = place /\ event[p] = 0 /\ ~hurt

\* p goes on to another place: without a sleep, or asleep in bread().
Goto(p, place)  == pc' = [pc EXCEPT ![p] = place] /\ cpu' = p
Bread(p, place) == pc' = [pc EXCEPT ![p] = place] /\ cpu' = NoProc

\* p leaves the kernel; what its registers held is dead.
Return(p) ==
  /\ pc' = [pc EXCEPT ![p] = "idle"] /\ cpu' = NoProc
  /\ ret' = [ret EXCEPT ![p] = "walk"] /\ op' = [op EXCEPT ![p] = "open"]
  /\ ip' = [ip EXCEPT ![p] = 0] /\ num' = [num EXCEPT ![p] = NoIno]
  /\ rest' = [rest EXCEPT ![p] = <<>>]
  /\ parent' = [parent EXCEPT ![p] = 0] /\ made' = [made EXCEPT ![p] = 0]

\* p is to lock slot s and go on at a place with it.
ilock(p, s, place) ==
  /\ Goto(p, "ilock")
  /\ ip' = [ip EXCEPT ![p] = s]
  /\ ret' = [ret EXCEPT ![p] = place]

\* sleep(ip): p is off the cpu until a wakeup of the slot.
sleep(p, s) ==
  /\ wanted' = wanted \cup {s}
  /\ event' = [event EXCEPT ![p] = s]
  /\ Bread(p, "iwait")

\* Mutant of irelse: IWANT is cleared before it is tested.
irelseNoWakeup(s) ==
  /\ busy' = busy \ {s}
  /\ wanted' = wanted \ {s}
  /\ event' = event

\* Unlock the slot and wake whoever waits for it.
irelse(s) ==
  /\ busy' = busy \ {s}
  /\ wanted' = wanted \ {s}
  /\ event' = [q \in Proc |-> IF s \in wanted /\ event[q] = s THEN 0 ELSE event[q]]

\* p has the lock.
Locked(p) ==
  /\ busy' = busy \cup {ip[p]}
  /\ Goto(p, ret[p])
  /\ ret' = [ret EXCEPT ![p] = "walk"]

\* ilock finds the inode free.
LockFree(p) ==
  /\ At(p, "ilock") /\ ip[p] \notin busy
  /\ Locked(p)
  /\ UNCHANGED <<inum, wanted, mod, count, event, op, ip, num, rest, parent, made, file,
                 diskVars, errVars>>

\* ilock finds it busy; the count keeps the slot from being given away.
LockBusy(p) ==
  /\ At(p, "ilock") /\ ip[p] \in busy
  /\ count' = Inc(count, ip[p])
  /\ sleep(p, ip[p])
  /\ UNCHANGED <<inum, busy, mod, regVars, file, diskVars, errVars>>

\* Mutant of LockWoken: the inode is taken without looking at IBUSY again.
LockWokenTake(p) ==
  /\ At(p, "iwait")
  /\ Locked(p)
  /\ count' = Dec(count, ip[p])
  /\ UNCHANGED <<inum, wanted, mod, event, op, ip, num, rest, parent, made, file, diskVars,
                 errVars>>

\* The loop of ilock after a wakeup: the inode is free, or somebody was faster.
LockWoken(p) ==
  /\ At(p, "iwait")
  /\ IF ip[p] \in busy
     THEN sleep(p, ip[p]) /\ UNCHANGED <<busy, count, ret>>
     ELSE Locked(p) /\ count' = Dec(count, ip[p]) /\ UNCHANGED <<wanted, event>>
  /\ UNCHANGED <<inum, mod, op, ip, num, rest, parent, made, file, diskVars, errVars>>
-----------------------------------------------------------------------------
(* iname and iget.                                                          *)

\* A system call starts while no process is inside the kernel and awake.
Calls(p, o) == o \in Ops[p] /\ cpu = NoProc /\ At(p, "idle")

\* iname starts at the root.
iname(p) ==
  /\ \E o \in Walks : Calls(p, o) /\ op' = [op EXCEPT ![p] = o]
  /\ \E n \in Path[p] : rest' = [rest EXCEPT ![p] = n]
  /\ ilock(p, 1, "walk")
  /\ UNCHANGED <<iVars, event, num, parent, made, file, diskVars, errVars>>

\* Another name: dlook reads the directory, which stays locked.
Walk(p) ==
  /\ At(p, "walk") /\ rest[p] # <<>>
  /\ Bread(p, "dlook")
  /\ UNCHANGED <<iVars, event, regVars, file, diskVars, errVars>>

\* What dlook finds in the directory.
dlook(p) == IF Head(rest[p]) = New THEN entry ELSE Head(rest[p])

\* The name is found; iname keeps a reference to the directory over iget.
Found(p) ==
  /\ At(p, "dlook") /\ dlook(p) # NoIno
  /\ num' = [num EXCEPT ![p] = dlook(p)]
  /\ rest' = [rest EXCEPT ![p] = Tail(@)]
  /\ parent' = [parent EXCEPT ![p] = ip[p]]
  /\ count' = Inc(count, ip[p])
  /\ irelse(ip[p])
  /\ Goto(p, "iget")
  /\ UNCHANGED <<inum, mod, ret, op, ip, made, file, diskVars, errVars>>

\* The name is not there, or the directory may not be searched or cannot be
\* read.
NotFound(p) ==
  /\ At(p, "dlook")
  /\ irelse(ip[p])
  /\ Return(p)
  /\ UNCHANGED <<inum, mod, count, file, diskVars, errVars>>

\* iget finds the inode in core.
IgetHit(p) ==
  /\ At(p, "iget")
  /\ \E s \in Slot :
       /\ inum[s] = num[p]
       /\ \A t \in 1..(s - 1) : inum[t] # num[p]
       /\ ilock(p, s, "hit")
  /\ UNCHANGED <<iVars, event, op, num, rest, parent, made, file, diskVars, errVars>>

\* The inode is mounted on: iget starts over with the root of the device.
Cross(p) ==
  /\ At(p, "hit") /\ inum[ip[p]] = Mnt
  /\ irelse(ip[p])
  /\ num' = [num EXCEPT ![p] = MntRoot]
  /\ Goto(p, "iget")
  /\ UNCHANGED <<inum, mod, count, ret, op, ip, rest, parent, made, file, diskVars, errVars>>

\* Mutant of Missed: an inode that is locked is passed over by the search.
MissedBusy(p) == \A s \in Slot : s \in busy \/ inum[s] # num[p]

Missed(p) == \A s \in Slot : inum[s] # num[p]

\* Mutant of Unused: an inode that is referred to is given away.
UnusedBusy(s) == s \notin busy

\* A slot that iget may give to another inode.  Which of them is oldest is
\* left open: itime() forgets the order when its counter recycles.
Unused(s) == count[s] = 0 /\ s \notin busy

\* iget takes an unused slot, names it for the other searchers and reads the
\* inode into it.  If the slot is modified it is written first, here without a
\* sleep because its block is in the cache; see IgetWrite.
IgetMiss(p) ==
  /\ At(p, "iget") /\ Missed(p)
  /\ \E s \in Slot :
       /\ Unused(s)
       /\ ip' = [ip EXCEPT ![p] = s]
       /\ busy' = busy \cup {s}
       /\ mod' = mod \ {s}
       /\ inum' = [inum EXCEPT ![s] = num[p]]
       /\ count' = [count EXCEPT ![s] = 0]
  /\ Bread(p, "iread")
  /\ UNCHANGED <<wanted, event, ret, op, num, rest, parent, made, file, diskVars, errVars>>

\* Mutant of Left: the reference to the directory is kept.
LeftKept(p, c) == c

\* iname drops the reference to the directory when iget returns.
Left(p, c) == IF op[p] = "mkfile" THEN c ELSE Dec(c, parent[p])

\* iget fails: iname returns, ialloc tries again with the parent locked.
IgetFails(p) ==
  IF op[p] = "mkfile"
  THEN /\ free' = free \cup {num[p]} /\ ip' = [ip EXCEPT ![p] = parent[p]]
       /\ Bread(p, "getsb") /\ UNCHANGED <<ret, op, num, rest, parent, made>>
  ELSE Return(p) /\ free' = free

\* All slots are in use (ENFILE).
IgetFull(p) ==
  /\ At(p, "iget") /\ Missed(p)
  /\ \A s \in Slot : ~Unused(s)
  /\ count' = Left(p, count)
  /\ IgetFails(p)
  /\ UNCHANGED <<inum, busy, wanted, mod, event, file, entry, unlinked, errVars>>

\* iget returns a locked inode to iname.
Got(p) ==
  /\ op[p] # "mkfile"
  /\ \/ At(p, "hit") /\ inum[ip[p]] # Mnt
     \/ At(p, "iread")
  /\ count' = Left(p, count)
  /\ Goto(p, "walk")
  /\ num' = [num EXCEPT ![p] = NoIno]
  /\ parent' = [parent EXCEPT ![p] = IF op[p] = "unlink" THEN @ ELSE 0]
  /\ UNCHANGED <<inum, busy, wanted, mod, event, ret, op, ip, rest, made, file, diskVars,
                 errVars>>

\* The inode could not be read: the slot is zeroed, IWANT and the references
\* of those who wait for it included, and irelse wakes nobody.
ReadError(p) ==
  /\ At(p, "iread") /\ nerr < MaxErrors
  /\ nerr' = nerr + 1
  /\ inum' = [inum EXCEPT ![ip[p]] = NoIno]
  /\ count' = Left(p, [count EXCEPT ![ip[p]] = 0])
  /\ busy' = busy \ {ip[p]} /\ wanted' = wanted \ {ip[p]} /\ mod' = mod \ {ip[p]}
  /\ hurt' = \E q \in Proc : event[q] = ip[p]
  /\ IgetFails(p)
  /\ UNCHANGED <<event, file, entry, unlinked>>
-----------------------------------------------------------------------------
(* creat: the directory may not change between the search for the name and  *)
(* the write of the entry.                                                  *)

\* The name is not there: iname unlocks the directory and imkfile locks it.
NoEntry(p) ==
  /\ At(p, "dlook") /\ op[p] = "creat" /\ dlook(p) = NoIno
  /\ op' = [op EXCEPT ![p] = "mkfile"]
  /\ parent' = [parent EXCEPT ![p] = ip[p]]
  /\ irelse(ip[p])
  /\ Goto(p, "mkfile")
  /\ UNCHANGED <<inum, mod, count, ret, ip, num, rest, made, file, diskVars, errVars>>

\* Mutant of imkfile: the process gives up the cpu before it locks.
imkfileLate(p) ==
  /\ At(p, "mkfile")
  /\ Bread(p, "ilock") /\ ret' = [ret EXCEPT ![p] = "ialloc"]
  /\ UNCHANGED <<iVars, event, op, ip, num, rest, parent, made, file, diskVars, errVars>>

imkfile(p) ==
  /\ At(p, "mkfile")
  /\ ilock(p, parent[p], "ialloc")
  /\ UNCHANGED <<iVars, event, op, num, rest, parent, made, file, diskVars, errVars>>

\* ialloc waits for the superblock and perhaps reads the list of inodes.
ialloc(p) ==
  /\ At(p, "ialloc")
  /\ Bread(p, "getsb")
  /\ UNCHANGED <<iVars, event, regVars, file, diskVars, errVars>>

ialloc_iget(p) ==
  /\ At(p, "getsb")
  /\ \E i \in free : num' = [num EXCEPT ![p] = i] /\ free' = free \ {i}
  /\ Goto(p, "iget")
  /\ UNCHANGED <<iVars, event, ret, op, ip, rest, parent, made, file, entry, unlinked, errVars>>

\* Mutant of NoSpace: the directory stays locked.
NoSpaceLocked(p) ==
  /\ At(p, "getsb") /\ (free = {} \/ nerr < MaxErrors)
  /\ nerr' = IF free = {} THEN nerr ELSE nerr + 1
  /\ Return(p)
  /\ UNCHANGED <<iVars, event, file, diskVars, hurt>>

\* There is no free inode, or ifill could not read the blocks that hold one.
NoSpace(p) ==
  /\ At(p, "getsb") /\ (free = {} \/ nerr < MaxErrors)
  /\ nerr' = IF free = {} THEN nerr ELSE nerr + 1
  /\ irelse(parent[p])
  /\ Return(p)
  /\ UNCHANGED <<inum, mod, count, file, diskVars, hurt>>

\* ialloc has the inode; imkfile unlocks the directory, and ilink locks it.
Made(p) ==
  /\ At(p, "hit") \/ At(p, "iread")
  /\ op[p] = "mkfile"
  /\ made' = [made EXCEPT ![p] = ip[p]]
  /\ mod' = mod \cup {ip[p]}
  /\ count' = [count EXCEPT ![ip[p]] = 0]
  /\ unlinked' = unlinked \ {num[p]}
  /\ irelse(parent[p])
  /\ ilock(p, parent[p], "nwrite")
  /\ UNCHANGED <<inum, op, num, rest, parent, file, entry, free, errVars>>

\* ilink: nwrite sleeps for the block of the directory and writes the entry.
ilink(p) ==
  /\ At(p, "nwrite")
  /\ Bread(p, "linking")
  /\ UNCHANGED <<iVars, event, regVars, file, diskVars, errVars>>

\* The entry is written, or not if its block could not be read: imkfile does
\* not ask.  The new file is opened, with or without a name.
Linked(p) ==
  /\ At(p, "linking")
  /\ \/ entry' = inum[made[p]] /\ nerr' = nerr
     \/ entry' = entry /\ nerr < MaxErrors /\ nerr' = nerr + 1
  /\ mod' = mod \cup {ip[p]}
  /\ irelse(ip[p])
  /\ Goto(p, "walk")
  /\ ip' = [ip EXCEPT ![p] = made[p]] /\ rest' = [rest EXCEPT ![p] = <<>>]
  /\ op' = [op EXCEPT ![p] = "open"] /\ num' = [num EXCEPT ![p] = NoIno]
  /\ parent' = [parent EXCEPT ![p] = 0] /\ made' = [made EXCEPT ![p] = 0]
  /\ UNCHANGED <<inum, count, ret, file, free, unlinked, hurt>>
-----------------------------------------------------------------------------
(* open, stat, fstat, read, close and sync.                                 *)

\* creat of a file that exists: itrunc frees its blocks.
Truncate(p) ==
  /\ At(p, "walk") /\ rest[p] = <<>> /\ op[p] = "creat"
  /\ Bread(p, "itrunc")
  /\ UNCHANGED <<iVars, event, regVars, file, diskVars, errVars>>

Truncated(p) ==
  /\ At(p, "itrunc")
  /\ mod' = mod \cup {ip[p]}
  /\ op' = [op EXCEPT ![p] = "open"]
  /\ Goto(p, "walk")
  /\ UNCHANGED <<inum, busy, wanted, count, event, ret, ip, num, rest, parent, made, file,
                 diskVars, errVars>>

\* open and creat: iopen takes a reference and the inode is unlocked.
iopen(p) ==
  /\ At(p, "walk") /\ rest[p] = <<>> /\ op[p] = "open" /\ file[p] = 0
  /\ file' = [file EXCEPT ![p] = ip[p]]
  /\ count' = Inc(count, ip[p])
  /\ irelse(ip[p])
  /\ Return(p)
  /\ UNCHANGED <<inum, mod, diskVars, errVars>>

\* No permission, or no free file structure; istat, and creat of a directory,
\* leave the same way.  The process has the memory that istat copies to.
Release(p) ==
  /\ \/ At(p, "walk") /\ rest[p] = <<>>
     \/ At(p, "istat")
  /\ irelse(ip[p])
  /\ Return(p)
  /\ UNCHANGED <<inum, mod, count, file, diskVars, errVars>>

fstat(p) ==
  /\ Calls(p, "fstat") /\ file[p] # 0
  /\ ilock(p, file[p], "istat")
  /\ UNCHANGED <<iVars, event, op, num, rest, parent, made, file, diskVars, errVars>>

\* read of an open file: rdwri does not lock the inode.
read(p) ==
  /\ Calls(p, "read") /\ file[p] # 0
  /\ Bread(p, "done")
  /\ UNCHANGED <<iVars, event, regVars, file, diskVars, errVars>>

\* iread has copied the data and sets i_rtime.
ReadDone(p) ==
  /\ At(p, "done")
  /\ mod' = mod \cup {file[p]}
  /\ Return(p)
  /\ UNCHANGED <<inum, busy, wanted, count, event, file, diskVars, errVars>>

\* iclose drops a reference and locks the inode for idec if it was the last.
close(p) ==
  /\ Calls(p, "close") /\ file[p] # 0
  /\ file' = [file EXCEPT ![p] = 0]
  /\ count' = Dec(count, file[p])
  /\ IF count'[file[p]] = 0
     THEN ilock(p, file[p], "last") /\ UNCHANGED <<op, num, rest, parent, made>>
     ELSE Return(p)
  /\ UNCHANGED <<inum, busy, wanted, mod, event, diskVars, errVars>>

\* idec of a file that has a name, or that was opened again meanwhile.
idec(p) ==
  /\ At(p, "last") /\ (inum[ip[p]] \notin unlinked \/ count[ip[p]] # 0)
  /\ irelse(ip[p])
  /\ Return(p)
  /\ UNCHANGED <<inum, mod, count, file, diskVars, errVars>>

sync(p) ==
  /\ Calls(p, "sync")
  /\ Goto(p, "isync")
  /\ UNCHANGED <<iVars, event, regVars, file, diskVars, errVars>>

ToWrite(p) == {s \in Slot : s > ip[p] /\ s \in mod \ busy}

\* isync locks the next modified inode that is free, and writes it.
isync(p) ==
  /\ At(p, "isync")
  /\ \E s \in ToWrite(p) :
       /\ \A t \in ToWrite(p) : s <= t
       /\ ip' = [ip EXCEPT ![p] = s]
       /\ busy' = busy \cup {s}
  /\ Bread(p, "iwrite")
  /\ UNCHANGED <<inum, wanted, mod, count, event, ret, op, num, rest, parent, made, file,
                 diskVars, errVars>>

\* The inode is copied to its block, or the block could not be read.
Written(p) ==
  /\ At(p, "iwrite")
  /\ \/ mod' = mod \ {ip[p]} /\ nerr' = nerr
     \/ nerr < MaxErrors /\ nerr' = nerr + 1 /\ mod' = mod
  /\ irelse(ip[p])
  /\ Goto(p, "isync")
  /\ UNCHANGED <<inum, count, regVars, file, diskVars, hurt>>

Synced(p) ==
  /\ At(p, "isync") /\ ToWrite(p) = {}
  /\ Return(p)
  /\ UNCHANGED <<iVars, event, file, diskVars, errVars>>
-----------------------------------------------------------------------------
\* A process inside the kernel goes on.
Continue(p) ==
  \/ LockFree(p) \/ LockBusy(p) \/ LockWoken(p)
  \/ Walk(p) \/ Found(p) \/ NotFound(p) \/ IgetHit(p) \/ Cross(p) \/ IgetMiss(p)
  \/ IgetFull(p) \/ Got(p) \/ ReadError(p)
  \/ NoEntry(p) \/ imkfile(p) \/ ialloc(p) \/ ialloc_iget(p) \/ NoSpace(p)
  \/ Made(p) \/ ilink(p) \/ Linked(p)
  \/ Truncate(p) \/ Truncated(p) \/ iopen(p) \/ Release(p) \/ ReadDone(p) \/ idec(p)
  \/ isync(p) \/ Written(p) \/ Synced(p)

\* A process calls the kernel.
Start(p) == iname(p) \/ fstat(p) \/ read(p) \/ close(p) \/ sync(p)

Next == \E p \in Proc : Continue(p) \/ Start(p)

Spec == Init /\ [][Next]_vars

\* The disk answers, and sched() gives the cpu to every process that is awake
\* in the kernel.
FairSpec == Spec /\ \A p \in Proc : SF_vars(Continue(p))
-----------------------------------------------------------------------------
(* What breaks the invariants below, and is left out of Next: a slot that   *)
(* iget writes to a block that is not in the cache, and unlink.             *)

\* The slot is modified and its block has to be read: iget sleeps before it
\* marks the slot "for other searchers".
IgetWrite(p) ==
  /\ At(p, "iget") /\ Missed(p)
  /\ \E s \in mod :
       /\ Unused(s)
       /\ ip' = [ip EXCEPT ![p] = s]
       /\ busy' = busy \cup {s}
  /\ Bread(p, "iclean")
  /\ UNCHANGED <<inum, wanted, mod, count, event, ret, op, num, rest, parent, made, file,
                 diskVars, errVars>>

\* The slot is written; iget goes on without another search.
IgetWritten(p) ==
  /\ At(p, "iclean")
  /\ mod' = mod \ {ip[p]}
  /\ inum' = [inum EXCEPT ![ip[p]] = num[p]]
  /\ count' = [count EXCEPT ![ip[p]] = 0]
  /\ Bread(p, "iread")
  /\ UNCHANGED <<busy, wanted, event, regVars, file, diskVars, errVars>>

\* The slot could not be written.
IgetUnwritten(p) ==
  /\ At(p, "iclean") /\ nerr < MaxErrors
  /\ nerr' = nerr + 1
  /\ count' = Left(p, count)
  /\ irelse(ip[p])
  /\ IgetFails(p)
  /\ UNCHANGED <<inum, mod, file, entry, unlinked, hurt>>

\* The link count goes down with the inode unlocked; idec finds no reference
\* and sleeps in itrunc and ifree.
UnlinkLast(p) ==
  /\ At(p, "walk") /\ rest[p] = <<>> /\ op[p] = "unlink" /\ inum[ip[p]] = entry
  /\ unlinked' = unlinked \cup {entry}
  /\ mod' = mod \cup {ip[p]}
  /\ count[ip[p]] = 0
  /\ count' = Inc(count, parent[p])
  /\ irelse(ip[p])
  /\ Bread(p, "unlink")
  /\ UNCHANGED <<inum, regVars, file, entry, free, errVars>>

\* idec unlocks the inode, and ilink(0) locks the directory.
Unlinked(p) ==
  /\ At(p, "unlink")
  /\ free' = free \cup {inum[ip[p]]}
  /\ count' = Dec(count, parent[p])
  /\ irelse(ip[p])
  /\ ilock(p, parent[p], "clear")
  /\ UNCHANGED <<inum, mod, op, num, rest, parent, made, file, entry, unlinked, errVars>>

\* unlink of a file that is open.
UnlinkOpen(p) ==
  /\ At(p, "walk") /\ rest[p] = <<>> /\ op[p] = "unlink" /\ inum[ip[p]] = entry
  /\ unlinked' = unlinked \cup {entry}
  /\ mod' = mod \cup {ip[p]}
  /\ count[ip[p]] # 0
  /\ irelse(ip[p])
  /\ ilock(p, parent[p], "clear")
  /\ UNCHANGED <<inum, count, op, num, rest, parent, made, file, entry, free, errVars>>

Clear(p) ==
  /\ At(p, "clear")
  /\ Bread(p, "clearing")
  /\ UNCHANGED <<iVars, event, regVars, file, diskVars, errVars>>

Cleared(p) ==
  /\ At(p, "clearing")
  /\ entry' = NoIno
  /\ mod' = mod \cup {ip[p]}
  /\ irelse(ip[p])
  /\ Return(p)
  /\ UNCHANGED <<inum, count, file, free, unlinked, errVars>>

\* The last close of a file without a name frees it under its lock.
idecFree(p) ==
  /\ At(p, "last") /\ inum[ip[p]] \in unlinked /\ count[ip[p]] = 0
  /\ free' = free \cup {inum[ip[p]]}
  /\ mod' = mod \cup {ip[p]}
  /\ irelse(ip[p])
  /\ Return(p)
  /\ UNCHANGED <<inum, count, file, entry, unlinked, errVars>>

FullNext ==
  \/ Next
  \/ \E p \in Proc : IgetWrite(p) \/ IgetWritten(p) \/ IgetUnwritten(p)
                     \/ UnlinkLast(p) \/ Unlinked(p) \/ UnlinkOpen(p) \/ Clear(p)
                     \/ Cleared(p) \/ idecFree(p)

FullSpec == Init /\ [][FullNext]_vars
-----------------------------------------------------------------------------
\* p is in iget, called by iname or by ialloc.
InIget(p) ==
  \/ pc[p] \in {"iget", "iclean", "hit", "iread"}
  \/ pc[p] \in {"ilock", "iwait"} /\ ret[p] = "hit"

\* p has the lock of slot s.
Holds(p, s) ==
  \/ ip[p] = s /\ pc[p] \in {"walk", "dlook", "iclean", "hit", "iread", "ialloc", "getsb", "nwrite",
                             "linking", "itrunc", "istat", "last", "iwrite", "clear",
                             "clearing"}
  \/ made[p] = s
  \/ parent[p] = s /\ op[p] = "mkfile" /\ InIget(p)

(* An inode that is locked has one owner, and one that has an owner is      *)
(* locked, whatever order the waiters that irelse woke come back in.        *)
OneOwner ==
  \A s \in Slot : Cardinality({p \in Proc : Holds(p, s)}) = (IF s \in busy THEN 1 ELSE 0)

(* No inode is in core twice: iget looks through all of ilist and then      *)
(* marks the slot "for other searchers" before it sleeps.  Not so in        *)
(* FullSpec, where it sleeps to write the slot first.                       *)
OneCopyPerInode ==
  \A s, t \in Slot : inum[s] = inum[t] /\ inum[s] # NoIno => s = t

(* What iget returns is what it was asked for: the slot that a process      *)
(* waits for in ilock, or has locked, is not given to another inode         *)
(* meanwhile.  Only a failed read breaks this, which zeroes the slot.       *)
RightInode ==
  \A p \in Proc :
    /\ InIget(p) /\ pc[p] \notin {"iget", "iclean"} => inum[ip[p]] = num[p] \/ hurt
    /\ file[p] # 0 => inum[file[p]] \notin {NoIno, Mnt} \cup free

\* The references to slot s that the kernel holds.
References(s) ==
  (IF s = 1 THEN 1 + Cardinality(Proc) ELSE 0) + (IF s = 2 THEN 1 ELSE 0)
  + Cardinality({p \in Proc : file[p] = s})
  + Cardinality({p \in Proc : parent[p] = s /\ op[p] # "mkfile" /\ InIget(p)})
  + Cardinality({p \in Proc : pc[p] = "iwait" /\ ip[p] = s})

(* The count of an inode is the number of its references: open files, the   *)
(* root, current and mounted directories, the parent that iname steps from  *)
(* and the processes that wait in ilock.  A count too low gives away an     *)
(* inode in use, one too high keeps its slot for ever.                      *)
CountsExact == \A s \in Slot : count[s] = References(s) \/ hurt

(* Nobody sleeps on an inode without IWANT set, which makes irelse wake     *)
(* him, and nobody waits for the lock of an inode that is not locked.       *)
NoLostWakeup ==
  \A p \in Proc : event[p] # 0 => event[p] \in wanted \cap busy \/ hurt

(* "No sleeps between now and create" (name.c): when an entry is written    *)
(* for a new file, no other process has made one of that name since the     *)
(* directory was searched.                                                  *)
NameMadeOnce == \A p \in Proc : op[p] = "mkfile" => entry = NoIno

(* Who waits for an inode lock is woken: whoever has the lock gives it back *)
(* whatever it meets on the way.                                            *)
LockWaiterWoken ==
  \A p \in Proc : (event[p] # 0) ~> (event[p] = 0 \/ hurt)

(* An open file is not a free inode: idec frees an inode only if nobody     *)
(* refers to it and it has no name.                                         *)
OpenFileAllocated == \A p \in Proc : file[p] # 0 => inum[file[p]] \notin free
=============================================================================
