-------------------------------- MODULE Mw ---------------------------------
(***************************************************************************)
(* The hard-disk driver (sys/mw.c): its request queue, the interrupt-driven*)
(* state machine with its retries, recalibration and watchdog, and the bus *)
(* it shares with the floppy driver (sys/dj.c, here a client of the bus).  *)
(*                                                                         *)
(* The routines of the lower half call each other in tail position; lo is  *)
(* the one to be entered next.  Processes do not run before it returns.    *)
(* A command the driver polls for (mwwait) is part of the step, and so is  *)
(* assumed to end; one it issues the controller completes, or never.       *)
(***************************************************************************)
EXTENDS Integers, Sequences

CONSTANTS
  Req,        \* requests: the buffers strat() may hand to the driver
  Drive,      \* drives
  NoDrive,    \* curdrv = -1
  DriveOf,    \* the drive of a request, b->dev & 3
  CylOf,      \* b->cyl
  Count,      \* b->count in sectors: 1 for the cache, 8 for swapio
  Beyond,     \* the requests past the end of their drive
  RETRIES,    \* tries on a read or write error
  RetryMod,   \* 2^8, retry being a UINT8
  MaxDj,      \* bound on the floppy requests queued
  Prompt      \* the controller may answer before djint has returned

ASSUME ConstAssumption ==
  /\ DriveOf \in [Req -> Drive]
  /\ CylOf \in [Req -> Nat]
  /\ Count \in [Req -> Nat \ {0}]
  /\ Beyond \subseteq Req
  /\ NoDrive \notin Drive
  /\ RETRIES \in Nat \ {0} /\ RetryMod \in Nat /\ RETRIES < RetryMod
  /\ MaxDj \in Nat
  /\ Prompt \in BOOLEAN

VARIABLES
  queue,      \* mwbuf and its forw chain
  answer,     \* the last iodone: the request, and "ok" or "error"
  berror,     \* requests at the driver with BERROR set
  mwstate,    \* TOOLATE lasts only within mwcheck
  lo,         \* the routine of the lower half to enter next
  op, stat,   \* cmd.op ("RW": READS or WRITES), cmd.stat
  sec,        \* cmd.blk and cmd.count: sectors of the request done
  retry,
  curdrv,
  calib, recal,   \* the drives with CALIB, RECAL
  bus, heir,      \* bus and next
  djq,        \* the floppy requests waiting, qtail
  djcmd,      \* curbuf's command: "none", "busy" or "done"
  djcall,     \* djint is to be entered: from djstrat or from busgive
  inservice,
  moved       \* auxiliary: sectors of the head transferred since newrw

cmdVars == <<op, stat, sec, retry>>
drvVars == <<curdrv, calib, recal>>
reqVars == <<queue, answer, berror, moved>>
busVars == <<bus, heir>>
djVars  == <<djq, djcmd, djcall, inservice>>
vars    == <<reqVars, mwstate, lo, cmdVars, drvVars, busVars, djVars>>

Init ==
  /\ queue = <<>> /\ answer = <<>> /\ berror = {} /\ moved = {}
  /\ mwstate = "VIRGIN" /\ lo = "idle"
  /\ op = "RW" /\ stat = "BUSY" /\ sec = 0 /\ retry = 0
  /\ curdrv = NoDrive /\ calib = {} /\ recal = {}
  /\ bus = "none" /\ heir = "none"
  /\ djq = 0 /\ djcmd = "none" /\ djcall = FALSE /\ inservice = FALSE

\* No interrupt routine is in progress, so a process may run.
UserMode == lo = "idle" /\ ~djcall /\ ~inservice
-----------------------------------------------------------------------------
(* Commands.                                                                *)

\* issue: the interrupt will say when the command is done.
issue(o) ==
  /\ op' = o
  /\ stat' = "BUSY"
  /\ mwstate' = "ACTIVE"
  /\ lo' = "idle"

\* mwwait: the command is over when the step is.
mwwait(o) == op' = o /\ stat' = "OK"

\* mwstart once it has the bus: the LOAD of constants that gets things going.
Started == issue("LOAD")

Enter(l) == lo' = l
-----------------------------------------------------------------------------
(* The bus.                                                                 *)

\* Mutant of busget: an heir is not remembered.
busgetForget(c) ==
  \/ bus \in {"none", c} /\ bus' = c /\ UNCHANGED heir
  \/ bus \notin {"none", c} /\ UNCHANGED busVars

busget(c) ==
  \/ bus \in {"none", c} /\ bus' = c /\ UNCHANGED heir
  \/ bus \notin {"none", c} /\ heir' = (IF heir = "none" THEN c ELSE heir) /\ UNCHANGED bus

\* busgive(f): the heir, if any, has the bus and is called.
busgive(f) ==
  IF heir = "none" THEN bus' = "none" /\ UNCHANGED heir
                   ELSE bus' = heir /\ heir' = f
-----------------------------------------------------------------------------
(* The upper half.                                                          *)

\* bsort: after the head, at the first place between two cylinders.
bsort(q, r) ==
  LET c(i)     == CylOf[q[i]]
      fits(i)  == \/ i = Len(q)
                  \/ c(i) <= CylOf[r] /\ CylOf[r] <= c(i + 1)
                  \/ c(i) >= CylOf[r] /\ CylOf[r] >= c(i + 1)
      place    == CHOOSE i \in 1..Len(q) : fits(i) /\ \A j \in 1..(i - 1) : ~fits(j)
  IN SubSeq(q, 1, place) \o <<r>> \o SubSeq(q, place + 1, Len(q))

Queued(r) == \E i \in 1..Len(queue) : queue[i] = r

Enqueue(r) ==
  /\ UserMode /\ ~Queued(r) /\ r \notin Beyond
  /\ queue' = IF queue = <<>> THEN <<r>> ELSE bsort(queue, r)
  /\ UNCHANGED <<answer, berror, moved, sec, retry, drvVars, djVars>>

\* mwstrat of a block past the end: answered at once.
mwstratBeyond(r) ==
  /\ UserMode /\ ~Queued(r) /\ r \in Beyond
  /\ answer' = <<r, "error">>
  /\ UNCHANGED <<queue, berror, moved, mwstate, lo, cmdVars, drvVars, busVars, djVars>>

\* mwstrat while the controller is at work.
mwstratBusy(r) ==
  /\ Enqueue(r)
  /\ mwstate \notin {"VIRGIN", "STOPPED"}
  /\ UNCHANGED <<mwstate, lo, op, stat, busVars>>

\* mwstrat while it is not: mwstart, which may have to wait for the bus.
mwstratStart(r) ==
  /\ Enqueue(r)
  /\ mwstate \in {"VIRGIN", "STOPPED"}
  /\ busget("mw")
  /\ IF bus' = "mw" THEN Started ELSE UNCHANGED <<mwstate, lo, op, stat>>
-----------------------------------------------------------------------------
(* The controller and the watchdog.                                         *)

\* The controller answers: OK, not ready, or some other error.
Complete(s) ==
  /\ mwstate \in {"ACTIVE", "LATE"} /\ stat = "BUSY"
  /\ Prompt \/ ~inservice
  /\ stat' = s
  /\ moved' = IF op = "RW" /\ s = "OK" THEN moved \cup {sec} ELSE moved
  /\ UNCHANGED <<queue, answer, berror, mwstate, lo, op, sec, retry, drvVars, busVars, djVars>>

Service == IF op = "RW" THEN "rwint" ELSE "newdrv"

\* mwint, for an interrupt of the controller.
mwint ==
  /\ mwstate \in {"ACTIVE", "LATE"} /\ stat # "BUSY"
  /\ mwstate' = "INTRPT"
  /\ Enter(Service)
  /\ UNCHANGED <<reqVars, cmdVars, drvVars, busVars, djVars>>

\* mwcheck, each second: a command must be done by the second call.
mwcheckLate ==
  /\ mwstate = "ACTIVE"
  /\ mwstate' = "LATE"
  /\ UNCHANGED <<reqVars, lo, cmdVars, drvVars, busVars, djVars>>

\* Mutant of mwcheckTooLate: the watchdog waits for one more second.
mwcheckAgain ==
  /\ mwstate = "LATE" /\ ~inservice
  /\ mwstate' = "ACTIVE"
  /\ UNCHANGED <<reqVars, lo, cmdVars, drvVars, busVars, djVars>>

\* TOOLATE: reset the controller, and mwint as if the drive were not ready.
\* (A djint that started the controller has returned a second later.)
mwcheckTooLate ==
  /\ mwstate = "LATE" /\ ~inservice
  /\ curdrv' = NoDrive
  /\ stat' = "NOTRDY"
  /\ mwstate' = "INTRPT"
  /\ Enter(Service)
  /\ UNCHANGED <<reqVars, op, sec, retry, calib, recal, busVars, djVars>>
-----------------------------------------------------------------------------
(* The lower half.                                                          *)

\* rwint: one sector done, on to the next.
rwintNext ==
  /\ lo = "rwint" /\ stat = "OK" /\ sec + 1 < Count[Head(queue)]
  /\ sec' = sec + 1
  /\ issue("RW")
  /\ UNCHANGED <<reqVars, retry, drvVars, busVars, djVars>>

\* Mutant of rwintDone: cmd.count is compared with a sector too many.
rwintDoneEarly ==
  /\ lo = "rwint" /\ stat = "OK" /\ sec + 2 >= Count[Head(queue)]
  /\ Enter("advque")
  /\ UNCHANGED <<reqVars, mwstate, cmdVars, drvVars, busVars, djVars>>

rwintDone ==
  /\ lo = "rwint" /\ stat = "OK" /\ sec + 1 >= Count[Head(queue)]
  /\ Enter("advque")
  /\ UNCHANGED <<reqVars, mwstate, cmdVars, drvVars, busVars, djVars>>

LessRetry == (retry - 1) % RetryMod

\* Half of the retries gone: recalibrate the drive.
rwintRecal ==
  /\ lo = "rwint" /\ stat = "ERR" /\ retry = RETRIES \div 2
  /\ retry' = LessRetry
  /\ calib' = calib \ {curdrv}
  /\ recal' = recal \cup {curdrv}
  /\ Enter("newdrv")
  /\ UNCHANGED <<reqVars, mwstate, op, stat, sec, curdrv, busVars, djVars>>

rwintRetry ==
  /\ lo = "rwint" /\ stat = "ERR" /\ retry # RETRIES \div 2 /\ LessRetry # 0
  /\ retry' = LessRetry
  /\ issue("RW")
  /\ UNCHANGED <<reqVars, sec, drvVars, busVars, djVars>>

error == berror' = berror \cup {Head(queue)}

rwintFail ==
  /\ lo = "rwint"
  /\ \/ stat = "NOTRDY" /\ UNCHANGED retry
     \/ stat = "ERR" /\ retry # RETRIES \div 2 /\ LessRetry = 0 /\ retry' = LessRetry
  /\ error
  /\ Enter("advque")
  /\ UNCHANGED <<queue, answer, moved, mwstate, op, stat, sec, drvVars, busVars, djVars>>

\* advque: iodone, and the head is taken off the queue.
Answered ==
  /\ answer' = <<Head(queue), IF Head(queue) \in berror THEN "error" ELSE "ok">>
  /\ berror' = berror \ {Head(queue)}
  /\ queue' = Tail(queue)
  /\ moved' = {}

\* Mutant of advqueNext: the drive of the next request is not looked at.
advqueNextSame ==
  /\ lo = "advque" /\ Tail(queue) # <<>>
  /\ Answered
  /\ Enter("newrw")
  /\ UNCHANGED <<mwstate, cmdVars, drvVars, busVars, djVars>>

advqueNext ==
  /\ lo = "advque" /\ Tail(queue) # <<>>
  /\ Answered
  /\ Enter(IF curdrv # DriveOf[Head(queue')] THEN "newdrv" ELSE "newrw")
  /\ UNCHANGED <<mwstate, cmdVars, drvVars, busVars, djVars>>

\* The queue is empty: mwstop, which gives the bus and calls djint.
advqueStop ==
  /\ lo = "advque" /\ Tail(queue) = <<>>
  /\ Answered
  /\ mwstate' = "STOPPED"
  /\ mwwait("LOAD")
  /\ Enter("idle")
  /\ busgive("none")
  /\ djcall' = (djcall \/ heir = "dj")
  /\ UNCHANGED <<sec, retry, drvVars, djq, djcmd, inservice>>

Select == curdrv' = DriveOf[Head(queue)]

\* newdrv of a calibrated drive: its constants, then the request.
newdrvCalib ==
  /\ lo = "newdrv" /\ DriveOf[Head(queue)] \in calib
  /\ Select
  /\ mwwait("LOAD")
  /\ Enter("newrw")
  /\ UNCHANGED <<reqVars, mwstate, sec, retry, calib, recal, busVars, djVars>>

\* A drive that is not ready fails the request.
newdrvNotReady ==
  /\ lo = "newdrv" /\ DriveOf[Head(queue)] \notin calib
  /\ Select
  /\ op' = "STAT" /\ stat' = "NOTRDY"
  /\ error
  /\ Enter("advque")
  /\ UNCHANGED <<queue, answer, moved, mwstate, sec, retry, calib, recal, busVars, djVars>>

\* The others are sent home, and are taken for calibrated from now on.
newdrvHome ==
  /\ lo = "newdrv" /\ DriveOf[Head(queue)] \notin calib
  /\ Select
  /\ calib' = calib \cup {DriveOf[Head(queue)]}
  /\ issue("HOME")
  /\ UNCHANGED <<reqVars, sec, retry, recal, busVars, djVars>>

\* newrw: the request from its first sector on.
newrw ==
  /\ lo = "newrw"
  /\ sec' = 0
  /\ moved' = {}
  /\ recal' = recal \ {curdrv}
  /\ retry' = IF curdrv \in recal THEN retry ELSE RETRIES
  /\ issue("RW")
  /\ UNCHANGED <<queue, answer, berror, curdrv, calib, busVars, djVars>>
-----------------------------------------------------------------------------
(* The floppy driver, as far as it uses the bus.                            *)

djstrat ==
  /\ UserMode /\ djq < MaxDj
  /\ djq' = djq + 1
  /\ djcall' = TRUE
  /\ UNCHANGED <<reqVars, mwstate, lo, cmdVars, drvVars, busVars, djcmd, inservice>>

DjDone ==
  /\ djcmd = "busy"
  /\ djcmd' = "done"
  /\ UNCHANGED <<reqVars, mwstate, lo, cmdVars, drvVars, busVars, djq, djcall, inservice>>

\* An entry into djint that finds nothing it may do.
djintIgnored ==
  /\ djcall
  /\ inservice \/ djcmd = "busy" \/ (djcmd = "none" /\ djq = 0)
  /\ djcall' = FALSE
  /\ UNCHANGED <<reqVars, mwstate, lo, cmdVars, drvVars, busVars, djq, djcmd, inservice>>

\* A request to start: pluck a buffer, if the bus is to be had.
djintStart ==
  /\ djcall /\ ~inservice /\ djcmd = "none" /\ djq > 0
  /\ djcall' = FALSE
  /\ busget("dj")
  /\ IF bus' = "dj" THEN djcmd' = "busy" /\ djq' = djq - 1 ELSE UNCHANGED <<djcmd, djq>>
  /\ UNCHANGED <<reqVars, mwstate, lo, cmdVars, drvVars, inservice>>

\* The bus is given, and mwstart called if it is the heir.
Give(f) ==
  /\ busgive(f)
  /\ IF heir = "mw" THEN Started ELSE UNCHANGED <<mwstate, lo, op, stat>>

\* The last request is done: give the bus.
djintStop ==
  /\ djcmd = "done" /\ djq = 0
  /\ djcmd' = "none"
  /\ djcall' = FALSE
  /\ Give("none")
  /\ UNCHANGED <<reqVars, sec, retry, drvVars, djq, inservice>>

\* Mutant of djintYield: the result of busgive is not looked at.
djintYieldOn ==
  /\ djcmd = "done" /\ djq > 0 /\ heir # "none"
  /\ djcmd' = "busy" /\ djq' = djq - 1
  /\ djcall' = FALSE
  /\ Give("dj")
  /\ UNCHANGED <<reqVars, sec, retry, drvVars, inservice>>

\* A request is done and there are more: the heir goes first, and djint
\* becomes the heir.  It stays inservice until it has returned.
djintYield ==
  /\ djcmd = "done" /\ djq > 0 /\ heir # "none"
  /\ djcmd' = "none"
  /\ djcall' = FALSE
  /\ inservice' = TRUE
  /\ Give("dj")
  /\ UNCHANGED <<reqVars, sec, retry, drvVars, djq>>

djintReturn ==
  /\ inservice
  /\ inservice' = FALSE
  /\ UNCHANGED <<reqVars, mwstate, lo, cmdVars, drvVars, busVars, djq, djcmd, djcall>>

\* Nobody else wants the bus: the next request.
djintNext ==
  /\ djcmd = "done" /\ djq > 0 /\ heir = "none"
  /\ djcmd' = "busy" /\ djq' = djq - 1
  /\ djcall' = FALSE
  /\ UNCHANGED <<reqVars, mwstate, lo, cmdVars, drvVars, busVars, inservice>>
-----------------------------------------------------------------------------
mwstrat(r) == mwstratBeyond(r) \/ mwstratBusy(r) \/ mwstratStart(r)
rwint   == rwintNext \/ rwintDone \/ rwintRecal \/ rwintRetry \/ rwintFail
advque  == advqueNext \/ advqueStop
newdrv  == newdrvCalib \/ newdrvNotReady \/ newdrvHome
Lower   == rwint \/ advque \/ newdrv \/ newrw
mwcheck == mwcheckLate \/ mwcheckTooLate
djint   == \/ djintIgnored \/ djintStart \/ djintStop
           \/ djintYield \/ djintReturn \/ djintNext

Next ==
  \/ \E r \in Req : mwstrat(r)
  \/ \E s \in {"OK", "NOTRDY", "ERR"} : Complete(s)
  \/ mwint \/ mwcheck \/ Lower
  \/ djstrat \/ DjDone \/ djint

Spec == Init /\ [][Next]_vars

\* Interrupts are served, interrupt routines return, the clock ticks and the
\* floppy controller answers (or djgoose answers for it).  The hard-disk
\* controller may hang.
Fairness ==
  /\ WF_vars(mwint) /\ WF_vars(Lower) /\ WF_vars(mwcheck)
  /\ WF_vars(DjDone) /\ WF_vars(djint)

FairSpec == Spec /\ Fairness
-----------------------------------------------------------------------------
(* Properties.                                                              *)

TypeOK ==
  /\ queue \in Seq(Req) /\ berror \subseteq Req
  /\ answer \in {<<>>} \cup (Req \X {"ok", "error"})
  /\ mwstate \in {"VIRGIN", "STOPPED", "ACTIVE", "INTRPT", "LATE"}
  /\ lo \in {"idle", "rwint", "advque", "newdrv", "newrw"}
  /\ op \in {"RW", "LOAD", "STAT", "HOME"} /\ stat \in {"BUSY", "OK", "NOTRDY", "ERR"}
  /\ sec \in Nat /\ retry \in 0..(RetryMod - 1)
  /\ curdrv \in Drive \cup {NoDrive} /\ calib \subseteq Drive /\ recal \subseteq Drive
  /\ bus \in {"none", "mw", "dj"} /\ heir \in {"none", "mw", "dj"}
  /\ djq \in 0..MaxDj /\ djcmd \in {"none", "busy", "done"}
  /\ djcall \in BOOLEAN /\ inservice \in BOOLEAN
  /\ moved \subseteq Nat

\* The hard disk hogs the bus and would close the floppy's transfer windows
\* (mw.c:543-547): the two controllers are never at work at the same time, and
\* whoever is at work has the bus.
BusExclusive ==
  /\ mwstate \in {"ACTIVE", "LATE", "INTRPT"} => bus = "mw"
  /\ djcmd # "none" => bus = "dj"

\* A request is never left in the queue of a driver that nobody will start: a
\* stopped driver with requests is the heir of a master that is at work.
NotForgotten ==
  /\ queue # <<>> /\ mwstate \in {"VIRGIN", "STOPPED"} =>
       heir = "mw" /\ (djcmd # "none" \/ djcall)
  /\ djq > 0 /\ djcmd = "none" /\ ~djcall =>
       heir = "dj" /\ mwstate \in {"ACTIVE", "LATE", "INTRPT"}

\* A read or write goes to the drive of the request at the head of the queue,
\* through retries, recalibrations, time-outs and other drives' requests.
RightDrive ==
  op = "RW" /\ mwstate \in {"ACTIVE", "LATE"} =>
    queue # <<>> /\ curdrv = DriveOf[Head(queue)]

\* RETRIES is the "no. of retries on r/w error" (mw.c:21).
RetriesBounded == retry <= RETRIES

\* The driver is a disk: every request is answered once, and never without an
\* error before its last sector has been transferred.
D == INSTANCE Disk WITH
       ioq   <- {queue[i] : i \in 1..Len(queue)},
       moved <- IF queue # <<>> /\ 0..(Count[Head(queue)] - 1) \subseteq moved
                THEN {Head(queue)} ELSE {}

Implements == D!Spec

\* The request at the head of the queue is answered, even when the controller
\* hangs (mwcheck) or the floppy has the bus.  bsort promises no more: requests
\* may be put before one that is further back for ever.
HeadAnswered ==
  \A r \in Req : (queue # <<>> /\ Head(queue) = r) ~> ~Queued(r)
=============================================================================
