-------------------------------- MODULE Tty --------------------------------
(***************************************************************************)
(* Terminal input and output: the three character queues of a tty and the  *)
(* cblocks they are made of (sys/queue.c), line input, output with its     *)
(* sleep at the high level and its interrupts at the low one (sys/tty.c),  *)
(* and the signal a terminal sends (sys/sig.c).                            *)
(*                                                                         *)
(* A process in the kernel keeps the cpu until it sleeps or returns.  The  *)
(* interrupts (ttyin, ttyout) come between any two of its steps; what is   *)
(* done under di() is one step.  The other terminals are there as far as   *)
(* they take cblocks from the clist all of them share.                     *)
(*                                                                         *)
(* A character is "x", or "n" for the two breaks, newline and EOT; which   *)
(* it is matters in the raw queue only.  Erase, kill and the backslash only*)
(* edit buf.                                                               *)
(***************************************************************************)
EXTENDS Integers, Sequences

CONSTANTS
  Proc,       \* the processes with this controlling tty
  NoProc,     \* the cpu is idle or in user mode
  Modes,      \* "cooked", "cbreak"
  TTYHOG,     \* queue size, 200
  LOWATER,    \* low water mark, 16
  BSIZE,      \* characters in a cblock, 14
  NBLOCKS,    \* cblocks in clist
  Others,     \* how many of them the other terminals may hold
  BreakMod,   \* 2^8, nbreak being a UINT8
  Reads,      \* what each process may read and write: the counts
  Writes,
  Heed        \* those who do not always ignore SIGINT

ASSUME ConstAssumption ==
  /\ NoProc \notin Proc
  /\ Modes \subseteq {"cooked", "cbreak"}
  /\ TTYHOG \in Nat /\ LOWATER \in Nat /\ LOWATER < TTYHOG
  /\ BSIZE \in Nat \ {0} /\ NBLOCKS \in Nat
  /\ Others \subseteq 0..NBLOCKS /\ 0 \in Others
  /\ BreakMod \in Nat \ {0}
  /\ Reads \in [Proc -> SUBSET Nat] /\ Writes \in [Proc -> SUBSET Nat]
  /\ Heed \subseteq Proc

VARIABLES
  raw, cok, out,   \* the queues: their characters, and how much of the first
                   \* cblock has been taken
  nbreak,     \* breaks in the raw queue, as counted
  missed,     \* auxiliary: a break has come in that nbreak may have lost
  state,      \* LOSTOP, HOSLEEP, HISLEEP, ERROR
  mode,
  others,     \* cblocks of the other terminals
  tx,         \* the output interrupt is enabled
  cpu,        \* the process inside the kernel that is not asleep
  asleep,
  pend,       \* processes with a signal in slist[0]
  pc,         \* where p is
  left,       \* u.count
  buf         \* cookin's static buffer

queVars == <<raw, cok, out>>
brkVars == <<nbreak, missed>>
ttyVars == <<brkVars, state, tx>>
ctlVars == <<mode, others>>
sysVars == <<cpu, asleep, pc>>
vars    == <<queVars, ttyVars, ctlVars, sysVars, pend, left, buf>>

Empty == [chars |-> <<>>, skip |-> 0]

Init ==
  /\ raw = Empty /\ cok = Empty /\ out = Empty
  /\ nbreak = 0 /\ missed = FALSE /\ state = {} /\ tx = FALSE
  /\ mode \in Modes /\ others = 0
  /\ cpu = NoProc /\ asleep = {} /\ pend = {}
  /\ pc = [p \in Proc |-> "user"]
  /\ left = [p \in Proc |-> 0]
  /\ buf = <<>>
-----------------------------------------------------------------------------
(* Queues.  An empty queue has no cblock (qrelse); a cblock all of whose    *)
(* characters have been taken goes with the next getc (qfree).              *)

count(q)  == Len(q.chars)
Filled(q) == q.skip + count(q)
Blocks(q) == IF q.chars = <<>> THEN 0 ELSE (Filled(q) + BSIZE - 1) \div BSIZE

\* The length of cfree when the other two queues are a and b.
cfree(q, a, b) == NBLOCKS - others - Blocks(q) - Blocks(a) - Blocks(b)

\* The characters that can still be put into q.
Min(m, n) == IF m < n THEN m ELSE n
Slack(q) == IF q.chars = <<>> THEN 0 ELSE (BSIZE - (Filled(q) % BSIZE)) % BSIZE
Room(q, a, b) == Min(TTYHOG - count(q), Slack(q) + BSIZE * cfree(q, a, b))

Append1(q, c) == [q EXCEPT !.chars = Append(@, c)]

\* Mutant of putc: the limit of the queue is not looked at.
putcAny(q, c, a, b) == Append1(q, c)

\* putc into q while the others are a and b: the character is dropped when
\* there is no room.
putc(q, c, a, b) == IF Room(q, a, b) > 0 THEN Append1(q, c) ELSE q

\* getc of a queue that is not empty: what is left of it.
Take(q, n) ==
  IF n >= count(q) THEN Empty
  ELSE [chars |-> SubSeq(q.chars, n + 1, count(q)),
        skip  |-> IF n = 0 THEN q.skip ELSE ((q.skip + n - 1) % BSIZE) + 1]

getc(q) == Take(q, 1)

ustart == state' = state \ {"LOSTOP"} /\ tx' = TRUE

\* drain of the three queues.  With the raw queue empty no break is missed.
drainques ==
  /\ raw' = Empty /\ cok' = Empty /\ out' = Empty
  /\ missed' = FALSE
-----------------------------------------------------------------------------
(* Processes.                                                               *)

Anyone(l) == \E p \in Proc : pc[p] = l

At(p, l) == pc[p] = l /\ p \notin asleep /\ cpu \in {p, NoProc}

Goto(p, l) ==
  /\ cpu' = p
  /\ pc' = [pc EXCEPT ![p] = l]
  /\ UNCHANGED asleep

Return(p) ==
  /\ cpu' = NoProc
  /\ pc' = [pc EXCEPT ![p] = "user"]
  /\ UNCHANGED asleep

sleep(p, l) ==
  /\ cpu' = NoProc
  /\ pc' = [pc EXCEPT ![p] = l]
  /\ asleep' = asleep \cup {p}

\* wakeup: those asleep at l.
wakeup(l) == asleep' = {p \in asleep : pc[p] # l}

\* A system call starts when nobody is inside the kernel and awake with the cpu,
\* and no signal waits for the process.
Enters(p) == pc[p] = "user" /\ p \notin pend /\ cpu = NoProc

Call(p, l, n) ==
  /\ Enters(p)
  /\ Goto(p, l)
  /\ left' = [left EXCEPT ![p] = n]
  /\ UNCHANGED <<queVars, ttyVars, ctlVars, pend, buf>>

\* sig() with SIGINT or SIGQUIT: at the end of a trap, or in sleep(), where it
\* aborts the call (abort).  drainall empties the queues first, and only then
\* resets nbreak and starts the output: interrupts come in between.
sig(p) ==
  /\ At(p, "user") \/ At(p, "insleep") \/ At(p, "outsleep")
  /\ p \in pend
  /\ pend' = pend \ {p}
  /\ drainques
  /\ left' = [left EXCEPT ![p] = 0]
  /\ Goto(p, "drain")
  /\ UNCHANGED <<nbreak, state, tx, ctlVars, buf>>

sigDone(p) ==
  /\ At(p, "drain")
  /\ nbreak' = 0
  /\ ustart
  /\ Return(p)
  /\ UNCHANGED <<queVars, missed, ctlVars, pend, left, buf>>
-----------------------------------------------------------------------------
(* Reading.                                                                 *)

ttyread(p, n) ==
  /\ "ERROR" \notin state
  /\ Call(p, IF cok.chars = <<>> THEN "cookin" ELSE "send", n)

\* After a framing error: the input is discarded, though not its breaks from
\* nbreak, and the read fails (EIO).
ttyreadError(p) ==
  /\ Enters(p) /\ "ERROR" \in state
  /\ state' = state \ {"ERROR"}
  /\ raw' = Empty /\ missed' = FALSE
  /\ UNCHANGED <<cok, out, nbreak, tx, ctlVars, sysVars, pend, left, buf>>

\* What cookin waits for.
Ready == IF mode = "cooked" THEN nbreak > 0 ELSE raw.chars # <<>>

\* Mutant of cookinSleep: HISLEEP is not set.
cookinSleepQuiet(p) ==
  /\ At(p, "cookin") /\ ~Ready
  /\ sleep(p, "insleep")
  /\ UNCHANGED <<queVars, ttyVars, ctlVars, pend, left, buf>>

cookinSleep(p) ==
  /\ At(p, "cookin") /\ ~Ready
  /\ state' = state \cup {"HISLEEP"}
  /\ sleep(p, "insleep")
  /\ UNCHANGED <<queVars, brkVars, tx, ctlVars, pend, left, buf>>

cookinAgain(p) ==
  /\ At(p, "insleep") /\ p \notin pend
  /\ Goto(p, "cookin")
  /\ UNCHANGED <<queVars, ttyVars, ctlVars, pend, left, buf>>

\* A line is there: get its characters.
cookinLine(p) ==
  /\ At(p, "cookin") /\ Ready /\ mode = "cooked"
  /\ buf' = <<>>
  /\ Goto(p, "getc")
  /\ UNCHANGED <<queVars, ttyVars, ctlVars, pend, left>>

\* A line too long for buf loses its beginning.
Store == buf' = Append(IF Len(buf) >= TTYHOG - 2 THEN <<>> ELSE buf, "x")

cookinChar(p) ==
  /\ At(p, "getc") /\ raw.chars # <<>> /\ Head(raw.chars) = "x"
  /\ raw' = getc(raw)
  /\ Store
  /\ Goto(p, "getc")
  /\ UNCHANGED <<cok, out, ttyVars, ctlVars, pend, left>>

\* A break ends the line; an EOT is not stored.
cookinBreak(p) ==
  /\ At(p, "getc") /\ raw.chars # <<>> /\ Head(raw.chars) = "n"
  /\ raw' = getc(raw)
  /\ Store \/ buf' = buf
  /\ Goto(p, "sync")
  /\ UNCHANGED <<cok, out, ttyVars, ctlVars, pend, left>>

\* "we're out of sync": no break where nbreak has promised one.
cookinOut(p) ==
  /\ At(p, "getc") /\ raw.chars = <<>>
  /\ nbreak' = 0 /\ missed' = FALSE
  /\ buf' = <<>>
  /\ Goto(p, "cookin")
  /\ UNCHANGED <<queVars, state, tx, ctlVars, pend, left>>

Uncount == nbreak' = IF nbreak > 0 THEN nbreak - 1 ELSE 0

cookinSync(p) ==
  /\ At(p, "sync")
  /\ Uncount
  /\ Goto(p, "fill")
  /\ UNCHANGED <<queVars, missed, state, tx, ctlVars, pend, left, buf>>

cookinPutc(p) ==
  /\ At(p, "fill") /\ buf # <<>>
  /\ cok' = putc(cok, "x", raw, out)
  /\ buf' = Tail(buf)
  /\ Goto(p, "fill")
  /\ UNCHANGED <<raw, out, ttyVars, ctlVars, pend, left>>

\* cbreak mode: cwait has seen a character.
cwait(p) ==
  /\ At(p, "cookin") /\ Ready /\ mode = "cbreak"
  /\ Goto(p, "cwait")
  /\ UNCHANGED <<queVars, ttyVars, ctlVars, pend, left, buf>>

\* Everything there is.  (Nobody looks at nbreak in cbreak mode.)
cookinRaw(p) ==
  /\ At(p, "cwait") \/ At(p, "more")
  /\ mode = "cbreak" /\ raw.chars # <<>>
  /\ raw' = getc(raw)
  /\ IF Head(raw.chars) = "n" THEN Uncount ELSE UNCHANGED nbreak
  /\ cok' = putc(cok, "x", raw', out)
  /\ Goto(p, "more")
  /\ UNCHANGED <<out, missed, state, tx, ctlVars, pend, left, buf>>

\* An overflow has emptied the queue since cwait looked: getc returns -1, and
\* that is put into the cooked queue.
cwaitVoid(p) ==
  /\ At(p, "cwait") /\ raw.chars = <<>>
  /\ cok' = putc(cok, "x", raw, out)
  /\ Goto(p, "more")
  /\ UNCHANGED <<raw, out, ttyVars, ctlVars, pend, left, buf>>

\* sendque, and the read is over.
sendque(p) ==
  /\ \/ At(p, "send")
     \/ At(p, "fill") /\ buf = <<>>
     \/ At(p, "more") /\ raw.chars = <<>>
  /\ cok' = Take(cok, left[p])
  /\ left' = [left EXCEPT ![p] = 0]
  /\ Return(p)
  /\ UNCHANGED <<raw, out, ttyVars, ctlVars, pend, buf>>
-----------------------------------------------------------------------------
(* Writing.                                                                 *)

cstart == tx' = (tx \/ "LOSTOP" \notin state)

ttywrite(p, n) == Call(p, "write", n)

\* n characters of output.
Fill(q, n) == [q EXCEPT !.chars = @ \o [k \in 1..n |-> "x"]]

\* fillque and cstart.
fillque(p) ==
  /\ At(p, "write")
  /\ LET n == Min(left[p], Room(out, raw, cok))
     IN /\ out' = Fill(out, n)
        /\ left' = [left EXCEPT ![p] = @ - n]
  /\ cstart
  /\ IF left'[p] = 0 THEN Return(p) ELSE Goto(p, "outwait")
  /\ UNCHANGED <<raw, cok, brkVars, state, ctlVars, pend, buf>>

\* Mutant of outwaitSleep: the mark is not looked at, and HOSLEEP not set.
outwaitSleepAny(p) ==
  /\ At(p, "outwait")
  /\ sleep(p, "outsleep")
  /\ UNCHANGED <<queVars, ttyVars, ctlVars, pend, left, buf>>

outwaitSleep(p) ==
  /\ At(p, "outwait") /\ count(out) > LOWATER
  /\ state' = state \cup {"HOSLEEP"}
  /\ sleep(p, "outsleep")
  /\ UNCHANGED <<queVars, brkVars, tx, ctlVars, pend, left, buf>>

outwaitDone(p) ==
  /\ At(p, "outwait") /\ count(out) <= LOWATER
  /\ Goto(p, "write")
  /\ UNCHANGED <<queVars, ttyVars, ctlVars, pend, left, buf>>

outwaitAgain(p) ==
  /\ At(p, "outsleep") /\ p \notin pend
  /\ Goto(p, "outwait")
  /\ UNCHANGED <<queVars, ttyVars, ctlVars, pend, left, buf>>
-----------------------------------------------------------------------------
(* Interrupts.                                                              *)

\* The raw queue is full: start all over.  A process that has just taken a break
\* will take one off nbreak once more.
ttyinOverflow ==
  /\ count(raw) >= TTYHOG
  /\ raw' = Empty /\ nbreak' = 0
  /\ missed' = Anyone("sync")
  /\ UNCHANGED <<cok, out, state, tx, ctlVars, sysVars, pend, left, buf>>

\* Mutant of Echoed: the output is not started.
EchoedQuiet == UNCHANGED tx

Echoed == cstart

\* A character is queued and echoed; a break, and anything in cbreak mode,
\* wakes the readers.  nbreak loses the break if it wraps, or if it is about to
\* be reset for queues that have been drained already.
ttyinChar(c) ==
  /\ count(raw) < TTYHOG
  /\ IF c = "n"
     THEN /\ nbreak' = (nbreak + 1) % BreakMod
          /\ missed' = (missed \/ Anyone("drain") \/ nbreak + 1 = BreakMod)
     ELSE UNCHANGED brkVars
  /\ raw' = putc(raw, c, cok, out)
  /\ out' = putc(out, "x", raw', cok)
  /\ Echoed
  /\ IF (mode = "cbreak" \/ c = "n") /\ "HISLEEP" \in state
     THEN state' = state \ {"HISLEEP"} /\ wakeup("insleep")
     ELSE UNCHANGED <<state, asleep>>
  /\ UNCHANGED <<cok, ctlVars, cpu, pc, pend, left, buf>>

\* RUB or QUIT: killall sends the signal to those who do not ignore it, which
\* makes low-priority sleepers run; and ustart.
ttyinRub ==
  /\ count(raw) < TTYHOG
  /\ \E S \in SUBSET Heed : pend' = pend \cup S /\ asleep' = asleep \ S
  /\ ustart
  /\ UNCHANGED <<queVars, brkVars, ctlVars, cpu, pc, left, buf>>

ttyinXoff ==
  /\ count(raw) < TTYHOG
  /\ state' = state \cup {"LOSTOP"}
  /\ tx' = FALSE
  /\ UNCHANGED <<queVars, brkVars, ctlVars, sysVars, pend, left, buf>>

ttyinXon ==
  /\ count(raw) < TTYHOG /\ "LOSTOP" \in state
  /\ ustart
  /\ UNCHANGED <<queVars, brkVars, ctlVars, sysVars, pend, left, buf>>

\* A framing error: the character is dropped.
ttyerror ==
  /\ state' = state \cup {"ERROR"}
  /\ UNCHANGED <<queVars, brkVars, tx, ctlVars, sysVars, pend, left, buf>>

\* ttyout: a character goes out, or output stops; a writer that sleeps is
\* woken at the low water mark.
ttyout ==
  /\ tx
  /\ IF "LOSTOP" \notin state /\ out.chars # <<>>
     THEN out' = getc(out) /\ UNCHANGED tx
     ELSE tx' = FALSE /\ UNCHANGED out
  /\ IF "HOSLEEP" \in state /\ count(out') <= LOWATER
     THEN state' = state \ {"HOSLEEP"} /\ wakeup("outsleep")
     ELSE UNCHANGED <<state, asleep>>
  /\ UNCHANGED <<raw, cok, brkVars, ctlVars, cpu, pc, pend, left, buf>>

\* The other terminals take cblocks from the free list, or give some back.
OtherTtys ==
  /\ others' \in {n \in Others : n <= others + cfree(raw, cok, out)}
  /\ UNCHANGED <<queVars, ttyVars, mode, sysVars, pend, left, buf>>
-----------------------------------------------------------------------------
Read(p) ==
  \/ cookinSleep(p) \/ cookinAgain(p) \/ cookinLine(p) \/ cookinChar(p)
  \/ cookinBreak(p) \/ cookinOut(p) \/ cookinSync(p) \/ cookinPutc(p)
  \/ cwait(p) \/ cwaitVoid(p) \/ cookinRaw(p) \/ sendque(p)

Write(p) == fillque(p) \/ outwaitSleep(p) \/ outwaitDone(p) \/ outwaitAgain(p)

Step(p) == Read(p) \/ Write(p) \/ sig(p) \/ sigDone(p)

ttyin ==
  \/ ttyinOverflow \/ (\E c \in {"x", "n"} : ttyinChar(c))
  \/ ttyinRub \/ ttyinXoff \/ ttyinXon \/ ttyerror

Calls ==
  \E p \in Proc :
    \/ \E n \in Reads[p] : ttyread(p, n)
    \/ \E n \in Writes[p] : ttywrite(p, n)
    \/ ttyreadError(p)

Next ==
  \/ \E p \in Proc : Step(p)
  \/ Calls
  \/ ttyin
  \/ ttyout
  \/ OtherTtys

Spec == Init /\ [][Next]_vars

\* Somebody in the kernel runs, and the terminal takes what is sent to it.
FairSpec == Spec /\ WF_vars(\E p \in Proc : Step(p)) /\ WF_vars(ttyout)
-----------------------------------------------------------------------------
(* Properties.                                                              *)

TypeOK ==
  /\ \A q \in {raw, cok, out} :
       /\ q.chars \in Seq({"x", "n"}) /\ count(q) <= TTYHOG
       /\ q.skip \in 0..BSIZE
  /\ cfree(raw, cok, out) >= 0
  /\ nbreak \in 0..(BreakMod - 1)
  /\ missed \in BOOLEAN /\ state \subseteq {"LOSTOP", "HOSLEEP", "HISLEEP", "ERROR"}
  /\ mode \in Modes /\ others \in Others /\ tx \in BOOLEAN
  /\ cpu \in Proc \cup {NoProc} /\ asleep \subseteq Proc /\ pend \subseteq Proc
  /\ pc \in [Proc -> {"user", "cookin", "insleep", "getc", "sync", "fill", "cwait",
                      "more", "send", "write", "outwait", "outsleep", "drain"}]
  /\ left \in [Proc -> Nat]
  /\ buf \in Seq({"x", "n"})

Breaks == {i \in 1..count(raw) : raw.chars[i] = "n"}

\* "Wait until at least one break char. is in raw queue" (tty.c:126): nobody
\* sleeps in a read while there is something to read, no line in the raw queue
\* or, in cbreak mode, no character, and the next one will wake him.  missed is
\* what the code gets wrong: see ttyinOverflow and ttyinChar.  Read errors, and
\* breaks dropped for want of a cblock, leave nbreak too high, not too low.
ReaderNotStranded ==
  \A p \in asleep : pc[p] = "insleep" =>
    /\ "HISLEEP" \in state
    /\ IF mode = "cooked" THEN Breaks = {} \/ missed ELSE raw.chars = <<>>

\* The same of every break, which does not hold.
NoLineWaits ==
  mode = "cooked" => \A p \in asleep : pc[p] = "insleep" => Breaks = {}

\* Output goes on by itself: unless XOFF has stopped it, what is in the queue
\* keeps the interrupt enabled, and a writer asleep is still to be woken by it,
\* through echo, drains, signals and XOFF.
OutputGoesOn ==
  "LOSTOP" \notin state =>
    /\ out.chars # <<>> => tx
    /\ \A p \in asleep : pc[p] = "outsleep" => tx /\ "HOSLEEP" \in state

\* "If priority is low and a signal is waiting, abort the current system call"
\* (sig.c:189): nobody sleeps at a terminal with a signal waiting.
NoSignalSleeper == asleep \cap pend = {}

\* Three queues have the cblocks they may need.
Roomy == 3 * ((TTYHOG + 2 * BSIZE - 1) \div BSIZE) + others <= NBLOCKS

\* A character is queued, a signal sent or a call made.
Disturbed ==
  \/ count(raw)' > count(raw)
  \/ ~(pend' \subseteq pend)
  \/ \E p \in Proc : pc[p] = "user" /\ pc'[p] \notin {"user", "drain"}

\* Once no more input and no more calls come and the other terminals leave
\* cblocks enough, the calls under way are finished, unless XOFF has stopped the
\* terminal or a reader has nothing to read: no writer is left asleep, goes round
\* in ttywrite for ever or is kept from the queue by another, and no reader spins
\* on a count of breaks that are not there.
CallsReturn ==
  <>[]Roomy /\ <>[][~Disturbed]_vars =>
    \A p \in Proc : pc[p] # "user" ~>
      (pc[p] = "user" \/ "LOSTOP" \in state \/ (p \in asleep /\ pc[p] = "insleep"))
=============================================================================
