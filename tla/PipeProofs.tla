----------------------------- MODULE PipeProofs -----------------------------
(***************************************************************************)
(* A pipe, for any number of processes on either end and any size: type    *)
(* correctness, the inode lock, no early free.  The bytes come in order    *)
(* if the read end has one process that gets no signals: a signal that     *)
(* aborts pread leaves the pointers of an emptied pipe apart.              *)
(***************************************************************************)
EXTENDS Pipe, FiniteSetTheorems, TLAPS

\* What a process in the kernel does with the pipe, and that it has the end
\* it does it with; the one that closes finds both ends closed.
PlaceP(p) ==
  /\ pc[p] \in {"pread", "iread"} => then[p] = "pread"
  /\ pc[p] \in {"pwrite", "iwrite"} => then[p] = "pwrite"
  /\ pc[p] \in {"idec", "itrunc"} => then[p] = "idec"
  /\ p \in asleep => pc[p] \in {"ilock", "iwait"}
  /\ pc[p] # "user" /\ then[p] = "pread" => p \in rend
  /\ pc[p] # "user" /\ then[p] = "pwrite" => p \in wend
  /\ pc[p] # "user" /\ then[p] = "idec" => rend = {} /\ wend = {}
  /\ pc[p] = "iread" => offset[p] < size

PlaceInv == \A p \in Proc : PlaceP(p)

\* Nobody else is left in the kernel with a pipe that is being closed, and
\* nobody with one that is freed.
CloseInv ==
  /\ \A p, q \in Proc : p # q /\ pc[p] # "user" /\ then[p] = "idec" => pc[q] = "user"
  /\ freed => rend = {} /\ wend = {} /\ \A p \in Proc : pc[p] = "user"

\* The references: one for each open end and one for each process that waits
\* for the lock in ilock.
One(S) == IF S = {} THEN 0 ELSE 1
Waiting == {p \in Proc : pc[p] = "iwait"}
CountInv == count = One(rend) + One(wend) + Cardinality(Waiting)

IInv == TypeOK /\ PlaceInv /\ CloseInv /\ CountInv /\ LockSafe

\* What one process does.
Step(p) == Continue(p) \/ pread(p) \/ pwrite(p) \/ Signal(p) \/ close(p)

\* Initially the pipe is empty, both ends are open and nobody is inside.
LEMMA InitIInv == Init => IInv
<1> SUFFICES ASSUME Init PROVE IInv
  OBVIOUS
<1>1. TypeOK
  <2>1. count \in 0..(2 + Cardinality(Proc))
    BY FS_CardinalityType, ConstAssumption DEF Init
  <2>2. data \in [1..PIPSIZE -> 0..(ByteMod - 1)] /\ wrote \in 0..(ByteMod - 1) /\ got \in 0..(ByteMod - 1)
    BY ConstAssumption DEF Init
  <2>3. /\ pc \in [Proc -> {"user", "ilock", "iwait", "pread", "iread", "pwrite", "iwrite",
                           "idec", "itrunc"}]
        /\ then \in [Proc -> {"pread", "pwrite", "idec"}]
    BY DEF Init
  <2>4. offset \in [Proc -> 0..PIPSIZE] /\ left \in [Proc -> 0..MaxReq]
    BY ConstAssumption DEF Init
  <2>5. size \in 0..PIPSIZE /\ rwptr \in 0..PIPSIZE
    BY ConstAssumption DEF Init
  <2>6. busy \in BOOLEAN /\ wanted \in BOOLEAN /\ freed \in BOOLEAN /\ asleep \subseteq Proc
    BY DEF Init
  <2>7. rend \subseteq Readers /\ wend \subseteq Writers /\ cpu \in Proc \cup {NoProc}
    BY DEF Init
  <2> QED
    BY <2>1, <2>2, <2>3, <2>4, <2>5, <2>6, <2>7 DEF TypeOK
<1>2. PlaceInv
  BY DEF Init, PlaceInv, PlaceP
<1>3. CloseInv
  BY DEF Init, CloseInv
<1>4. CountInv
  <2>1. Waiting = {}
    BY DEF Init, Waiting
  <2> QED
    BY <2>1, FS_EmptySet, ConstAssumption DEF Init, CountInv, One
<1>5. LockSafe
  BY DEF Init, LockSafe, Holds
<1> QED
  BY <1>1, <1>2, <1>3, <1>4, <1>5 DEF IInv

\* A remainder is below the modulus: the numbers of the bytes.
LEMMA ByteRange == ASSUME NEW n \in Nat PROVE n % ByteMod \in 0..(ByteMod - 1)
<1>1. ByteMod \in Nat \ {0}
  BY ConstAssumption
<1> QED
  BY <1>1

\* iread copies no more than there is and no more than was asked for.
LEMMA AmountRange ==
  ASSUME IInv, NEW p \in Proc, pc[p] = "iread"
  PROVE  Amount(p) \in Nat /\ Amount(p) <= left[p] /\ offset[p] + Amount(p) <= size
  BY ConstAssumption DEF IInv, TypeOK, PlaceInv, PlaceP, Amount, Lesser

\* iwrite puts down no more than fits and no more than is left.
LEMMA RoomRange ==
  ASSUME IInv, NEW p \in Proc
  PROVE  Room(p) \in Nat /\ Room(p) <= left[p] /\ size + Room(p) <= PIPSIZE
  BY ConstAssumption DEF IInv, TypeOK, Room, Lesser

\* The end of iread: n bytes, no more than there are.
LEMMA ReadDoneFacts ==
  ASSUME IInv, NEW p \in Proc, ReadDone(p)
  PROVE  \E n \in Nat : /\ offset[p] + n <= size
                        /\ PreadReturn(p, offset[p] + n)
                        /\ got' = (got + n) % ByteMod
<1>1. PICK n \in 0..Amount(p) : PreadReturn(p, offset[p] + n) /\ got' = (got + n) % ByteMod
  BY DEF ReadDone
<1>2. Amount(p) \in Nat /\ offset[p] + Amount(p) <= size
  BY AmountRange DEF ReadDone, At
<1>3. offset[p] \in Nat /\ size \in Nat
  BY ConstAssumption DEF IInv, TypeOK
<1>4. n \in Nat /\ offset[p] + n <= size
  BY <1>2, <1>3
<1> QED
  BY <1>1, <1>4

\* The end of iwrite: n bytes, no more than fit, behind the others.
LEMMA WriteDoneBytes ==
  ASSUME IInv, NEW p \in Proc, WriteDone(p)
  PROVE  \E n \in Nat :
           /\ n <= left[p] /\ size + n <= PIPSIZE
           /\ data' = [k \in 1..PIPSIZE |-> IF k \in (size + 1)..(size + n)
                                            THEN (wrote + k - size - 1) % ByteMod ELSE data[k]]
           /\ size' = size + n
           /\ wrote' = (wrote + n) % ByteMod
           /\ left' = [left EXCEPT ![p] = 0] \/ left' = [left EXCEPT ![p] = @ - n]
           /\ (irelse /\ Return(p)) \/ irelseAndSleep(p)
<1>1. PICK n \in 0..Room(p) :
           /\ data' = [k \in 1..PIPSIZE |-> IF k \in (size + 1)..(size + n)
                                            THEN (wrote + k - size - 1) % ByteMod ELSE data[k]]
           /\ size' = size + n /\ wrote' = (wrote + n) % ByteMod
           /\ left' = [left EXCEPT ![p] = IF n < Room(p) \/ n = left[p] THEN 0 ELSE @ - n]
           /\ IF n < Room(p) \/ n = left[p] THEN irelse /\ Return(p) ELSE irelseAndSleep(p)
  BY DEF WriteDone
<1>2. Room(p) \in Nat /\ Room(p) <= left[p] /\ size + Room(p) <= PIPSIZE
  BY RoomRange
<1>3. size \in Nat /\ left[p] \in Nat /\ PIPSIZE \in Nat
  BY ConstAssumption DEF IInv, TypeOK
<1>4. n \in Nat /\ n <= left[p] /\ size + n <= PIPSIZE
  BY <1>2, <1>3
<1>5. CASE n < Room(p) \/ n = left[p]
  BY <1>1, <1>4, <1>5
<1>6. CASE ~(n < Room(p) \/ n = left[p])
  BY <1>1, <1>4, <1>6
<1> QED
  BY <1>5, <1>6

\* The end of iwrite, as the lock and the reader see it.
LEMMA WriteDoneFacts ==
  ASSUME IInv, NEW p \in Proc, WriteDone(p)
  PROVE  /\ At(p, "iwrite")
         /\ size' \in 0..PIPSIZE /\ size' >= size
         /\ (irelse /\ Return(p)) \/ irelseAndSleep(p)
         /\ UNCHANGED <<count, rwptr, got, endVars, then, offset>>
<1>1. PICK n \in Nat : /\ size + n <= PIPSIZE
                       /\ size' = size + n
                       /\ (irelse /\ Return(p)) \/ irelseAndSleep(p)
  BY WriteDoneBytes
<1>2. size' \in 0..PIPSIZE /\ size' >= size
  BY <1>1, ConstAssumption DEF IInv, TypeOK
<1> QED
  BY <1>1, <1>2 DEF WriteDone

\* The last close of an end finds the other one open, or nobody inside: who is
\* in the kernel with the pipe has one of its ends.
LEMMA CloseFacts ==
  ASSUME IInv, NEW p \in Proc, close(p)
  PROVE  /\ \A q \in Proc : q # p /\ pc[q] # "user" => then[q] # "idec"
         /\ EndClosed(p) /\ LastReference => rend' = {} /\ wend' = {} /\ \A q \in Proc : pc[q] = "user"
         /\ ~freed
<1>1. \A q \in Proc : pc[q] # "user" => then[q] # "idec"
  BY DEF close, IInv, PlaceInv, PlaceP
<1>2. ~freed
  BY DEF close, IInv, CloseInv
<1>3. ASSUME EndClosed(p), LastReference
      PROVE  rend' = {} /\ wend' = {} /\ \A q \in Proc : pc[q] = "user"
  <2>1. IsFiniteSet(Waiting) /\ Cardinality(Waiting) \in Nat
    BY FS_Subset, FS_CardinalityType, ConstAssumption DEF Waiting
  <2>2. rend = {} \/ wend = {}
    BY <2>1, <1>3 DEF IInv, CountInv, One, LastReference
  <2>3. rend' = {} /\ wend' = {}
    BY <2>2, <1>3 DEF close, EndClosed
  <2>4. rend \cup wend = {p}
    BY <2>2, <1>3 DEF close, EndClosed
  <2>5. pc[p] = "user"
    BY DEF close, Calls, At
  <2>6. ASSUME NEW q \in Proc, pc[q] # "user" PROVE FALSE
    BY <2>4, <2>5, <2>6, <1>1 DEF IInv, TypeOK, PlaceInv, PlaceP
  <2> QED
    BY <2>3, <2>6
<1> QED
  BY <1>1, <1>2, <1>3

\* irelse lets nobody sleep on, and the lock is free afterwards.
LEMMA GiveLock ==
  ASSUME IInv, NEW p \in Proc, Holds(p), irelse, Return(p)
  PROVE  LockSafe'
<1>1. asleep' = {} /\ ~busy'
  BY DEF IInv, LockSafe, irelse
<1>2. \A q \in Proc : ~Holds(q)'
  BY DEF IInv, TypeOK, LockSafe, Return, Bread, Holds
<1> QED
  BY <1>1, <1>2 DEF LockSafe

\* So does irelse in pread and pwrite, after which only the caller sleeps.
LEMMA GiveLockAndSleep ==
  ASSUME IInv, NEW p \in Proc, Holds(p), irelseAndSleep(p)
  PROVE  LockSafe'
<1>1. asleep' = {p} /\ ~busy' /\ wanted' /\ pc'[p] = "ilock"
  BY DEF IInv, TypeOK, LockSafe, irelseAndSleep, Bread
<1>2. \A q \in Proc : ~Holds(q)'
  BY DEF IInv, TypeOK, LockSafe, irelseAndSleep, Bread, Holds
<1> QED
  BY <1>1, <1>2 DEF LockSafe

\* The lock stays a lock: who takes it found it free, who gives it up wakes
\* everybody (ilock, irelse).
LEMMA LockStep ==
  ASSUME IInv, NEW p \in Proc, Step(p)
  PROVE  LockSafe'
<1> USE DEF IInv, TypeOK, LockSafe, Holds, At, Goto, Bread, Return, ilock, Calls, lockVars,
            Dreamers, PlaceInv, PlaceP
<1>1. CASE LockFree(p)
  <2>1. CASE then[p] = "pread"
    BY <1>1, <2>1 DEF LockFree
  <2>2. CASE then[p] = "pwrite"
    BY <1>1, <2>2 DEF LockFree
  <2>3. CASE then[p] = "idec"
    BY <1>1, <2>3 DEF LockFree
  <2> QED
    BY <2>1, <2>2, <2>3
<1>2. CASE LockBusy(p)
  BY <1>2 DEF LockBusy
<1>3. CASE LockWoken(p)
  <2>1. CASE busy
    BY <1>3, <2>1 DEF LockWoken
  <2>2. CASE ~busy /\ then[p] = "pread"
    BY <1>3, <2>2 DEF LockWoken
  <2>3. CASE ~busy /\ then[p] = "pwrite"
    BY <1>3, <2>3 DEF LockWoken
  <2>4. CASE ~busy /\ then[p] = "idec"
    BY <1>3, <2>4 DEF LockWoken
  <2> QED
    BY <2>1, <2>2, <2>3, <2>4
<1>4. CASE Eof(p)
  BY <1>4, GiveLock DEF Eof, PreadReturn, At, Holds
<1>5. CASE Empty(p)
  BY <1>5, GiveLockAndSleep DEF Empty, At, Holds
<1>6. CASE iread(p)
  BY <1>6 DEF iread
<1>7. CASE ReadDone(p)
  BY <1>7, GiveLock DEF ReadDone, PreadReturn, At, Holds
<1>8. CASE Broken(p)
  BY <1>8, GiveLock DEF Broken, At, Holds
<1>9. CASE Full(p)
  BY <1>9, GiveLockAndSleep DEF Full, At, Holds
<1>10. CASE iwrite(p)
  BY <1>10 DEF iwrite
<1>11. CASE WriteDone(p)
  BY <1>11, GiveLock, GiveLockAndSleep, WriteDoneFacts DEF At, Holds
<1>12. CASE idec(p)
  BY <1>12 DEF idec
<1>13. CASE ifree(p)
  BY <1>13, GiveLock DEF ifree, At, Holds
<1>14. CASE pread(p)
  BY <1>14 DEF pread
<1>15. CASE pwrite(p)
  BY <1>15 DEF pwrite
<1>16. CASE Signal(p)
  BY <1>16 DEF Signal
<1>17. CASE close(p)
  <2>1. \A q \in Proc : Holds(q)' <=> Holds(q)
    <3>1. pc' = [pc EXCEPT ![p] = "user"] \/ pc' = [pc EXCEPT ![p] = "ilock"]
      BY <1>17 DEF close
    <3> QED
      BY <1>17, <3>1 DEF close
  <2>2. busy' = busy /\ wanted' = wanted /\ asleep' \subseteq asleep
    BY <1>17 DEF close
  <2>3. \A q \in asleep' : pc'[q] = pc[q]
    BY <1>17, <2>2 DEF close
  <2> QED
    <3> HIDE DEF Holds
    <3> QED BY <2>1, <2>2, <2>3
<1> QED
  BY <1>1, <1>2, <1>3, <1>4, <1>5, <1>6, <1>7, <1>8, <1>9, <1>10, <1>11, <1>12, <1>13, <1>14,
     <1>15, <1>16, <1>17
     DEF Step, Continue

\* Nobody joins a process that closes the pipe: there is no end left to call
\* through.
LEMMA CloseStep ==
  ASSUME IInv, NEW p \in Proc, Step(p)
  PROVE  CloseInv'
<1> USE DEF IInv, TypeOK, At, Goto, Bread, Return, ilock, irelse, irelseAndSleep, Calls,
            PreadReturn, lockVars, pipeVars, endVars, Dreamers, PlaceInv, PlaceP, LockSafe,
            Holds, CloseInv
<1>1. CASE LockFree(p)
  <2>1. CASE then[p] = "pread"
    BY <1>1, <2>1 DEF LockFree
  <2>2. CASE then[p] = "pwrite"
    BY <1>1, <2>2 DEF LockFree
  <2>3. CASE then[p] = "idec"
    BY <1>1, <2>3 DEF LockFree
  <2> QED
    BY <2>1, <2>2, <2>3
<1>2. CASE LockBusy(p)
  BY <1>2 DEF LockBusy
<1>3. CASE LockWoken(p)
  <2>1. pc[p] # "user" /\ then' = then /\ freed' = freed /\ rend' = rend /\ wend' = wend
    BY <1>3 DEF LockWoken
  <2>2. \A q \in Proc : q # p => pc'[q] = pc[q]
    BY <1>3 DEF LockWoken
  <2> QED
    BY <2>1, <2>2
<1>4. CASE Eof(p)
  BY <1>4 DEF Eof
<1>5. CASE Empty(p)
  BY <1>5 DEF Empty
<1>6. CASE iread(p)
  BY <1>6 DEF iread
<1>7. CASE ReadDone(p)
  BY <1>7 DEF ReadDone
<1>8. CASE Broken(p)
  BY <1>8 DEF Broken
<1>9. CASE Full(p)
  BY <1>9 DEF Full
<1>10. CASE iwrite(p)
  BY <1>10 DEF iwrite
<1>11. CASE WriteDone(p)
  <2>1. pc[p] # "user" /\ then' = then /\ freed' = freed /\ rend' = rend /\ wend' = wend
    BY <1>11, WriteDoneFacts
  <2>2. ASSUME NEW q \in Proc, q # p PROVE pc'[q] = pc[q]
    <3>1. pc' = [pc EXCEPT ![p] = "user"] \/ pc' = [pc EXCEPT ![p] = "ilock"]
      BY <1>11, WriteDoneFacts
    <3> QED
      BY <2>2, <3>1
  <2> QED
    BY <2>1, <2>2
<1>12. CASE idec(p)
  BY <1>12 DEF idec
<1>13. CASE ifree(p)
  BY <1>13 DEF ifree
<1>14. CASE pread(p)
  BY <1>14 DEF pread
<1>15. CASE pwrite(p)
  BY <1>15 DEF pwrite
<1>16. CASE Signal(p)
  BY <1>16 DEF Signal
<1>17. CASE close(p)
  <2>1. \A q \in Proc : q # p => pc'[q] = pc[q] /\ then'[q] = then[q]
    BY <1>17 DEF close
  <2>2. ~freed' /\ \A q \in Proc : q # p /\ pc[q] # "user" => then[q] # "idec"
    BY <1>17, CloseFacts DEF close
  <2>3. pc'[p] # "user" => \A q \in Proc : pc[q] = "user"
    BY <1>17, CloseFacts DEF close
  <2> QED
    BY <2>1, <2>2, <2>3
<1> QED
  BY <1>1, <1>2, <1>3, <1>4, <1>5, <1>6, <1>7, <1>8, <1>9, <1>10, <1>11, <1>12, <1>13, <1>14,
     <1>15, <1>16, <1>17
     DEF Step, Continue

\* A process in the kernel keeps the end it works with and stays where the
\* routine it is in has left it.
LEMMA PlaceStep ==
  ASSUME IInv, NEW p \in Proc, Step(p)
  PROVE  PlaceInv'
<1> USE DEF IInv, TypeOK, At, Goto, Bread, Return, ilock, irelse, irelseAndSleep, Calls,
            PreadReturn, lockVars, pipeVars, endVars, Dreamers, PlaceInv, PlaceP, LockSafe,
            Holds, CloseInv
<1>1. CASE LockFree(p)
  <2>1. CASE then[p] = "pread"
    BY <1>1, <2>1, ConstAssumption DEF LockFree
  <2>2. CASE then[p] = "pwrite"
    BY <1>1, <2>2, ConstAssumption DEF LockFree
  <2>3. CASE then[p] = "idec"
    BY <1>1, <2>3, ConstAssumption DEF LockFree
  <2> QED
    BY <2>1, <2>2, <2>3
<1>2. CASE LockBusy(p)
  BY <1>2, ConstAssumption DEF LockBusy
<1>3. CASE LockWoken(p)
  <2>1. CASE busy
    BY <1>3, <2>1, ConstAssumption DEF LockWoken
  <2>2. CASE ~busy /\ then[p] = "pread"
    BY <1>3, <2>2, ConstAssumption DEF LockWoken
  <2>3. CASE ~busy /\ then[p] = "pwrite"
    BY <1>3, <2>3, ConstAssumption DEF LockWoken
  <2>4. CASE ~busy /\ then[p] = "idec"
    BY <1>3, <2>4, ConstAssumption DEF LockWoken
  <2> QED
    BY <2>1, <2>2, <2>3, <2>4
<1>4. CASE Eof(p)
  BY <1>4, ConstAssumption DEF Eof
<1>5. CASE Empty(p)
  BY <1>5, ConstAssumption DEF Empty
<1>6. CASE iread(p)
  BY <1>6, ConstAssumption DEF iread
<1>7. CASE ReadDone(p)
  BY <1>7, ConstAssumption DEF ReadDone
<1>8. CASE Broken(p)
  BY <1>8, ConstAssumption DEF Broken
<1>9. CASE Full(p)
  BY <1>9, ConstAssumption DEF Full
<1>10. CASE iwrite(p)
  BY <1>10, ConstAssumption DEF iwrite
<1>11. CASE WriteDone(p)
  <2>1. CASE irelse /\ Return(p)
    BY <1>11, <2>1, WriteDoneFacts
  <2>2. CASE irelseAndSleep(p)
    BY <1>11, <2>2, WriteDoneFacts
  <2> QED
    BY <1>11, <2>1, <2>2, WriteDoneFacts
<1>12. CASE idec(p)
  BY <1>12, ConstAssumption DEF idec
<1>13. CASE ifree(p)
  BY <1>13, ConstAssumption DEF ifree
<1>14. CASE pread(p)
  BY <1>14, ConstAssumption DEF pread
<1>15. CASE pwrite(p)
  BY <1>15, ConstAssumption DEF pwrite
<1>16. CASE Signal(p)
  BY <1>16, ConstAssumption DEF Signal
<1>17. CASE close(p)
  <2>1. CASE ~EndClosed(p)
    BY <1>17, <2>1, ConstAssumption, CloseFacts DEF close
  <2>2. CASE EndClosed(p) /\ ~LastReference
    BY <1>17, <2>2, ConstAssumption, CloseFacts DEF close
  <2>3. CASE EndClosed(p) /\ LastReference
    BY <1>17, <2>3, ConstAssumption, CloseFacts DEF close
  <2> QED
    BY <2>1, <2>2, <2>3
<1> QED
  BY <1>1, <1>2, <1>3, <1>4, <1>5, <1>6, <1>7, <1>8, <1>9, <1>10, <1>11, <1>12, <1>13, <1>14,
     <1>15, <1>16, <1>17
     DEF Step, Continue

\* The lock and the control of a process keep their types.
LEMMA ControlTypeStep ==
  ASSUME IInv, NEW p \in Proc, Step(p)
  PROVE  /\ busy' \in BOOLEAN /\ wanted' \in BOOLEAN /\ freed' \in BOOLEAN
         /\ asleep' \subseteq Proc
         /\ rend' \subseteq Readers /\ wend' \subseteq Writers
         /\ cpu' \in Proc \cup {NoProc}
         /\ then' \in [Proc -> {"pread", "pwrite", "idec"}]
         /\ pc' \in [Proc -> {"user", "ilock", "iwait", "pread", "iread", "pwrite", "iwrite",
                              "idec", "itrunc"}]
<1> USE DEF IInv, TypeOK, At, Goto, Bread, Return, ilock, irelse, irelseAndSleep, Calls,
            PreadReturn, lockVars, pipeVars, endVars, Dreamers, Step, Continue
<1>1. busy' \in BOOLEAN /\ wanted' \in BOOLEAN /\ freed' \in BOOLEAN
  BY DEF LockFree, LockBusy, LockWoken, Eof, Empty, iread, ReadDone, Broken, Full, iwrite,
         WriteDone, idec, ifree, pread, pwrite, Signal, close
<1>2. asleep' \subseteq Proc
  BY DEF LockFree, LockBusy, LockWoken, Eof, Empty, iread, ReadDone, Broken, Full, iwrite,
         WriteDone, idec, ifree, pread, pwrite, Signal, close
<1>3. rend' \subseteq Readers /\ wend' \subseteq Writers
  BY DEF LockFree, LockBusy, LockWoken, Eof, Empty, iread, ReadDone, Broken, Full, iwrite,
         WriteDone, idec, ifree, pread, pwrite, Signal, close
<1>4. cpu' \in Proc \cup {NoProc} /\ then' \in [Proc -> {"pread", "pwrite", "idec"}]
  BY DEF LockFree, LockBusy, LockWoken, Eof, Empty, iread, ReadDone, Broken, Full, iwrite,
         WriteDone, idec, ifree, pread, pwrite, Signal, close
<1>5. \E place \in {"user", "ilock", "iwait", "pread", "iread", "pwrite", "iwrite", "idec", "itrunc"} :
        pc' = [pc EXCEPT ![p] = place]
  BY DEF LockFree, LockBusy, LockWoken, Eof, Empty, iread, ReadDone, Broken, Full, iwrite,
         WriteDone, idec, ifree, pread, pwrite, Signal, close
<1> QED
  BY <1>1, <1>2, <1>3, <1>4, <1>5

\* What only the bytes and the pointers are about keeps its types.
LEMMA DataTypeStep ==
  ASSUME IInv, NEW p \in Proc, Step(p)
  PROVE  /\ size' \in 0..PIPSIZE /\ rwptr' \in 0..PIPSIZE
         /\ data' \in [1..PIPSIZE -> 0..(ByteMod - 1)]
         /\ offset' \in [Proc -> 0..PIPSIZE] /\ left' \in [Proc -> 0..MaxReq]
         /\ wrote' \in 0..(ByteMod - 1) /\ got' \in 0..(ByteMod - 1)
<1> USE DEF IInv, TypeOK
<1>1. CASE ReadDone(p)
  <2>1. PICK n \in Nat : /\ offset[p] + n <= size
                         /\ PreadReturn(p, offset[p] + n) /\ got' = (got + n) % ByteMod
    BY <1>1, ReadDoneFacts
  <2>2. offset[p] + n \in 0..PIPSIZE /\ got + n \in Nat
    <3>1. offset[p] \in 0..PIPSIZE /\ got \in 0..(ByteMod - 1) /\ size \in 0..PIPSIZE
      OBVIOUS
    <3> QED
      BY ONLY <2>1, <3>1, ConstAssumption
  <2>3. (got + n) % ByteMod \in 0..(ByteMod - 1)
    BY <2>2, ByteRange
  <2>4. /\ rwptr' = offset[p] + n /\ got' = (got + n) % ByteMod
        /\ offset' = [offset EXCEPT ![p] = 0] /\ left' = [left EXCEPT ![p] = 0]
        /\ size' = size /\ data' = data /\ wrote' = wrote
    BY <1>1, <2>1 DEF ReadDone, PreadReturn
  <2>5. 0 \in 0..PIPSIZE /\ 0 \in 0..MaxReq
    BY ConstAssumption
  <2> QED
    BY <2>2, <2>3, <2>4, <2>5
<1>2. CASE WriteDone(p)
  <2>1. PICK n \in Nat :
          /\ n <= left[p] /\ size + n <= PIPSIZE
          /\ data' = [k \in 1..PIPSIZE |-> IF k \in (size + 1)..(size + n)
                                          THEN (wrote + k - size - 1) % ByteMod ELSE data[k]]
          /\ size' = size + n /\ wrote' = (wrote + n) % ByteMod
          /\ left' = [left EXCEPT ![p] = 0] \/ left' = [left EXCEPT ![p] = @ - n]
    BY <1>2, WriteDoneBytes
  <2>2. rwptr' = rwptr /\ got' = got /\ offset' = offset
    BY <1>2, WriteDoneFacts
  <2>3. \A k \in (size + 1)..(size + n) : (wrote + k - size - 1) % ByteMod \in 0..(ByteMod - 1)
    <3> TAKE k \in (size + 1)..(size + n)
    <3>1. wrote + k - size - 1 \in Nat
      BY <2>1, ConstAssumption
    <3> QED
      BY <3>1, ByteRange
  <2>4. wrote' \in 0..(ByteMod - 1)
    <3>1. wrote + n \in Nat
      BY <2>1, ConstAssumption
    <3> QED
      BY <2>1, <3>1, ByteRange
  <2>5. size' \in 0..PIPSIZE /\ left' \in [Proc -> 0..MaxReq]
    <3>1. 0 \in 0..MaxReq /\ left[p] - n \in 0..MaxReq /\ size + n \in 0..PIPSIZE
      BY <2>1, ConstAssumption
    <3> QED
      BY <2>1, <3>1
  <2>6. data' \in [1..PIPSIZE -> 0..(ByteMod - 1)]
    BY <2>1, <2>3
  <2> QED
    BY <2>2, <2>4, <2>5, <2>6
<1>3. CASE ~ReadDone(p) /\ ~WriteDone(p)
  <2>1. size' \in 0..PIPSIZE /\ rwptr' \in 0..PIPSIZE
    BY <1>3, ConstAssumption DEF Step, Continue, LockFree, LockBusy, LockWoken, Eof, Empty,
                                 iread, Broken, Full, iwrite, idec, ifree, pread, pwrite, Signal,
                                 close, PreadReturn, pipeVars
  <2>2. data' = data /\ wrote' = wrote /\ got' = got
    BY <1>3 DEF Step, Continue, LockFree, LockBusy, LockWoken, Eof, Empty, iread, Broken, Full,
                iwrite, idec, ifree, pread, pwrite, Signal, close, PreadReturn, pipeVars
  <2>3. /\ \E o \in 0..PIPSIZE : offset' = offset \/ offset' = [offset EXCEPT ![p] = o]
        /\ \E n \in 0..MaxReq : left' = left \/ left' = [left EXCEPT ![p] = n]
    BY <1>3, ConstAssumption DEF Step, Continue, LockFree, LockBusy, LockWoken, Eof, Empty,
                                 iread, Broken, Full, iwrite, idec, ifree, pread, pwrite, Signal,
                                 close, PreadReturn, pipeVars
  <2> QED
    BY <2>1, <2>2, <2>3
<1> QED
  BY <1>1, <1>2, <1>3

\* Of the references, those for processes in ilock number at most all of them.
LEMMA CountType ==
  ASSUME NEW R, NEW W, NEW S \in SUBSET Proc
  PROVE  /\ IsFiniteSet(S)
         /\ One(R) + One(W) + Cardinality(S) \in 0..(2 + Cardinality(Proc))
<1>1. IsFiniteSet(S) /\ Cardinality(S) \in Nat /\ Cardinality(S) <= Cardinality(Proc)
  BY FS_Subset, FS_CardinalityType, ConstAssumption
<1>2. Cardinality(Proc) \in Nat
  BY FS_CardinalityType, ConstAssumption
<1> QED
  BY <1>1, <1>2 DEF One

\* A step that leaves the ends and who waits for the lock alone keeps the count.
LEMMA CountKept ==
  ASSUME IInv, Waiting' = Waiting, UNCHANGED <<count, rend, wend>>
  PROVE  CountInv'
  BY DEF IInv, CountInv

\* ip->count goes up with a process that starts to wait in ilock, down with one
\* that has waited and with the last close of an end.
LEMMA CountStep ==
  ASSUME IInv, NEW p \in Proc, Step(p)
  PROVE  CountInv'
<1> USE DEF IInv, TypeOK, At, Goto, Bread, Return, ilock, Calls, endVars
<1>0. /\ IsFiniteSet(Waiting) /\ Cardinality(Waiting) \in Nat
      /\ One(rend) \in Nat /\ One(wend) \in Nat
      /\ count = One(rend) + One(wend) + Cardinality(Waiting)
  BY FS_Subset, FS_CardinalityType, ConstAssumption DEF Waiting, One, CountInv
<1>1. CASE LockBusy(p)
  <2>1. Waiting' = Waiting \cup {p} /\ p \notin Waiting
    BY <1>1 DEF LockBusy, Waiting
  <2>2. Cardinality(Waiting') = Cardinality(Waiting) + 1
    BY <2>1, <1>0, FS_AddElement
  <2> QED
    <3>1. count' = count + 1 /\ rend' = rend /\ wend' = wend
      BY <1>1 DEF LockBusy
    <3> QED
      BY ONLY <1>0, <2>2, <3>1 DEF CountInv
<1>2. CASE LockWoken(p)
  <2>1. CASE busy
    <3>1. Waiting' = Waiting
      BY <1>2, <2>1 DEF LockWoken, Waiting
    <3> QED
      BY <1>2, <2>1, <3>1, CountKept DEF LockWoken
  <2>2. CASE ~busy
    <3>1. Waiting' = Waiting \ {p} /\ p \in Waiting
      BY <1>2, <2>2 DEF LockWoken, Waiting
    <3>2. Cardinality(Waiting') = Cardinality(Waiting) - 1
      BY <3>1, <1>0, FS_RemoveElement
    <3> QED
      <4>1. count' = count - 1 /\ rend' = rend /\ wend' = wend
        BY <1>2, <2>2 DEF LockWoken
      <4> QED
        BY ONLY <1>0, <3>2, <4>1 DEF CountInv
  <2> QED
    BY <2>1, <2>2
<1>3. CASE close(p)
  <2>1. Waiting' = Waiting
    BY <1>3 DEF close, Waiting
  <2>2. CASE EndClosed(p)
    <3>1. count' = count - 1 /\ (p \in rend => rend = {p} /\ p \notin wend) /\ (p \in wend => wend = {p} /\ p \notin rend)
      BY <1>3, <2>2, ConstAssumption DEF close, EndClosed
    <3>2. One(rend') + One(wend') = One(rend) + One(wend) - 1
      BY <1>3, <3>1 DEF close, One
    <3> QED
      <4>1. One(rend') \in Nat /\ One(wend') \in Nat
        BY DEF One
      <4> QED
        BY ONLY <1>0, <2>1, <3>1, <3>2, <4>1 DEF CountInv
  <2>3. CASE ~EndClosed(p)
    <3>1. One(rend') = One(rend) /\ One(wend') = One(wend)
      BY <1>3, <2>3 DEF close, One, EndClosed
    <3> QED
      BY <1>3, <2>1, <2>3, <3>1 DEF close, CountInv
  <2> QED
    BY <2>2, <2>3
<1>4. CASE LockFree(p)
  <2>1. Waiting' = Waiting
    BY <1>4 DEF LockFree, Waiting
  <2> QED
    BY <1>4, <2>1, CountKept DEF LockFree
<1>5. CASE Eof(p) \/ Empty(p) \/ iread(p) \/ ReadDone(p) \/ Broken(p) \/ Full(p) \/ iwrite(p)
           \/ idec(p) \/ ifree(p) \/ pread(p) \/ pwrite(p) \/ Signal(p)
  <2>1. Waiting' = Waiting
    BY <1>5 DEF Eof, Empty, iread, ReadDone, Broken, Full, iwrite, idec, ifree, pread, pwrite,
                Signal,
                PreadReturn, irelseAndSleep, Waiting
  <2> QED
    BY <1>5, <2>1, CountKept
       DEF Eof, Empty, iread, ReadDone, Broken, Full, iwrite, idec, ifree, pread, pwrite, Signal
<1>6. CASE WriteDone(p)
  <2>1. Waiting' = Waiting
    BY <1>6, WriteDoneFacts DEF irelseAndSleep, Waiting
  <2> QED
    BY <1>6, <2>1, WriteDoneFacts, CountKept
<1> QED
  BY <1>1, <1>2, <1>3, <1>4, <1>5, <1>6 DEF Step, Continue

\* Every step keeps the inductive invariant.
LEMMA NextIInv == IInv /\ [Next]_vars => IInv'
<1> SUFFICES ASSUME IInv, [Next]_vars PROVE IInv'
  OBVIOUS
<1>1. ASSUME NEW p \in Proc, Step(p) PROVE IInv'
  <2>1. PlaceInv' /\ CloseInv' /\ CountInv' /\ LockSafe'
    BY <1>1, PlaceStep, CloseStep, CountStep, LockStep
  <2>2. count' \in 0..(2 + Cardinality(Proc))
    <3>1. Waiting' \in SUBSET Proc
      BY DEF Waiting
    <3> QED
      BY <2>1, <3>1, CountType DEF CountInv
  <2>3. TypeOK'
    BY <1>1, <2>2, ControlTypeStep, DataTypeStep DEF TypeOK
  <2> QED
    BY <2>1, <2>3 DEF IInv
<1>2. CASE UNCHANGED vars
  BY <1>2 DEF vars, lockVars, pipeVars, endVars, IInv, TypeOK, PlaceInv, PlaceP, CloseInv, CountInv,
              Waiting, LockSafe, Holds
<1> QED
  BY <1>1, <1>2 DEF Next, Step

\* The inductive invariant holds in every state a pipe can get into.
THEOREM PipeInvariant == Spec => []IInv
  BY InitIInv, NextIInv, PTL DEF Spec

\* Type correctness of the pipe: among the rest, the pointers stay in the file,
\* which stays below PIPSIZE, and the references are at most two and one for
\* every process.
THEOREM TypeCorrect == Spec => []TypeOK
  BY PipeInvariant, PTL DEF IInv

\* The inode lock of a pipe excludes while iread and iwrite sleep, and nobody
\* sleeps in ilock for a lock that is free or without IWANT.
THEOREM LockIsSafe == Spec => []LockSafe
  BY PipeInvariant, PTL DEF IInv

\* idec gives the inode and its blocks back only when both ends are closed and
\* nobody is left in pread or pwrite.
THEOREM FreeIsSafe == Spec => []FreedWhenUnused
<1>1. IInv => FreedWhenUnused
  BY DEF IInv, PlaceInv, PlaceP, CloseInv, FreedWhenUnused
<1> QED
  BY <1>1, PipeInvariant, PTL

-----------------------------------------------------------------------------
(***************************************************************************)
(* The order of the bytes, for a read end with the one process r.          *)
(***************************************************************************)
\* Where r will read next: its own offset while it is in pread, else the one
\* kept in the file structure.
Pos(r) == IF pc[r] # "user" THEN offset[r] ELSE rwptr

\* b is the number of the byte at the start of the file.
Numbered(r, b) ==
  /\ wrote = (b + size) % ByteMod
  /\ \A k \in 1..size : data[k] = (b + k - 1) % ByteMod
  /\ rend # {} => Pos(r) <= size /\ got = (b + Pos(r)) % ByteMod

OrderInv(r) == \E b \in Nat : Numbered(r, b)

\* Numbers can be reduced before or after they are added up.
LEMMA ModAdd ==
  ASSUME NEW x \in Nat, NEW k \in Nat, NEW m \in Nat \ {0}
  PROVE  ((x % m) + k) % m = (x + k) % m
<1> DEFINE q1 == x \div m
           y  == (x % m) + k
           q2 == y \div m
           q3 == (x + k) \div m
<1>1. /\ q1 \in Int /\ x = m * q1 + (x % m) /\ x % m \in 0 .. m - 1
  OBVIOUS
<1>2. /\ q2 \in Int /\ y = m * q2 + (y % m) /\ y % m \in 0 .. m - 1
  BY <1>1
<1>3. /\ q3 \in Int /\ x + k = m * q3 + ((x + k) % m) /\ (x + k) % m \in 0 .. m - 1
  OBVIOUS
<1> DEFINE d == q3 - q1 - q2
<1>4. m * d = (y % m) - ((x + k) % m)
  <2> HIDE DEF q1, q2, q3
  <2>1. m * d = m * q3 - m * q1 - m * q2
    BY <1>1, <1>2, <1>3
  <2> QED
    BY <2>1, <1>1, <1>2, <1>3
<1>5. d \in Int /\ m * d < m /\ m * d > -m
  BY <1>1, <1>2, <1>3, <1>4
<1> HIDE DEF d
<1>6. d = 0
  <2>1. CASE d >= 1
    BY <2>1, <1>5
  <2>2. CASE d <= -1
    BY <2>2, <1>5
  <2> QED
    BY <2>1, <2>2, <1>5
<1> QED
  BY <1>4, <1>6, <1>2, <1>3

\* The same for the numbers of the bytes.
LEMMA ByteAdd ==
  ASSUME NEW x \in Nat, NEW k \in Nat
  PROVE  ((x % ByteMod) + k) % ByteMod = (x + k) % ByteMod
<1>1. ByteMod \in Nat \ {0}
  BY ConstAssumption
<1> QED
  BY <1>1, ModAdd

\* A step that moves no pointer and writes nothing keeps the order.
LEMMA OrderKept ==
  ASSUME NEW r, OrderInv(r), UNCHANGED <<wrote, size, data, got>>,
         rend' # {} => rend # {} /\ Pos(r)' = Pos(r)
  PROVE  OrderInv(r)'
<1>1. PICK b \in Nat : Numbered(r, b)
  BY DEF OrderInv
<1>2. Numbered(r, b)'
  BY <1>1 DEF Numbered
<1> QED
  BY <1>2 DEF OrderInv

\* Nobody but r is ever in pread.
LEMMA OnlyReader ==
  ASSUME IInv, NEW r, Readers = {r}, NEW p \in Proc, pc[p] # "user", then[p] = "pread"
  PROVE  p = r /\ rend # {}
  BY DEF IInv, TypeOK, PlaceInv, PlaceP

\* While the read end is open r is in the kernel only for pread.
LEMMA ReaderReads ==
  ASSUME IInv, NEW r, Readers = {r}, rend # {}, pc[r] # "user"
  PROVE  r \in Proc /\ then[r] = "pread"
<1>1. r \in Proc /\ r \notin Writers
  BY ConstAssumption DEF Proc
<1> QED
  BY <1>1 DEF IInv, TypeOK, PlaceInv, PlaceP

\* The reader finds nothing and sets both pointers back: the file now starts
\* with the byte that is written next, which is the one that is read next.
LEMMA OrderEmpty ==
  ASSUME IInv, NEW r, Readers = {r}, OrderInv(r), NEW p \in Proc, Empty(p)
  PROVE  OrderInv(r)'
<1>1. PICK b \in Nat : Numbered(r, b)
  BY DEF OrderInv
<1>2. pc[p] = "pread" /\ offset[p] >= size /\ size' = 0
      /\ offset' = [offset EXCEPT ![p] = 0] /\ pc' = [pc EXCEPT ![p] = "ilock"]
      /\ UNCHANGED <<wrote, data, got, rend>>
  BY DEF Empty, At, irelseAndSleep, Bread, endVars
<1>3. p = r /\ rend # {}
  BY <1>2, OnlyReader DEF IInv, PlaceInv, PlaceP
<1>4. size \in Nat /\ offset[p] \in Nat
  BY ConstAssumption DEF IInv, TypeOK
<1>5. offset[p] = size
  BY <1>1, <1>2, <1>3, <1>4 DEF Numbered, Pos
<1>6. Pos(r)' = 0
  BY <1>2, <1>3 DEF Pos, IInv, TypeOK
<1>7. PICK c \in Nat : c = b + size
  BY <1>4
<1>8. Numbered(r, c)'
  <2>1. got = c % ByteMod /\ wrote = c % ByteMod /\ c + 0 = c
    BY <1>1, <1>2, <1>3, <1>5, <1>7 DEF Numbered, Pos
  <2>2. /\ wrote' = (c + size') % ByteMod
        /\ Pos(r)' <= size' /\ got' = (c + Pos(r)') % ByteMod
    BY <1>2, <1>6, <2>1
  <2> QED
    BY <1>2, <2>2 DEF Numbered
<1> QED
  BY <1>8 DEF OrderInv

\* A read takes the bytes from the offset on, and moves it past them.
LEMMA OrderRead ==
  ASSUME IInv, NEW r, Readers = {r}, OrderInv(r), NEW p \in Proc, ReadDone(p)
  PROVE  OrderInv(r)'
<1>1. PICK b \in Nat : Numbered(r, b)
  BY DEF OrderInv
<1>n. PICK n \in Nat : /\ offset[p] + n <= size
                       /\ PreadReturn(p, offset[p] + n) /\ got' = (got + n) % ByteMod
  BY ReadDoneFacts
<1>2. /\ pc[p] = "iread" /\ rwptr' = offset[p] + n /\ pc' = [pc EXCEPT ![p] = "user"]
      /\ got' = (got + n) % ByteMod /\ UNCHANGED <<wrote, data, size, rend>>
  BY <1>n DEF ReadDone, PreadReturn, At, Return, Bread, endVars
<1>3. p = r /\ rend # {}
  BY <1>2, OnlyReader DEF IInv, PlaceInv, PlaceP
<1>4. offset[p] \in Nat /\ offset[p] + n <= size
  BY <1>n, ConstAssumption DEF IInv, TypeOK
<1>5. Pos(r)' = offset[p] + n
  BY <1>2, <1>3 DEF Pos, IInv, TypeOK
<1>6. got' = (b + (offset[p] + n)) % ByteMod
  <2>1. got = (b + offset[p]) % ByteMod
    BY <1>1, <1>2, <1>3 DEF Numbered, Pos
  <2>2. b + offset[p] \in Nat
    BY <1>4
  <2>3. got' = ((b + offset[p]) + n) % ByteMod
    BY <1>2, <1>4, <2>1, <2>2, ByteAdd
  <2>4. (b + offset[p]) + n = b + (offset[p] + n)
    BY <1>4
  <2> QED
    BY <2>3, <2>4
<1>7. Numbered(r, b)'
  BY <1>1, <1>2, <1>4, <1>5, <1>6 DEF Numbered
<1> QED
  BY <1>7 DEF OrderInv

\* A write numbers its bytes on from the last one in the file.
LEMMA OrderWrite ==
  ASSUME IInv, NEW r, Readers = {r}, OrderInv(r), NEW p \in Proc, WriteDone(p)
  PROVE  OrderInv(r)'
<1>1. PICK b \in Nat : Numbered(r, b)
  BY DEF OrderInv
<1>2. PICK n \in Nat :
        /\ size + n <= PIPSIZE
        /\ data' = [k \in 1..PIPSIZE |-> IF k \in (size + 1)..(size + n)
                                         THEN (wrote + k - size - 1) % ByteMod ELSE data[k]]
        /\ size' = size + n /\ wrote' = (wrote + n) % ByteMod
  BY WriteDoneBytes
<1>3. /\ data' = [k \in 1..PIPSIZE |-> IF k \in (size + 1)..(size + n)
                                       THEN (wrote + k - size - 1) % ByteMod ELSE data[k]]
      /\ size' = size + n /\ wrote' = (wrote + n) % ByteMod
      /\ UNCHANGED <<rwptr, got, rend, offset>>
  BY <1>2 DEF WriteDone, endVars
<1>4. p # r /\ pc[p] = "iwrite"
  <2>1. pc[p] = "iwrite" /\ p \in wend
    BY DEF WriteDone, At, IInv, PlaceInv, PlaceP
  <2> QED
    BY <2>1, ConstAssumption DEF IInv, TypeOK
<1>5. pc'[r] = pc[r]
  <2>1. pc' = [pc EXCEPT ![p] = "user"] \/ pc' = [pc EXCEPT ![p] = "ilock"]
    BY WriteDoneFacts DEF Return, irelseAndSleep, Bread
  <2>2. r \in Proc
    BY DEF Proc
  <2> QED
    BY <1>4, <2>1, <2>2 DEF IInv, TypeOK
<1>6. Pos(r)' = Pos(r)
  BY <1>3, <1>5 DEF Pos
<1>7. size \in Nat /\ wrote = (b + size) % ByteMod /\ b + size \in Nat
  BY <1>1, ConstAssumption DEF Numbered, IInv, TypeOK
<1>8. wrote' = (b + size') % ByteMod
  <2>1. (b + size) + n = b + (size + n)
    BY <1>2, <1>7
  <2>2. (((b + size) % ByteMod) + n) % ByteMod = ((b + size) + n) % ByteMod
    BY <1>2, <1>7, ByteAdd
  <2> QED
    BY <1>3, <1>7, <2>1, <2>2
<1>9. ASSUME NEW k \in 1..size' PROVE data'[k] = (b + k - 1) % ByteMod
  <2>0. k \in 1..PIPSIZE
    BY <1>2, <1>3, <1>7, ConstAssumption
  <2>1. CASE k <= size
    <3>1. k \in 1..size /\ k \notin (size + 1)..(size + n)
      BY <2>1, <1>2, <1>7
    <3> QED
      BY <3>1, <2>0, <1>1, <1>3 DEF Numbered
  <2>2. CASE k > size
    <3>1. k \in (size + 1)..(size + n) /\ k - size - 1 \in Nat /\ wrote \in Nat
      BY <2>2, <1>2, <1>3, <1>7, ConstAssumption DEF IInv, TypeOK
    <3>2. wrote + k - size - 1 = wrote + (k - size - 1) /\ (b + size) + (k - size - 1) = b + k - 1
      BY <3>1, <1>7
    <3>3. (((b + size) % ByteMod) + (k - size - 1)) % ByteMod = ((b + size) + (k - size - 1)) % ByteMod
      BY <3>1, <1>7, ByteAdd
    <3>4. data'[k] = (wrote + k - size - 1) % ByteMod
      BY <2>0, <3>1, <1>3
    <3> QED
      BY <3>2, <3>3, <3>4, <1>7
  <2> QED
    BY <2>1, <2>2, <1>7, <1>2, <1>3
<1>10. rend' # {} => Pos(r)' <= size' /\ got' = (b + Pos(r)') % ByteMod
  <2>1. Pos(r) \in Nat
    BY ConstAssumption DEF Pos, IInv, TypeOK, Proc
  <2> QED
    BY <1>1, <1>2, <1>3, <1>6, <1>7, <2>1 DEF Numbered
<1> QED
  BY <1>8, <1>9, <1>10 DEF OrderInv, Numbered

\* The file is truncated: there is no reader left.
LEMMA OrderFree ==
  ASSUME IInv, NEW r, OrderInv(r), NEW p \in Proc, ifree(p)
  PROVE  OrderInv(r)'
<1>1. PICK b \in Nat : Numbered(r, b)
  BY DEF OrderInv
<1>2. size' = 0 /\ wrote' = wrote /\ rend' = {}
  BY DEF ifree, At, IInv, PlaceInv, PlaceP
<1>3. PICK c \in Nat : c = b + size
  BY ConstAssumption DEF IInv, TypeOK
<1>4. Numbered(r, c)'
  <2>1. wrote' = (c + size') % ByteMod
    BY <1>1, <1>2, <1>3 DEF Numbered
  <2> QED
    BY <1>2, <2>1 DEF Numbered
<1> QED
  BY <1>4 DEF OrderInv

\* Every step of every process keeps the order, if r gets no signals.
LEMMA OrderStep ==
  ASSUME IInv, NEW r, Readers = {r}, r \notin Signalled, OrderInv(r), NEW p \in Proc, Step(p)
  PROVE  OrderInv(r)'
<1> USE DEF IInv, TypeOK
<1>0. r \in Proc
  BY DEF Proc
<1>1. CASE Eof(p)
  <2>1. pc[p] = "pread" /\ rwptr' = offset[p] /\ pc' = [pc EXCEPT ![p] = "user"]
        /\ UNCHANGED <<wrote, size, data, got, rend>>
    BY <1>1 DEF Eof, At, PreadReturn, Return, Bread, endVars
  <2>2. p = r
    BY <2>1, OnlyReader DEF PlaceInv, PlaceP
  <2> QED
    BY <2>1, <2>2, OrderKept DEF Pos
<1>2. CASE Empty(p) \/ ReadDone(p) \/ WriteDone(p) \/ ifree(p)
  BY <1>2, OrderEmpty, OrderRead, OrderWrite, OrderFree
<1>3. CASE pread(p)
  <2>1. p = r /\ pc[p] = "user" /\ pc'[p] = "ilock" /\ offset'[p] = rwptr
        /\ UNCHANGED <<wrote, size, data, got, rend>>
    BY <1>3 DEF pread, Calls, At, ilock, Goto, pipeVars, endVars
  <2> QED
    BY <2>1, OrderKept DEF Pos
<1>4. CASE close(p)
  <2>1. UNCHANGED <<wrote, size, data, got, rwptr, offset>> /\ rend' \subseteq rend
        /\ (pc' = [pc EXCEPT ![p] = "user"] \/ pc' = [pc EXCEPT ![p] = "ilock"])
    BY <1>4 DEF close, pipeVars, Return, Bread, ilock, Goto
  <2>2. p = r => rend' = {}
    BY <1>4 DEF close
  <2>3. rend' # {} => Pos(r)' = Pos(r)
    BY <1>0, <2>1, <2>2 DEF Pos
  <2> QED
    BY <2>1, <2>3, OrderKept
<1>5. CASE Signal(p)
  <2>1. p # r
    BY <1>5 DEF Signal
  <2> QED
    BY <1>0, <1>5, <2>1, OrderKept DEF Signal, Return, Bread, pipeVars, endVars, Pos
<1>6. CASE LockFree(p) \/ LockBusy(p) \/ LockWoken(p) \/ iread(p) \/ Broken(p) \/ Full(p)
           \/ iwrite(p) \/ idec(p) \/ pwrite(p)
  <2>1. UNCHANGED <<wrote, size, data, got, rwptr, rend, offset>>
    BY <1>6 DEF LockFree, LockBusy, LockWoken, iread, Broken, Full, iwrite, idec, pwrite,
                pipeVars, endVars
  <2>2. CASE p = r /\ rend # {}
    <3>1. pc[r] # "user" /\ pc'[r] # "user"
      <4>1. ~Broken(p) /\ ~pwrite(p)
        BY <2>2, ConstAssumption DEF Broken, pwrite, At, PlaceInv, PlaceP
      <4> QED
        BY <1>0, <1>6, <2>2, <4>1
           DEF LockFree, LockBusy, LockWoken, iread, Full, iwrite, idec, irelseAndSleep, Goto,
               Bread, At
    <3> QED
      BY <2>1, <3>1, OrderKept DEF Pos
  <2>3. CASE p # r
    <3>1. pc'[r] = pc[r]
      BY <1>0, <1>6, <2>3
         DEF LockFree, LockBusy, LockWoken, iread, Broken, Full, iwrite, idec, pwrite, ilock,
             irelseAndSleep, Goto, Bread, Return
    <3> QED
      BY <2>1, <3>1, OrderKept DEF Pos
  <2>4. CASE rend = {}
    BY <2>1, <2>4, OrderKept
  <2> QED
    BY <2>2, <2>3, <2>4
<1> QED
  BY <1>1, <1>2, <1>3, <1>4, <1>5, <1>6 DEF Step, Continue

\* pread gives the bytes in the order pwrite took them, none twice and none left
\* out, for any number of writers, whether they get signals or not.
THEOREM BytesInOrder ==
  ASSUME NEW r, Readers = {r}, r \notin Signalled
  PROVE  Spec => []PipeInOrder
<1>1. Init => OrderInv(r)
  <2> SUFFICES ASSUME Init PROVE OrderInv(r)
    OBVIOUS
  <2>1. 0 % ByteMod = 0
    BY ConstAssumption
  <2>2. Numbered(r, 0)
    BY <2>1 DEF Init, Numbered, Pos, Proc
  <2> QED
    BY <2>2 DEF OrderInv
<1>2. IInv /\ OrderInv(r) /\ [Next]_vars => OrderInv(r)'
  <2> SUFFICES ASSUME IInv, OrderInv(r), [Next]_vars PROVE OrderInv(r)'
    OBVIOUS
  <2>1. ASSUME NEW p \in Proc, Step(p) PROVE OrderInv(r)'
    BY <2>1, OrderStep
  <2>2. CASE UNCHANGED vars
    BY <2>2, OrderKept DEF vars, pipeVars, endVars, Pos
  <2> QED
    BY <2>1, <2>2 DEF Next, Step
<1>3. IInv /\ OrderInv(r) => PipeInOrder
  <2> SUFFICES ASSUME IInv, OrderInv(r), NEW p \in Proc, pc[p] = "iread", NEW k \in 1..Amount(p)
               PROVE  data[offset[p] + k] = (got + k - 1) % ByteMod
    BY DEF PipeInOrder
  <2>1. PICK b \in Nat : Numbered(r, b)
    BY DEF OrderInv
  <2>2. p = r /\ rend # {}
    BY OnlyReader DEF IInv, PlaceInv, PlaceP
  <2>3. offset[p] \in Nat /\ Amount(p) \in Nat /\ offset[p] + Amount(p) <= size /\ size \in Nat
    BY AmountRange, ConstAssumption DEF IInv, TypeOK
  <2>4. k - 1 \in Nat /\ offset[p] + k \in 1..size /\ b + offset[p] \in Nat
    BY <2>3
  <2>5. got = (b + offset[p]) % ByteMod
    BY <2>1, <2>2 DEF Numbered, Pos
  <2>6. data[offset[p] + k] = (b + (offset[p] + k) - 1) % ByteMod
    BY <2>1, <2>4 DEF Numbered
  <2>7. (got + (k - 1)) % ByteMod = ((b + offset[p]) + (k - 1)) % ByteMod
    BY <2>4, <2>5, ByteAdd
  <2>8. got \in Nat
    BY ConstAssumption DEF IInv, TypeOK
  <2>9. got + k - 1 = got + (k - 1) /\ (b + offset[p]) + (k - 1) = b + (offset[p] + k) - 1
    BY <2>3, <2>4, <2>8
  <2> QED
    BY <2>6, <2>7, <2>9
<1> QED
  BY <1>1, <1>2, <1>3, PipeInvariant, PTL DEF Spec
=============================================================================
