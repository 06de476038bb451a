------------------------------ MODULE MwProofs ------------------------------
(***************************************************************************)
(* The hard-disk driver, for any requests, drives and retries and any      *)
(* order of interrupts: type correctness, the bus, the drive, no forgotten *)
(* request, and that the driver is a disk.                                 *)
(***************************************************************************)
EXTENDS Mw, SequenceTheorems, WellFoundedInduction, TLAPS

Active == mwstate \in {"ACTIVE", "LATE", "INTRPT"}

\* The lower half is entered only from an interrupt, and only with a request.
LowerInv ==
  /\ lo # "idle" <=> mwstate = "INTRPT"
  /\ Active => queue # <<>>
  /\ lo = "rwint" => op = "RW"

\* Who has the bus, and who inherits it.
BusInv ==
  /\ bus = "mw" <=> Active
  /\ djcmd # "none" => bus = "dj"
  /\ heir = "mw" => bus = "dj" /\ queue # <<>>
  /\ heir = "dj" => bus = "mw" /\ djq > 0 /\ djcmd = "none"
  /\ queue # <<>> /\ ~Active => heir = "mw"

\* A djint that has made the controller start returns before it is called
\* again, and a floppy driver that has or is given the bus goes on.
ServiceInv ==
  /\ inservice => mwstate \in {"ACTIVE", "LATE"} /\ stat = "BUSY" /\ ~djcall
  /\ bus = "dj" /\ djcmd = "none" => djcall /\ djq > 0
  /\ djq > 0 /\ djcmd = "none" /\ ~djcall => heir = "dj"

\* The drive whose sectors a read or write is about, or was about.
DriveInv ==
  \/ op = "RW" /\ mwstate \in {"ACTIVE", "LATE"}
  \/ lo = "rwint" /\ stat # "NOTRDY"
  \/ lo = "newrw"
  => curdrv = DriveOf[Head(queue)]

\* No request is twice in the queue.
Distinct(q) == \A i, j \in 1..Len(q) : q[i] = q[j] => i = j

\* All sectors of the head have been transferred.
AllMoved == 0..(Count[Head(queue)] - 1) \subseteq moved

\* Which sectors of the head have been transferred.
MovedInv ==
  /\ ~Active => moved = {}
  /\ \/ op = "RW" /\ mwstate \in {"ACTIVE", "LATE"}
     \/ lo = "rwint" /\ stat # "NOTRDY"
     => sec < Count[Head(queue)] /\ moved = 0..(IF stat = "OK" THEN sec ELSE sec - 1)
  /\ \/ op # "RW" /\ mwstate \in {"ACTIVE", "LATE"}
     \/ lo \in {"newdrv", "newrw"}
     => ~AllMoved
  /\ lo = "advque" => Head(queue) \in berror \/ AllMoved

IInv == TypeOK /\ LowerInv /\ BusInv /\ DriveInv /\ Distinct(queue) /\ MovedInv

\* A set of natural numbers that is not empty has a least one.
LEMMA LeastExists ==
  ASSUME NEW T \in SUBSET Nat, T # {}
  PROVE  \E x \in T : \A y \in T : x <= y
<1> DEFINE R == OpToRel(<, Nat)
<1>1. IsWellFoundedOn(R, Nat)
  BY NatLessThanWellFounded
<1>2. PICK x \in T : \A y \in T : ~(<<y, x>> \in R)
  <2> HIDE DEF R
  <2> QED
    BY <1>1, WFMin
<1>3. ASSUME NEW y \in T PROVE x <= y
  <2>1. ~(y < x)
    BY <1>2 DEF OpToRel
  <2> QED
    BY <2>1
<1> QED
  BY <1>3

\* q with r put in after place k.
Inserted(q, k, r) == SubSeq(q, 1, k) \o <<r>> \o SubSeq(q, k + 1, Len(q))

\* Where an element lands that is put into a sequence after place k.
LEMMA InsertedFacts ==
  ASSUME NEW S, NEW q \in Seq(S), NEW r \in S, NEW k \in 1..Len(q)
  PROVE  /\ Inserted(q, k, r) \in Seq(S) /\ Len(Inserted(q, k, r)) = Len(q) + 1
         /\ \A i \in 1..(Len(q) + 1) :
              Inserted(q, k, r)[i] = IF i <= k THEN q[i] ELSE IF i = k + 1 THEN r ELSE q[i - 1]
<1> DEFINE a == SubSeq(q, 1, k)
           c == SubSeq(q, k + 1, Len(q))
           ar == a \o <<r>>
<1>0. Len(q) \in Nat /\ k \in Nat /\ k <= Len(q)
  BY LenProperties
<1>1. /\ a \in Seq(S) /\ Len(a) = k
      /\ \A i \in 1..k : a[i] = q[i]
  BY SubSeqProperties
<1>2. /\ c \in Seq(S) /\ Len(c) = Len(q) - k
      /\ \A i \in 1..(Len(q) - k) : c[i] = q[k + i]
  BY SubSeqProperties
<1>3. <<r>> \in Seq(S) /\ Len(<<r>>) = 1 /\ <<r>>[1] = r
  OBVIOUS
<1> HIDE DEF a, c
<1>4. /\ ar \in Seq(S) /\ Len(ar) = k + 1
      /\ \A i \in 1..(k + 1) : ar[i] = IF i <= k THEN q[i] ELSE r
  BY <1>1, <1>3, ConcatProperties
<1> HIDE DEF ar
<1>5. /\ ar \o c \in Seq(S) /\ Len(ar \o c) = Len(q) + 1
      /\ \A i \in 1..(Len(q) + 1) : (ar \o c)[i] = IF i <= k + 1 THEN ar[i] ELSE c[i - (k + 1)]
  <2>1. /\ ar \o c \in Seq(S) /\ Len(ar \o c) = Len(ar) + Len(c)
        /\ \A i \in 1..(Len(ar) + Len(c)) : (ar \o c)[i] = IF i <= Len(ar) THEN ar[i] ELSE c[i - Len(ar)]
    BY <1>2, <1>4, ConcatProperties
  <2>2. Len(ar) + Len(c) = Len(q) + 1
    BY <1>0, <1>2, <1>4
  <2> QED
    BY <2>1, <2>2, <1>4
<1>6. ASSUME NEW i \in 1..(Len(q) + 1)
      PROVE  (ar \o c)[i] = IF i <= k THEN q[i] ELSE IF i = k + 1 THEN r ELSE q[i - 1]
  <2>1. CASE i <= k + 1
    BY <2>1, <1>4, <1>5
  <2>2. CASE i > k + 1
    <3>1. i - (k + 1) \in 1..(Len(q) - k) /\ k + (i - (k + 1)) = i - 1
      BY <2>2, <1>0
    <3>2. (ar \o c)[i] = c[i - (k + 1)]
      BY <2>2, <1>5
    <3> QED
      <4>1. c[i - (k + 1)] = q[i - 1]
        BY <3>1, <1>2
      <4> QED
        BY <2>2, <3>2, <4>1, <1>0
  <2>3. i <= k + 1 \/ i > k + 1
    BY <1>0
  <2> QED
    BY <2>1, <2>2, <2>3, Zenon
<1> QED
  BY <1>5, <1>6 DEF ar, a, c, Inserted

\* The requests in a queue.
Ran(q) == {q[i] : i \in 1..Len(q)}

\* bsort keeps the head, which the controller is at work on, and adds the new
\* request to the others, once.
LEMMA BsortFacts ==
  ASSUME NEW q \in Seq(Req), q # <<>>, NEW r \in Req, r \notin Ran(q), Distinct(q)
  PROVE  /\ bsort(q, r) \in Seq(Req) /\ bsort(q, r) # <<>>
         /\ Head(bsort(q, r)) = Head(q)
         /\ Ran(bsort(q, r)) = Ran(q) \cup {r}
         /\ Distinct(bsort(q, r))
<1> DEFINE c(i)    == CylOf[q[i]]
           fits(i) == \/ i = Len(q)
                      \/ c(i) <= CylOf[r] /\ CylOf[r] <= c(i + 1)
                      \/ c(i) >= CylOf[r] /\ CylOf[r] >= c(i + 1)
           good(i) == fits(i) /\ \A j \in 1..(i - 1) : ~fits(j)
           k == CHOOSE i \in 1..Len(q) : good(i)
           s == Inserted(q, k, r)
<1>0. Len(q) \in Nat /\ Len(q) >= 1
  BY EmptySeq, LenProperties
<1>1. bsort(q, r) = s
  BY DEF bsort, Inserted
<1>2. k \in 1..Len(q)
  <2> DEFINE T == {i \in 1..Len(q) : fits(i)}
  <2>1. Len(q) \in T /\ T \subseteq Nat
    BY <1>0
  <2>2. PICK x \in T : \A y \in T : x <= y
    <3> HIDE DEF T
    <3> QED
      BY <2>1, LeastExists
  <2>3. x \in 1..Len(q) /\ fits(x)
    OBVIOUS
  <2>4. ASSUME NEW j \in 1..(x - 1), fits(j) PROVE FALSE
    <3>1. j \in T /\ j < x
      BY <2>3, <2>4, <1>0
    <3> QED
      BY <2>2, <3>1
  <2>5. good(x)
    BY <2>3, <2>4
  <2> HIDE DEF good
  <2> QED
    BY <2>3, <2>5
<1> HIDE DEF k
<1>3. /\ s \in Seq(Req) /\ Len(s) = Len(q) + 1
      /\ \A i \in 1..(Len(q) + 1) :
           s[i] = IF i <= k THEN q[i] ELSE IF i = k + 1 THEN r ELSE q[i - 1]
  BY <1>2, InsertedFacts
<1> HIDE DEF s
<1>4. s # <<>> /\ Head(s) = Head(q)
  <2>1. s[1] = q[1]
    BY <1>0, <1>2, <1>3
  <2> QED
    BY <2>1, <1>0, <1>3
<1>5. Ran(s) = Ran(q) \cup {r}
  <2>1. ASSUME NEW i \in 1..Len(s) PROVE s[i] \in Ran(q) \cup {r}
    BY <1>0, <1>2, <1>3 DEF Ran
  <2>2. r \in Ran(s)
    <3>1. k + 1 \in 1..Len(s) /\ s[k + 1] = r
      BY <1>0, <1>2, <1>3
    <3> QED
      BY <3>1 DEF Ran
  <2>3. ASSUME NEW i \in 1..Len(q) PROVE q[i] \in Ran(s)
    <3>1. CASE i <= k
      BY <3>1, <1>0, <1>2, <1>3 DEF Ran
    <3>2. CASE i > k
      <4>1. i + 1 \in 1..Len(s) /\ s[i + 1] = q[i]
        BY <3>2, <1>0, <1>2, <1>3
      <4> QED
        BY <4>1 DEF Ran
    <3> QED
      BY <3>1, <3>2, <1>0, <1>2
  <2> QED
    BY <2>1, <2>2, <2>3 DEF Ran
<1>6. Distinct(s)
  <2> SUFFICES ASSUME NEW i \in 1..Len(s), NEW j \in 1..Len(s), s[i] = s[j] PROVE i = j
    BY DEF Distinct
  <2>1. \A m \in 1..Len(q) : q[m] # r
    BY DEF Ran
  <2>2. \A m, n \in 1..Len(q) : q[m] = q[n] => m = n
    BY DEF Distinct
  <2> QED
    <3>1. CASE i <= k
      <4>1. CASE j <= k
        BY <3>1, <4>1, <1>0, <1>2, <1>3, <2>2
      <4>2. CASE j = k + 1
        BY <3>1, <4>2, <1>0, <1>2, <1>3, <2>1
      <4>3. CASE j > k + 1
        <5>1. i \in 1..Len(q) /\ j - 1 \in 1..Len(q) /\ i # j - 1 /\ s[i] = q[i] /\ s[j] = q[j - 1]
          BY <3>1, <4>3, <1>0, <1>2, <1>3
        <5> QED
          BY <5>1, <2>2
      <4> QED
        BY <4>1, <4>2, <4>3, <1>0, <1>2, <1>3
    <3>2. CASE i = k + 1
      BY <3>2, <1>0, <1>2, <1>3, <2>1
    <3>3. CASE i > k + 1
      <4>0. i - 1 \in 1..Len(q) /\ s[i] = q[i - 1]
        BY <3>3, <1>0, <1>2, <1>3
      <4>1. CASE j <= k
        <5>1. j \in 1..Len(q) /\ i - 1 # j /\ s[j] = q[j]
          BY <3>3, <4>1, <1>0, <1>2, <1>3
        <5> QED
          BY <4>0, <5>1, <2>2
      <4>2. CASE j = k + 1
        <5>1. s[j] = r
          BY <4>2, <1>0, <1>2, <1>3
        <5> QED
          BY <4>0, <5>1, <2>1
      <4>3. CASE j > k + 1
        <5>1. j - 1 \in 1..Len(q) /\ s[j] = q[j - 1]
          BY <4>3, <1>0, <1>2, <1>3
        <5>2. i - 1 = j - 1
          BY <4>0, <5>1, <2>2
        <5> QED
          BY <5>2, <1>3
      <4> QED
        BY <4>1, <4>2, <4>3, <1>0, <1>2, <1>3
    <3> QED
      BY <3>1, <3>2, <3>3, <1>0, <1>2, <1>3
<1> QED
  BY <1>1, <1>3, <1>4, <1>5, <1>6

\* Taking the head off the queue leaves the other requests.
LEMMA TailFacts ==
  ASSUME NEW q \in Seq(Req), q # <<>>, Distinct(q)
  PROVE  /\ Tail(q) \in Seq(Req) /\ Head(q) \in Ran(q) /\ Head(q) \in Req
         /\ Ran(Tail(q)) = Ran(q) \ {Head(q)}
         /\ Distinct(Tail(q))
<1>1. /\ Tail(q) \in Seq(Req) /\ Len(Tail(q)) = Len(q) - 1 /\ Head(q) \in Req
      /\ \A i \in 1..Len(Tail(q)) : Tail(q)[i] = q[i + 1]
  BY HeadTailProperties
<1>2. Len(q) \in Nat /\ Len(q) >= 1 /\ Head(q) = q[1]
  BY EmptySeq, LenProperties
<1>3. Ran(Tail(q)) = Ran(q) \ {Head(q)}
  <2>1. ASSUME NEW i \in 1..Len(Tail(q)) PROVE Tail(q)[i] \in Ran(q) \ {Head(q)}
    <3>1. i + 1 \in 1..Len(q) /\ i + 1 # 1 /\ 1 \in 1..Len(q)
      BY <1>1, <1>2
    <3> QED
      BY <1>1, <1>2, <3>1 DEF Ran, Distinct
  <2>2. ASSUME NEW i \in 1..Len(q), q[i] # Head(q) PROVE q[i] \in Ran(Tail(q))
    <3>1. i - 1 \in 1..Len(Tail(q)) /\ Tail(q)[i - 1] = q[i]
      BY <1>1, <1>2, <2>2
    <3> QED
      BY <3>1 DEF Ran
  <2> QED
    BY <2>1, <2>2 DEF Ran
<1>4. Distinct(Tail(q))
  <2> SUFFICES ASSUME NEW i \in 1..Len(Tail(q)), NEW j \in 1..Len(Tail(q)), Tail(q)[i] = Tail(q)[j]
               PROVE  i = j
    BY DEF Distinct
  <2>1. i + 1 \in 1..Len(q) /\ j + 1 \in 1..Len(q) /\ q[i + 1] = q[j + 1]
    BY <1>1, <1>2
  <2>2. i + 1 = j + 1
    BY <2>1 DEF Distinct
  <2> QED
    BY <2>2, <1>1, <1>2
<1>5. Head(q) \in Ran(q)
  BY <1>2 DEF Ran
<1> QED
  BY <1>1, <1>3, <1>4, <1>5

\* The first request of an idle driver.
LEMMA SingleFacts ==
  ASSUME NEW r \in Req
  PROVE  <<r>> \in Seq(Req) /\ <<r>> # <<>> /\ Head(<<r>>) = r /\ Ran(<<r>>) = {r} /\ Distinct(<<r>>)
<1>1. Len(<<r>>) = 1 /\ <<r>>[1] = r
  OBVIOUS
<1> QED
  BY <1>1 DEF Ran, Distinct

\* What mwstrat does to the queue.
LEMMA EnqueueFacts ==
  ASSUME IInv, NEW r \in Req, Enqueue(r)
  PROVE  /\ queue' \in Seq(Req) /\ queue' # <<>>
         /\ queue # <<>> => Head(queue') = Head(queue)
         /\ Ran(queue') = Ran(queue) \cup {r} /\ r \notin Ran(queue)
         /\ Distinct(queue')
<1>1. r \notin Ran(queue) /\ queue \in Seq(Req) /\ Distinct(queue)
  BY DEF IInv, TypeOK, Enqueue, Queued, Ran
<1>2. CASE queue = <<>>
  <2>1. queue' = <<r>> /\ Ran(queue) = {}
    BY <1>2 DEF Enqueue, Ran
  <2> QED
    BY <2>1, <1>2, SingleFacts
<1>3. CASE queue # <<>>
  <2>1. queue' = bsort(queue, r)
    BY <1>3 DEF Enqueue
  <2> QED
    BY <1>1, <1>3, <2>1, BsortFacts
<1> QED
  BY <1>1, <1>2, <1>3

\* What advque does to it.
LEMMA AnsweredFacts ==
  ASSUME IInv, lo = "advque", Answered
  PROVE  /\ queue # <<>> /\ queue' \in Seq(Req)
         /\ Head(queue) \in Req /\ Head(queue) \in Ran(queue)
         /\ Ran(queue') = Ran(queue) \ {Head(queue)}
         /\ Distinct(queue')
         /\ queue' # <<>> => Head(queue') \in Req
<1>1. queue # <<>> /\ queue \in Seq(Req) /\ Distinct(queue) /\ queue' = Tail(queue)
  BY DEF IInv, TypeOK, LowerInv, Active, Answered
<1>2. queue' \in Seq(Req)
  BY <1>1, TailFacts
<1>3. queue' # <<>> => Head(queue') \in Req
  BY <1>2, HeadTailProperties
<1> QED
  BY <1>1, <1>2, <1>3, TailFacts

\* Whoever is at work has a request, for a drive and with sectors to move.
LEMMA HeadFacts ==
  ASSUME IInv, Active
  PROVE  /\ queue # <<>> /\ Head(queue) \in Req
         /\ DriveOf[Head(queue)] \in Drive /\ Count[Head(queue)] \in Nat \ {0}
<1>1. queue # <<>> /\ queue \in Seq(Req)
  BY DEF IInv, TypeOK, LowerInv
<1>2. Head(queue) \in Req
  BY <1>1, HeadTailProperties
<1> QED
  BY <1>1, <1>2, ConstAssumption

\* A request has a sector, so nothing moved is not all of it; and all of it is
\* not moved before the last sector is.
LEMMA NotAllMoved ==
  ASSUME NEW r \in Req, NEW n \in Nat, n < Count[r]
  PROVE  ~(0..(Count[r] - 1) \subseteq {}) /\ ~(0..(Count[r] - 1) \subseteq 0..(n - 1))
<1>1. Count[r] \in Nat \ {0}
  BY ConstAssumption
<1>2. n \in 0..(Count[r] - 1) /\ n \notin 0..(n - 1)
  BY <1>1
<1> QED
  BY <1>2

\* retry is a UINT8 (and a device's counter stays in its word).
LEMMA LessRetryType == TypeOK => LessRetry \in 0..(RetryMod - 1)
<1>1. ASSUME NEW n \in Int, NEW m \in Nat \ {0} PROVE n % m \in 0..(m - 1)
  OBVIOUS
<1>2. RetryMod \in Nat \ {0}
  BY ConstAssumption
<1>3. TypeOK => retry - 1 \in Int
  BY <1>2 DEF TypeOK
<1> QED
  BY <1>1, <1>2, <1>3 DEF LessRetry

\* Only mwstrat and advque change the queue.
LEMMA QueueStep ==
  ASSUME IInv, Next
  PROVE  Distinct(queue)'
<1> USE DEF IInv, reqVars, Enqueue
<1>1. ASSUME NEW r \in Req, mwstratBeyond(r) PROVE Distinct(queue)'
  BY <1>1 DEF mwstratBeyond
<1>2. ASSUME NEW r \in Req, mwstratBusy(r) PROVE Distinct(queue)'
  BY <1>2, EnqueueFacts DEF mwstratBusy
<1>3. ASSUME NEW r \in Req, mwstratStart(r) PROVE Distinct(queue)'
  BY <1>3, EnqueueFacts DEF mwstratStart
<1>4. ASSUME NEW s \in {"OK", "NOTRDY", "ERR"}, Complete(s) PROVE Distinct(queue)'
  BY <1>4 DEF Complete
<1>5. CASE mwint \/ mwcheckLate \/ mwcheckTooLate \/ rwintNext \/ rwintDone \/ rwintRecal
           \/ rwintRetry \/ rwintFail \/ newdrvCalib \/ newdrvNotReady \/ newdrvHome \/ newrw
           \/ djstrat \/ DjDone \/ djintIgnored \/ djintStart \/ djintStop \/ djintYield
           \/ djintReturn \/ djintNext
  BY <1>5 DEF mwint, mwcheckLate, mwcheckTooLate, rwintNext, rwintDone, rwintRecal, rwintRetry,
           rwintFail, newdrvCalib, newdrvNotReady, newdrvHome, newrw, djstrat, DjDone,
           djintIgnored, djintStart, djintStop, djintYield, djintReturn, djintNext
<1>6. CASE advqueNext
  BY <1>6, AnsweredFacts DEF advqueNext
<1>7. CASE advqueStop
  BY <1>7, AnsweredFacts DEF advqueStop
<1> QED
  BY <1>1, <1>2, <1>3, <1>4, <1>5, <1>6, <1>7
     DEF Next, mwstrat, mwcheck, Lower, rwint, advque, newdrv, djint

\* The lower half is entered from an interrupt and left by issue or mwstop.
LEMMA LowerStep ==
  ASSUME IInv, Next
  PROVE  LowerInv'
<1> USE DEF IInv, TypeOK, issue, mwwait, Started, Enter, Service, Give, busget, busgive, error,
            Select, reqVars, cmdVars,
           drvVars, busVars, djVars,
           LowerInv, BusInv, Active, Enqueue, Answered
<1>1. ASSUME NEW r \in Req, mwstratBeyond(r) PROVE LowerInv'
  BY <1>1 DEF mwstratBeyond
<1>2. ASSUME NEW r \in Req, mwstratBusy(r) PROVE LowerInv'
  BY <1>2, EnqueueFacts DEF mwstratBusy
<1>3. ASSUME NEW r \in Req, mwstratStart(r) PROVE LowerInv'
  BY <1>3, EnqueueFacts DEF mwstratStart
<1>4. ASSUME NEW s \in {"OK", "NOTRDY", "ERR"}, Complete(s) PROVE LowerInv'
  BY <1>4 DEF Complete
<1>5. CASE mwint
  BY <1>5 DEF mwint
<1>6. CASE mwcheckLate
  BY <1>6 DEF mwcheckLate
<1>7. CASE mwcheckTooLate
  BY <1>7 DEF mwcheckTooLate
<1>8. CASE rwintNext
  BY <1>8 DEF rwintNext
<1>9. CASE rwintDone
  BY <1>9 DEF rwintDone
<1>10. CASE rwintRecal
  BY <1>10 DEF rwintRecal
<1>11. CASE rwintRetry
  BY <1>11 DEF rwintRetry
<1>12. CASE rwintFail
  BY <1>12 DEF rwintFail
<1>13. CASE advqueNext
  BY <1>13, AnsweredFacts DEF advqueNext
<1>14. CASE advqueStop
  BY <1>14, AnsweredFacts DEF advqueStop
<1>15. CASE newdrvCalib
  BY <1>15 DEF newdrvCalib
<1>16. CASE newdrvNotReady
  BY <1>16 DEF newdrvNotReady
<1>17. CASE newdrvHome
  BY <1>17 DEF newdrvHome
<1>18. CASE newrw
  BY <1>18 DEF newrw
<1>19. CASE djstrat \/ DjDone \/ djintIgnored \/ djintReturn \/ djintNext
  BY <1>19 DEF djstrat, DjDone, djintIgnored, djintReturn, djintNext
<1>20. CASE djintStart
  BY <1>20 DEF djintStart
<1>21. CASE djintStop
  BY <1>21 DEF djintStop
<1>22. CASE djintYield
  BY <1>22 DEF djintYield
<1> QED
  BY <1>1, <1>2, <1>3, <1>4, <1>5, <1>6, <1>7, <1>8, <1>9, <1>10, <1>11, <1>12, <1>13, <1>14,
     <1>15, <1>16, <1>17, <1>18, <1>19, <1>20, <1>21, <1>22
     DEF Next, mwstrat, mwcheck, Lower, rwint, advque, newdrv, djint

\* busget and busgive hand the bus on, and whoever gets it starts.
LEMMA BusStep ==
  ASSUME IInv, Next
  PROVE  BusInv'
<1> USE DEF IInv, TypeOK, issue, mwwait, Started, Enter, Service, Give, busget, busgive, error,
            Select, reqVars, cmdVars,
           drvVars, busVars, djVars,
           LowerInv, BusInv, Active, Enqueue, UserMode
<1>1. ASSUME NEW r \in Req, mwstratBeyond(r) PROVE BusInv'
  BY <1>1 DEF mwstratBeyond
<1>2. ASSUME NEW r \in Req, mwstratBusy(r) PROVE BusInv'
  BY <1>2, EnqueueFacts DEF mwstratBusy
<1>3. ASSUME NEW r \in Req, mwstratStart(r) PROVE BusInv'
  BY <1>3, EnqueueFacts DEF mwstratStart
<1>4. ASSUME NEW s \in {"OK", "NOTRDY", "ERR"}, Complete(s) PROVE BusInv'
  BY <1>4 DEF Complete
<1>5. CASE mwint
  BY <1>5 DEF mwint
<1>6. CASE mwcheckLate
  BY <1>6 DEF mwcheckLate
<1>7. CASE mwcheckTooLate
  BY <1>7 DEF mwcheckTooLate
<1>8. CASE rwintNext
  BY <1>8 DEF rwintNext
<1>9. CASE rwintDone
  BY <1>9 DEF rwintDone
<1>10. CASE rwintRecal
  BY <1>10 DEF rwintRecal
<1>11. CASE rwintRetry
  BY <1>11 DEF rwintRetry
<1>12. CASE rwintFail
  BY <1>12 DEF rwintFail
<1>13. CASE advqueNext
  BY <1>13, AnsweredFacts DEF advqueNext
<1>14. CASE advqueStop
  <2>1. queue' = <<>> /\ bus = "mw" /\ djcmd = "none" /\ heir # "mw"
    BY <1>14 DEF advqueStop, Answered
  <2>2. bus' \in {"none", "dj"} /\ heir' = "none" /\ djcmd' = djcmd /\ mwstate' = "STOPPED"
    BY <1>14, <2>1 DEF advqueStop
  <2> QED
    BY <2>1, <2>2
<1>15. CASE newdrvCalib
  BY <1>15 DEF newdrvCalib
<1>16. CASE newdrvNotReady
  BY <1>16 DEF newdrvNotReady
<1>17. CASE newdrvHome
  BY <1>17 DEF newdrvHome
<1>18. CASE newrw
  BY <1>18 DEF newrw
<1>19. CASE djstrat \/ DjDone \/ djintIgnored \/ djintReturn \/ djintNext
  BY <1>19 DEF djstrat, DjDone, djintIgnored, djintReturn, djintNext
<1>20. CASE djintStart
  BY <1>20 DEF djintStart
<1>21. CASE djintStop
  BY <1>21 DEF djintStop
<1>22. CASE djintYield
  BY <1>22 DEF djintYield
<1> QED
  BY <1>1, <1>2, <1>3, <1>4, <1>5, <1>6, <1>7, <1>8, <1>9, <1>10, <1>11, <1>12, <1>13, <1>14,
     <1>15, <1>16, <1>17, <1>18, <1>19, <1>20, <1>21, <1>22
     DEF Next, mwstrat, mwcheck, Lower, rwint, advque, newdrv, djint

\* A drive is selected before a read or write is issued, and again when another
\* request comes to the head or the watchdog has reset the controller.
LEMMA DriveStep ==
  ASSUME IInv, Next
  PROVE  DriveInv'
<1> USE DEF IInv, TypeOK, issue, mwwait, Started, Enter, Service, Give, busget, busgive, error,
            Select, reqVars, cmdVars,
           drvVars, busVars, djVars,
           LowerInv, BusInv, DriveInv, Active, Enqueue, Answered
<1>1. ASSUME NEW r \in Req, mwstratBeyond(r) PROVE DriveInv'
  BY <1>1 DEF mwstratBeyond
<1>2. ASSUME NEW r \in Req, mwstratBusy(r) PROVE DriveInv'
  BY <1>2, EnqueueFacts DEF mwstratBusy
<1>3. ASSUME NEW r \in Req, mwstratStart(r) PROVE DriveInv'
  BY <1>3, EnqueueFacts DEF mwstratStart
<1>4. ASSUME NEW s \in {"OK", "NOTRDY", "ERR"}, Complete(s) PROVE DriveInv'
  BY <1>4 DEF Complete
<1>5. CASE mwint
  BY <1>5 DEF mwint
<1>6. CASE mwcheckLate
  BY <1>6 DEF mwcheckLate
<1>7. CASE mwcheckTooLate
  BY <1>7 DEF mwcheckTooLate
<1>8. CASE rwintNext
  BY <1>8 DEF rwintNext
<1>9. CASE rwintDone
  BY <1>9 DEF rwintDone
<1>10. CASE rwintRecal
  BY <1>10 DEF rwintRecal
<1>11. CASE rwintRetry
  BY <1>11 DEF rwintRetry
<1>12. CASE rwintFail
  BY <1>12 DEF rwintFail
<1>13. CASE advqueNext
  BY <1>13, AnsweredFacts DEF advqueNext
<1>14. CASE advqueStop
  BY <1>14, AnsweredFacts DEF advqueStop
<1>15. CASE newdrvCalib
  BY <1>15 DEF newdrvCalib
<1>16. CASE newdrvNotReady
  BY <1>16 DEF newdrvNotReady
<1>17. CASE newdrvHome
  BY <1>17 DEF newdrvHome
<1>18. CASE newrw
  BY <1>18 DEF newrw
<1>19. CASE djstrat \/ DjDone \/ djintIgnored \/ djintReturn \/ djintNext
  BY <1>19 DEF djstrat, DjDone, djintIgnored, djintReturn, djintNext
<1>20. CASE djintStart
  BY <1>20 DEF djintStart
<1>21. CASE djintStop
  BY <1>21 DEF djintStop
<1>22. CASE djintYield
  BY <1>22 DEF djintYield
<1> QED
  BY <1>1, <1>2, <1>3, <1>4, <1>5, <1>6, <1>7, <1>8, <1>9, <1>10, <1>11, <1>12, <1>13, <1>14,
     <1>15, <1>16, <1>17, <1>18, <1>19, <1>20, <1>21, <1>22
     DEF Next, mwstrat, mwcheck, Lower, rwint, advque, newdrv, djint

\* One sector after the other is transferred, from the first one again after a
\* recalibration.
LEMMA MovedStep ==
  ASSUME IInv, Next
  PROVE  MovedInv'
<1> USE DEF IInv, TypeOK, issue, mwwait, Started, Enter, Service, Give, busget, busgive, error,
            Select, reqVars, cmdVars,
           drvVars, busVars, djVars,
           LowerInv, BusInv, MovedInv, Active, Enqueue, Answered, AllMoved
<1>1. ASSUME NEW r \in Req, mwstratBeyond(r) PROVE MovedInv'
  BY <1>1, HeadFacts DEF mwstratBeyond
<1>2. ASSUME NEW r \in Req, mwstratBusy(r) PROVE MovedInv'
  BY <1>2, HeadFacts, EnqueueFacts DEF mwstratBusy
<1>3. ASSUME NEW r \in Req, mwstratStart(r) PROVE MovedInv'
  <2>1. Head(queue') \in Req /\ Count[Head(queue')] \in Nat /\ 0 < Count[Head(queue')]
    BY <1>3, EnqueueFacts, HeadTailProperties, ConstAssumption DEF mwstratStart
  <2>2. moved = {} /\ moved' = {}
    BY <1>3 DEF mwstratStart
  <2>3. ~AllMoved'
    BY <2>1, <2>2, NotAllMoved
  <2>4. CASE bus' = "mw"
    BY <1>3, <2>2, <2>3, <2>4 DEF mwstratStart
  <2>5. CASE bus' # "mw"
    BY <1>3, <2>2, <2>5 DEF mwstratStart
  <2> QED
    BY <2>4, <2>5
<1>4. ASSUME NEW s \in {"OK", "NOTRDY", "ERR"}, Complete(s) PROVE MovedInv'
  <2>1. CASE op = "RW"
    <3>1. sec \in Nat /\ moved = 0..(sec - 1) /\ stat = "BUSY"
      BY <1>4, <2>1 DEF Complete
    <3>2. 0..(sec - 1) \cup {sec} = 0..sec
      BY <3>1
    <3>3. moved' = 0..(IF stat' = "OK" THEN sec' ELSE sec' - 1)
      BY <1>4, <2>1, <3>1, <3>2 DEF Complete
    <3> QED
      BY <1>4, <2>1, <3>3 DEF Complete
  <2>2. CASE op # "RW"
    BY <1>4, <2>2 DEF Complete
  <2> QED
    BY <2>1, <2>2
<1>5. CASE mwint
  BY <1>5, HeadFacts DEF mwint
<1>6. CASE mwcheckLate
  BY <1>6, HeadFacts DEF mwcheckLate
<1>7. CASE mwcheckTooLate
  BY <1>7, HeadFacts DEF mwcheckTooLate
<1>8. CASE rwintNext
  BY <1>8, HeadFacts DEF rwintNext
<1>9. CASE rwintDone
  BY <1>9, HeadFacts DEF rwintDone
<1>10. CASE rwintRecal
  <2>1. moved = 0..(sec - 1) /\ sec \in Nat /\ sec < Count[Head(queue)] /\ Head(queue) \in Req
    BY <1>10, HeadFacts DEF rwintRecal
  <2>2. ~AllMoved
    BY <2>1, NotAllMoved
  <2> QED
    BY <1>10, <2>2 DEF rwintRecal
<1>11. CASE rwintRetry
  BY <1>11, HeadFacts DEF rwintRetry
<1>12. CASE rwintFail
  BY <1>12, HeadFacts DEF rwintFail
<1>13. CASE advqueNext
  <2>1. Head(queue') \in Req /\ moved' = {}
    BY <1>13, AnsweredFacts DEF advqueNext
  <2>2. Count[Head(queue')] \in Nat /\ 0 < Count[Head(queue')]
    BY <2>1, ConstAssumption
  <2>3. ~AllMoved'
    BY <2>1, <2>2, NotAllMoved
  <2> QED
    BY <1>13, <2>3 DEF advqueNext
<1>14. CASE advqueStop
  BY <1>14, HeadFacts, AnsweredFacts DEF advqueStop
<1>15. CASE newdrvCalib
  BY <1>15, HeadFacts DEF newdrvCalib
<1>16. CASE newdrvNotReady
  BY <1>16, HeadFacts DEF newdrvNotReady
<1>17. CASE newdrvHome
  BY <1>17, HeadFacts DEF newdrvHome
<1>18. CASE newrw
  BY <1>18, HeadFacts DEF newrw
<1>19. CASE djstrat \/ DjDone \/ djintIgnored \/ djintReturn \/ djintNext
  BY <1>19, HeadFacts DEF djstrat, DjDone, djintIgnored, djintReturn, djintNext
<1>20. CASE djintStart
  BY <1>20, HeadFacts DEF djintStart
<1>21. CASE djintStop
  <2>1. moved = {} /\ moved' = {} /\ queue' = queue /\ ~Active
    BY <1>21 DEF djintStop
  <2>2. CASE heir = "mw"
    <3>1. Head(queue) \in Req /\ Count[Head(queue)] \in Nat /\ 0 < Count[Head(queue)]
      BY <2>2, HeadTailProperties, ConstAssumption
    <3>2. ~AllMoved'
      BY <2>1, <3>1, NotAllMoved
    <3> QED
      BY <1>21, <2>1, <2>2, <3>2 DEF djintStop
  <2>3. CASE heir # "mw"
    BY <1>21, <2>1, <2>3 DEF djintStop
  <2> QED
    BY <2>2, <2>3
<1>22. CASE djintYield
  <2>1. moved = {} /\ moved' = {} /\ queue' = queue /\ ~Active
    BY <1>22 DEF djintYield
  <2>2. CASE heir = "mw"
    <3>1. Head(queue) \in Req /\ Count[Head(queue)] \in Nat /\ 0 < Count[Head(queue)]
      BY <2>2, HeadTailProperties, ConstAssumption
    <3>2. ~AllMoved'
      BY <2>1, <3>1, NotAllMoved
    <3> QED
      BY <1>22, <2>1, <2>2, <3>2 DEF djintYield
  <2>3. CASE heir # "mw"
    BY <1>22, <2>1, <2>3 DEF djintYield
  <2> QED
    BY <2>2, <2>3
<1> QED
  BY <1>1, <1>2, <1>3, <1>4, <1>5, <1>6, <1>7, <1>8, <1>9, <1>10, <1>11, <1>12, <1>13, <1>14,
     <1>15, <1>16, <1>17, <1>18, <1>19, <1>20, <1>21, <1>22
     DEF Next, mwstrat, mwcheck, Lower, rwint, advque, newdrv, djint

\* Every step keeps the types.
LEMMA TypeStep ==
  ASSUME IInv, Next
  PROVE  TypeOK'
<1> USE DEF IInv, TypeOK, issue, mwwait, Started, Enter, Service, Give, busget, busgive, error,
            Select, reqVars, cmdVars,
           drvVars, busVars, djVars,
           LowerInv, BusInv, DriveInv, Active, Enqueue, Answered
<1>1. ASSUME NEW r \in Req, mwstratBeyond(r) PROVE TypeOK'
  BY <1>1, HeadFacts, ConstAssumption DEF mwstratBeyond
<1>2. ASSUME NEW r \in Req, mwstratBusy(r) PROVE TypeOK'
  BY <1>2, HeadFacts, ConstAssumption, EnqueueFacts DEF mwstratBusy
<1>3. ASSUME NEW r \in Req, mwstratStart(r) PROVE TypeOK'
  BY <1>3, HeadFacts, ConstAssumption, EnqueueFacts DEF mwstratStart
<1>4. ASSUME NEW s \in {"OK", "NOTRDY", "ERR"}, Complete(s) PROVE TypeOK'
  BY <1>4, HeadFacts, ConstAssumption DEF Complete
<1>5. CASE mwint
  BY <1>5, HeadFacts, ConstAssumption DEF mwint
<1>6. CASE mwcheckLate
  BY <1>6, HeadFacts, ConstAssumption DEF mwcheckLate
<1>7. CASE mwcheckTooLate
  BY <1>7, HeadFacts, ConstAssumption DEF mwcheckTooLate
<1>8. CASE rwintNext
  BY <1>8, HeadFacts, ConstAssumption DEF rwintNext
<1>9. CASE rwintDone
  BY <1>9, HeadFacts, ConstAssumption DEF rwintDone
<1>10. CASE rwintRecal
  <2>1. curdrv \in Drive
    BY <1>10, HeadFacts DEF rwintRecal
  <2> QED
    BY <1>10, <2>1, LessRetryType DEF rwintRecal
<1>11. CASE rwintRetry
  BY <1>11, LessRetryType DEF rwintRetry
<1>12. CASE rwintFail
  BY <1>12, HeadFacts, LessRetryType DEF rwintFail
<1>13. CASE advqueNext
  BY <1>13, HeadFacts, ConstAssumption, AnsweredFacts DEF advqueNext
<1>14. CASE advqueStop
  BY <1>14, HeadFacts, ConstAssumption, AnsweredFacts DEF advqueStop
<1>15. CASE newdrvCalib
  BY <1>15, HeadFacts, ConstAssumption DEF newdrvCalib
<1>16. CASE newdrvNotReady
  BY <1>16, HeadFacts, ConstAssumption DEF newdrvNotReady
<1>17. CASE newdrvHome
  BY <1>17, HeadFacts, ConstAssumption DEF newdrvHome
<1>18. CASE newrw
  BY <1>18, HeadFacts, ConstAssumption DEF newrw
<1>19. CASE djstrat
  BY <1>19, HeadFacts, ConstAssumption DEF djstrat
<1>20. CASE DjDone
  BY <1>20, HeadFacts, ConstAssumption DEF DjDone
<1>21. CASE djintIgnored
  <2>1. djcall' \in BOOLEAN /\ inservice' \in BOOLEAN
    BY <1>21 DEF djintIgnored
  <2>2. UNCHANGED <<reqVars, mwstate, lo, cmdVars, drvVars, busVars, djq, djcmd>>
    BY <1>21 DEF djintIgnored
  <2> QED
    BY <2>1, <2>2
<1>22. CASE djintStart
  <2>1. djq' \in 0..MaxDj /\ djcmd' \in {"none", "busy", "done"}
    BY <1>22, ConstAssumption DEF djintStart
  <2>2. bus' \in {"none", "mw", "dj"} /\ heir' \in {"none", "mw", "dj"}
    BY <1>22 DEF djintStart
  <2> QED
    BY <1>22, <2>1, <2>2 DEF djintStart
<1>23. CASE djintStop
  BY <1>23, HeadFacts, ConstAssumption DEF djintStop
<1>24. CASE djintYield
  BY <1>24, HeadFacts, ConstAssumption DEF djintYield
<1>25. CASE djintReturn
  <2>1. djcall' \in BOOLEAN /\ inservice' \in BOOLEAN
    BY <1>25 DEF djintReturn
  <2>2. UNCHANGED <<reqVars, mwstate, lo, cmdVars, drvVars, busVars, djq, djcmd>>
    BY <1>25 DEF djintReturn
  <2> QED
    BY <2>1, <2>2
<1>26. CASE djintNext
  <2>1. djq' \in 0..MaxDj
    BY <1>26, ConstAssumption DEF djintNext
  <2> QED
    BY <1>26, <2>1 DEF djintNext
<1> QED
  BY <1>1, <1>2, <1>3, <1>4, <1>5, <1>6, <1>7, <1>8, <1>9, <1>10, <1>11, <1>12, <1>13, <1>14,
     <1>15, <1>16, <1>17, <1>18, <1>19, <1>20, <1>21, <1>22, <1>23, <1>24, <1>25, <1>26
     DEF Next, mwstrat, mwcheck, Lower, rwint, advque, newdrv, djint

\* An interrupt that comes after djint has returned finds the floppy driver ready.
LEMMA ServiceStep ==
  ASSUME IInv, ServiceInv, ~Prompt, Next
  PROVE  ServiceInv'
<1> USE DEF IInv, TypeOK, issue, mwwait, Started, Enter, Service, Give, busget, busgive, error,
            Select, reqVars, cmdVars,
           drvVars, busVars, djVars,
           LowerInv, BusInv, ServiceInv, Active, Enqueue, UserMode
<1>1. ASSUME NEW r \in Req, mwstratBeyond(r) PROVE ServiceInv'
  BY <1>1 DEF mwstratBeyond
<1>2. ASSUME NEW r \in Req, mwstratBusy(r) PROVE ServiceInv'
  BY <1>2, EnqueueFacts DEF mwstratBusy
<1>3. ASSUME NEW r \in Req, mwstratStart(r) PROVE ServiceInv'
  BY <1>3, EnqueueFacts DEF mwstratStart
<1>4. ASSUME NEW s \in {"OK", "NOTRDY", "ERR"}, Complete(s) PROVE ServiceInv'
  BY <1>4 DEF Complete
<1>5. CASE mwint
  BY <1>5 DEF mwint
<1>6. CASE mwcheckLate
  BY <1>6 DEF mwcheckLate
<1>7. CASE mwcheckTooLate
  BY <1>7 DEF mwcheckTooLate
<1>8. CASE rwintNext
  BY <1>8 DEF rwintNext
<1>9. CASE rwintDone
  BY <1>9 DEF rwintDone
<1>10. CASE rwintRecal
  BY <1>10 DEF rwintRecal
<1>11. CASE rwintRetry
  BY <1>11 DEF rwintRetry
<1>12. CASE rwintFail
  BY <1>12 DEF rwintFail
<1>13. CASE advqueNext
  BY <1>13, AnsweredFacts DEF advqueNext
<1>14. CASE advqueStop
  BY <1>14, AnsweredFacts DEF advqueStop
<1>15. CASE newdrvCalib
  BY <1>15 DEF newdrvCalib
<1>16. CASE newdrvNotReady
  BY <1>16 DEF newdrvNotReady
<1>17. CASE newdrvHome
  BY <1>17 DEF newdrvHome
<1>18. CASE newrw
  BY <1>18 DEF newrw
<1>19. CASE djstrat \/ DjDone \/ djintIgnored \/ djintReturn \/ djintNext
  BY <1>19 DEF djstrat, DjDone, djintIgnored, djintReturn, djintNext
<1>20. CASE djintStart
  BY <1>20 DEF djintStart
<1>21. CASE djintStop
  BY <1>21 DEF djintStop
<1>22. CASE djintYield
  BY <1>22 DEF djintYield
<1> QED
  BY <1>1, <1>2, <1>3, <1>4, <1>5, <1>6, <1>7, <1>8, <1>9, <1>10, <1>11, <1>12, <1>13, <1>14,
     <1>15, <1>16, <1>17, <1>18, <1>19, <1>20, <1>21, <1>22
     DEF Next, mwstrat, mwcheck, Lower, rwint, advque, newdrv, djint

\* The driver starts with nothing to do.
LEMMA InitIInv == Init => IInv /\ ServiceInv
<1> SUFFICES ASSUME Init PROVE IInv /\ ServiceInv
  OBVIOUS
<1>1. TypeOK
  <2>1. queue \in Seq(Req) /\ retry \in 0..(RetryMod - 1) /\ djq \in 0..MaxDj
    BY ConstAssumption DEF Init
  <2> QED
    BY <2>1 DEF Init, TypeOK
<1>2. LowerInv /\ BusInv /\ DriveInv /\ MovedInv /\ ServiceInv
  BY DEF Init, LowerInv, BusInv, DriveInv, MovedInv, ServiceInv, Active
<1>3. Distinct(queue)
  BY DEF Init, Distinct
<1> QED
  BY <1>1, <1>2, <1>3 DEF IInv

\* Every step keeps the inductive invariant.
LEMMA NextIInv == IInv /\ [Next]_vars => IInv'
<1> SUFFICES ASSUME IInv, [Next]_vars PROVE IInv'
  OBVIOUS
<1>1. CASE Next
  BY <1>1, TypeStep, LowerStep, BusStep, DriveStep, QueueStep, MovedStep DEF IInv
<1>2. CASE UNCHANGED vars
  BY <1>2 DEF vars, reqVars, cmdVars, drvVars, busVars, djVars, IInv, TypeOK, LowerInv, BusInv,
              DriveInv, Distinct, MovedInv, AllMoved, Active
<1> QED
  BY <1>1, <1>2

\* The inductive invariant holds in every state the driver can get into.
THEOREM DriverInvariant == Spec => []IInv
  BY InitIInv, NextIInv, PTL DEF Spec

\* Type correctness of the driver.
THEOREM TypeCorrect == Spec => []TypeOK
  BY DriverInvariant, PTL DEF IInv

\* The two controllers that share the bus are never at work at the same time.
THEOREM BusIsExclusive == Spec => []BusExclusive
<1>1. IInv => BusExclusive
  BY DEF IInv, BusInv, BusExclusive, Active
<1> QED
  BY <1>1, DriverInvariant, PTL

\* A read or write goes to the drive of the request at the head of the queue.
THEOREM DriveIsRight == Spec => []RightDrive
<1>1. IInv => RightDrive
  BY DEF IInv, LowerInv, DriveInv, RightDrive, Active
<1> QED
  BY <1>1, DriverInvariant, PTL

\* No request is forgotten, if the controller does not answer before the djint
\* that has given it the bus has returned.
THEOREM NoneForgotten ==
  ASSUME ~Prompt
  PROVE  Spec => []NotForgotten
<1>1. IInv /\ ServiceInv /\ [Next]_vars => ServiceInv'
  <2> SUFFICES ASSUME IInv, ServiceInv, [Next]_vars PROVE ServiceInv'
    OBVIOUS
  <2>1. CASE Next
    BY <2>1, ServiceStep
  <2>2. CASE UNCHANGED vars
    BY <2>2 DEF vars, cmdVars, busVars, djVars, ServiceInv
  <2> QED
    BY <2>1, <2>2
<1>2. IInv /\ ServiceInv => NotForgotten
  BY DEF IInv, TypeOK, BusInv, ServiceInv, NotForgotten, Active
<1> QED
  BY <1>1, <1>2, InitIInv, DriverInvariant, PTL DEF Spec
-----------------------------------------------------------------------------
(***************************************************************************)
(* The driver implements Disk.                                             *)
(***************************************************************************)
\* The request all of whose sectors have been transferred.
Moved == IF queue # <<>> /\ AllMoved THEN {Head(queue)} ELSE {}

\* What a disk shows of the driver.
Shown == <<Ran(queue), Moved, answer>>

\* mwstrat hands a request to the disk.
LEMMA StratStep ==
  ASSUME IInv, NEW r \in Req, Enqueue(r)
  PROVE  D!Strat(r)
<1>1. r \notin Ran(queue) /\ Ran(queue)' = Ran(queue) \cup {r}
  BY EnqueueFacts
<1>2. moved' = moved /\ answer' = answer
  BY DEF Enqueue
<1>3. Moved' = Moved
  <2>1. CASE queue # <<>>
    BY <1>2, <2>1, EnqueueFacts DEF Moved, AllMoved
  <2>2. CASE queue = <<>>
    <3>1. moved = {}
      BY <2>2 DEF IInv, LowerInv, MovedInv
    <3>2. Head(queue') \in Req
      BY EnqueueFacts, HeadTailProperties
    <3>3. Count[Head(queue')] \in Nat /\ 0 < Count[Head(queue')]
      BY <3>2, ConstAssumption
    <3> QED
      BY <1>2, <2>2, <3>1, <3>2, <3>3, NotAllMoved DEF Moved, AllMoved
  <2> QED
    BY <2>1, <2>2
<1> QED
  BY <1>1, <1>2, <1>3 DEF D!Strat, Ran, Moved, AllMoved

\* A sector is transferred: if it was the last one, the request is.
LEMMA TransferStep ==
  ASSUME IInv, NEW s, Complete(s)
  PROVE  (\E r \in Req : D!Transfer(r)) \/ UNCHANGED Shown
<1>1. queue # <<>> /\ Head(queue) \in Req /\ Active
  BY HeadFacts DEF Complete, Active
<1>2. Head(queue) \in Ran(queue)
  BY <1>1, TailFacts DEF IInv, TypeOK
<1>3. queue' = queue /\ answer' = answer /\ moved \subseteq moved'
  BY DEF Complete
<1>4. CASE AllMoved \/ ~AllMoved'
  <2>1. AllMoved' <=> AllMoved
    BY <1>3, <1>4 DEF AllMoved
  <2> QED
    BY <1>3, <2>1 DEF Shown, Moved, Ran
<1>5. CASE ~AllMoved /\ AllMoved'
  <2>1. Moved = {} /\ Moved' = {Head(queue)} /\ Ran(queue)' = Ran(queue)
    BY <1>1, <1>3, <1>5 DEF Moved, Ran
  <2>2. D!Transfer(Head(queue))
    BY <1>2, <1>3, <2>1 DEF D!Transfer, Ran, Moved, AllMoved
  <2> QED
    BY <1>1, <2>2
<1> QED
  BY <1>4, <1>5

\* advque answers the head, and without an error only if all of it was moved.
LEMMA IodoneStep ==
  ASSUME IInv, lo = "advque", Answered
  PROVE  \E r \in Req : D!Iodone(r, "ok") \/ D!Iodone(r, "error")
<1> DEFINE h == Head(queue)
           a == IF h \in berror THEN "error" ELSE "ok"
<1>1. /\ queue # <<>> /\ h \in Req /\ h \in Ran(queue)
      /\ Ran(queue)' = Ran(queue) \ {h} /\ (queue' # <<>> => Head(queue') \in Req)
  BY AnsweredFacts
<1>2. answer' = <<h, a>> /\ moved' = {}
  BY DEF Answered
<1>3. a = "ok" => Moved = {h}
  BY <1>1 DEF IInv, MovedInv, Moved
<1>4. Moved' = {}
  <2>1. queue' # <<>> => Count[Head(queue')] \in Nat /\ 0 < Count[Head(queue')]
    BY <1>1, ConstAssumption
  <2> QED
    BY <1>1, <1>2, <2>1, NotAllMoved DEF Moved, AllMoved
<1>5. Moved \ {h} = {}
  BY DEF Moved
<1>6. ASSUME NEW b, answer' = <<h, b>>, b = "ok" => h \in Moved PROVE D!Iodone(h, b)
  BY <1>1, <1>4, <1>5, <1>6 DEF D!Iodone, Ran, Moved, AllMoved
<1> QED
  BY <1>1, <1>2, <1>3, <1>6

\* Every step of the driver is a step of a disk or shows nothing.
LEMMA DiskStep ==
  ASSUME IInv, Next
  PROVE  D!Next \/ UNCHANGED Shown
<1>1. ASSUME NEW r \in Req, mwstratBeyond(r) PROVE D!Next
  <2>1. D!Refuse(r)
    BY <1>1 DEF mwstratBeyond, Queued, D!Refuse
  <2> QED
    BY <2>1 DEF D!Next
<1>2. ASSUME NEW r \in Req, mwstratBusy(r) \/ mwstratStart(r) PROVE D!Next
  BY <1>2, StratStep DEF mwstratBusy, mwstratStart, D!Next
<1>3. ASSUME NEW s \in {"OK", "NOTRDY", "ERR"}, Complete(s) PROVE D!Next \/ UNCHANGED Shown
  BY <1>3, TransferStep DEF D!Next
<1>4. CASE advqueNext \/ advqueStop
  BY <1>4, IodoneStep DEF advqueNext, advqueStop, D!Next
<1>5. CASE newrw
  <2>1. lo = "newrw" /\ moved' = {} /\ queue' = queue /\ answer' = answer
    BY <1>5 DEF newrw
  <2>2. Head(queue) \in Req /\ Count[Head(queue)] \in Nat /\ 0 < Count[Head(queue)]
    BY <2>1, HeadFacts DEF IInv, LowerInv, Active
  <2>3. ~AllMoved /\ ~AllMoved'
    BY <2>1, <2>2, NotAllMoved DEF IInv, MovedInv, AllMoved
  <2> QED
    BY <2>1, <2>3 DEF Shown, Moved, Ran
<1>6. CASE \/ mwint \/ mwcheck \/ rwint \/ newdrv
           \/ djstrat \/ DjDone \/ djint
  <2>1. UNCHANGED <<queue, answer, moved>>
    BY <1>6 DEF mwint, mwcheck, mwcheckLate, mwcheckTooLate, rwint, rwintNext, rwintDone,
                rwintRecal,
                rwintRetry, rwintFail, newdrv, newdrvCalib, newdrvNotReady, newdrvHome, djstrat,
                DjDone, djint, djintIgnored, djintStart, djintStop, djintYield, djintReturn,
                djintNext, reqVars
  <2> QED
    BY <2>1 DEF Shown, Moved, AllMoved, Ran
<1> QED
  BY <1>1, <1>2, <1>3, <1>4, <1>5, <1>6 DEF Next, mwstrat, Lower, advque

\* The driver is a disk: every request it is handed is answered once, and never
\* without an error before its last sector has been transferred, whatever the
\* controller, the watchdog and the floppy driver do.
THEOREM DriverIsDisk == Spec => Implements
<1>1. Init => D!Init
  BY DEF Init, D!Init
<1>2. IInv /\ [Next]_vars => [D!Next]_(D!vars)
  <2> SUFFICES ASSUME IInv, [Next]_vars PROVE [D!Next]_(D!vars)
    OBVIOUS
  <2>1. CASE Next
    <3>1. UNCHANGED Shown => UNCHANGED D!vars
      BY DEF Shown, Moved, AllMoved, Ran, D!vars
    <3> QED
      BY <2>1, <3>1, DiskStep
  <2>2. CASE UNCHANGED vars
    BY <2>2 DEF vars, reqVars, D!vars
  <2> QED
    BY <2>1, <2>2
<1> QED
  BY <1>1, <1>2, DriverInvariant, PTL DEF Spec, Implements, D!Spec
=============================================================================
