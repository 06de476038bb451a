------------------------------ MODULE TtyProofs ------------------------------
(***************************************************************************)
(* Proofs about Tty, for any number of processes and any sizes of queues   *)
(* and cblocks.  First the arithmetic of cblocks (sys/queue.c) and the type*)
(* invariant; then that output goes on by itself; then that no reader      *)
(* sleeps while there is a line to read.                                   *)
(***************************************************************************)
EXTENDS Tty, FiniteSetTheorems, TLAPS

(***************************************************************************)
(* Arithmetic of cblocks.                                                  *)
(***************************************************************************)
Ceil(a) == (a + BSIZE - 1) \div BSIZE

\* Ceil(a) cblocks hold a characters, and no fewer do.
LEMMA CeilIs ==
  ASSUME NEW a \in Nat
  PROVE  /\ Ceil(a) \in Nat
         /\ a <= BSIZE * Ceil(a)
         /\ BSIZE * Ceil(a) <= a + BSIZE - 1
<1>1. BSIZE \in Nat \ {0}
  BY ConstAssumption
<1> DEFINE b == a + BSIZE - 1
<1>2. b \in Nat
  BY <1>1
<1> QED
  BY <1>1, <1>2 DEF Ceil

\* A common factor can be dropped from an inequality.
LEMMA Times ==
  ASSUME NEW b \in Nat \ {0}, NEW x \in Int, NEW y \in Int, b * x < b * (y + 1)
  PROVE  x <= y
OBVIOUS

\* Ceil is the least number of cblocks that is enough.
LEMMA CeilLeast ==
  ASSUME NEW a \in Nat, NEW c \in Nat, a <= BSIZE * c
  PROVE  Ceil(a) <= c
<1>1. BSIZE \in Nat \ {0}
  BY ConstAssumption
<1>2. Ceil(a) \in Nat /\ BSIZE * Ceil(a) <= a + BSIZE - 1
  BY CeilIs
<1>3. BSIZE * (c + 1) = BSIZE * c + BSIZE /\ BSIZE * c \in Int /\ BSIZE * Ceil(a) \in Int
  BY <1>1, <1>2
<1>4. BSIZE * Ceil(a) < BSIZE * (c + 1)
  BY <1>1, <1>2, <1>3
<1> QED
  BY <1>1, <1>2, <1>4, Times

\* What is left of the last of them.
LEMMA SlackIs ==
  ASSUME NEW a \in Nat
  PROVE  (BSIZE - (a % BSIZE)) % BSIZE = BSIZE * Ceil(a) - a
<1>1. BSIZE \in Nat \ {0}
  BY ConstAssumption
<1> DEFINE q == a \div BSIZE
           r == a % BSIZE
           c == Ceil(a)
<1>2. q \in Nat /\ r \in 0 .. BSIZE - 1 /\ a = BSIZE * q + r
  BY <1>1
<1>3. c \in Nat /\ a <= BSIZE * c /\ BSIZE * c <= a + BSIZE - 1
  BY CeilIs
<1> HIDE DEF q, r, c
<1>4. CASE r = 0
  <2>1. (BSIZE - r) % BSIZE = 0
    BY <1>1, <1>4
  <2>2. BSIZE * c < BSIZE * (q + 1) /\ BSIZE * q < BSIZE * (c + 1)
    BY <1>1, <1>2, <1>3, <1>4
  <2>3. c = q
    BY <1>1, <1>2, <1>3, <2>2, Times
  <2> QED
    BY <1>1, <1>2, <1>4, <2>1, <2>3 DEF r, c
<1>5. CASE r # 0
  <2>1. BSIZE - r \in 0 .. BSIZE - 1
    BY <1>1, <1>2, <1>5
  <2>2. (BSIZE - r) % BSIZE = BSIZE - r
    BY <1>1, <2>1
  <2>3. BSIZE * c < BSIZE * ((q + 1) + 1) /\ BSIZE * (q + 1) < BSIZE * (c + 1)
    BY <1>1, <1>2, <1>3, <1>5
  <2>4. c <= q + 1 /\ q + 1 <= c
    BY <1>1, <1>2, <1>3, <2>3, Times
  <2>5. c = q + 1
    BY <1>2, <1>3, <2>4
  <2> QED
    BY <1>1, <1>2, <2>2, <2>5 DEF r, c
<1> QED
  BY <1>4, <1>5

(***************************************************************************)
(* Queues.                                                                 *)
(***************************************************************************)
QOK(q) ==
  /\ q \in [chars : Seq({"x", "n"}), skip : 0 .. BSIZE]
  /\ count(q) <= TTYHOG
  /\ q.chars = <<>> => q.skip = 0

\* What a good queue is made of.
LEMMA QFacts ==
  ASSUME NEW q, QOK(q)
  PROVE  /\ q.chars \in Seq({"x", "n"}) /\ count(q) \in Nat /\ count(q) <= TTYHOG
         /\ q.skip \in 0 .. BSIZE /\ Filled(q) \in Nat
         /\ Blocks(q) \in Nat /\ Blocks(q) = Ceil(Filled(q))
         /\ Slack(q) = BSIZE * Blocks(q) - Filled(q)
         /\ (count(q) = 0) <=> (q.chars = <<>>)
<1>0. BSIZE \in Nat \ {0} /\ TTYHOG \in Nat
  BY ConstAssumption
<1>1. /\ q.chars \in Seq({"x", "n"}) /\ count(q) \in Nat /\ count(q) <= TTYHOG
      /\ q.skip \in 0 .. BSIZE /\ (count(q) = 0 <=> q.chars = <<>>)
  BY <1>0 DEF QOK, count
<1>2. Filled(q) \in Nat
  BY <1>0, <1>1 DEF Filled
<1>3. CASE q.chars = <<>>
  <2>1. Filled(q) = 0
    BY <1>0, <1>1, <1>3 DEF Filled, QOK
  <2>2. Ceil(0) <= 0 /\ Ceil(0) \in Nat
    BY <1>0, CeilLeast, CeilIs
  <2>3. Ceil(0) = 0
    BY <2>2
  <2> QED
    BY <1>0, <1>1, <1>3, <2>1, <2>3 DEF Blocks, Slack
<1>4. CASE q.chars # <<>>
  <2>1. Blocks(q) = Ceil(Filled(q))
    BY <1>4 DEF Blocks, Ceil
  <2>2. Slack(q) = BSIZE * Ceil(Filled(q)) - Filled(q)
    BY <1>2, <1>4, SlackIs DEF Slack
  <2> QED
    BY <1>1, <1>2, <2>1, <2>2, CeilIs
<1> QED
  BY <1>3, <1>4

\* An empty queue holds no cblock.
LEMMA EmptyOK == QOK(Empty) /\ Blocks(Empty) = 0 /\ count(Empty) = 0
<1>1. TTYHOG \in Nat /\ BSIZE \in Nat
  BY ConstAssumption
<1> QED
  BY <1>1 DEF QOK, Empty, Blocks, count

\* m characters more, for which there are cblocks.
LEMMA GrowsOK ==
  ASSUME NEW q, QOK(q), NEW r, NEW m \in Nat, NEW f \in Nat,
         r \in [chars : Seq({"x", "n"}), skip : 0 .. BSIZE],
         r.skip = q.skip, count(r) = count(q) + m,
         m <= TTYHOG - count(q), m <= Slack(q) + BSIZE * f
  PROVE  QOK(r) /\ Blocks(r) <= Blocks(q) + f
<1>0. BSIZE \in Nat \ {0} /\ TTYHOG \in Nat
  BY ConstAssumption
<1>1. /\ count(q) \in Nat /\ Filled(q) \in Nat /\ Blocks(q) \in Nat
      /\ Slack(q) = BSIZE * Blocks(q) - Filled(q)
      /\ (count(q) = 0 <=> q.chars = <<>>)
  BY QFacts
<1>2. r.chars \in Seq({"x", "n"}) /\ (r.chars = <<>> <=> count(r) = 0)
  BY DEF count
<1>3. QOK(r)
  BY <1>0, <1>1, <1>2 DEF QOK
<1>4. Filled(r) = Filled(q) + m
  BY <1>0, <1>1, <1>2 DEF Filled, QOK
<1>5. Blocks(r) = Ceil(Filled(r))
  BY <1>3, QFacts
<1>6. BSIZE * (Blocks(q) + f) = BSIZE * Blocks(q) + BSIZE * f
  BY <1>0, <1>1
<1>7. BSIZE * Blocks(q) \in Int /\ BSIZE * f \in Int
  BY <1>0, <1>1
<1>8. Filled(r) <= BSIZE * (Blocks(q) + f)
  BY <1>1, <1>4, <1>6, <1>7
<1> QED
  BY <1>1, <1>3, <1>4, <1>5, <1>8, CeilLeast

\* putc keeps to the limit of the queue and to the free cblocks.
LEMMA PutcOK ==
  ASSUME NEW q, NEW a, NEW b, NEW c \in {"x", "n"},
         QOK(q), QOK(a), QOK(b), others \in Nat, cfree(q, a, b) >= 0
  PROVE  QOK(putc(q, c, a, b)) /\ cfree(putc(q, c, a, b), a, b) >= 0
<1>0. BSIZE \in Nat \ {0} /\ TTYHOG \in Nat /\ NBLOCKS \in Nat
  BY ConstAssumption
<1>1. /\ count(q) \in Nat /\ Blocks(q) \in Nat /\ Blocks(a) \in Nat /\ Blocks(b) \in Nat
      /\ q.chars \in Seq({"x", "n"}) /\ Slack(q) \in Int /\ count(q) <= TTYHOG
  BY <1>0, QFacts
<1>2. cfree(q, a, b) \in Nat
  BY <1>0, <1>1 DEF cfree
<1> DEFINE f == cfree(q, a, b)
<1>3. CASE Room(q, a, b) > 0
  <2> DEFINE r == Append1(q, c)
  <2>0. Append(q.chars, c) \in Seq({"x", "n"}) /\ Len(Append(q.chars, c)) = Len(q.chars) + 1
    BY <1>1
  <2>1. r.chars = Append(q.chars, c) /\ r.skip = q.skip
    BY DEF Append1, QOK
  <2>2. r.chars \in Seq({"x", "n"}) /\ Len(r.chars) = Len(q.chars) + 1
    BY <2>0, <2>1
  <2>2a. count(r) = count(q) + 1
    BY <2>2 DEF count
  <2>2b. r \in [chars : Seq({"x", "n"}), skip : 0 .. BSIZE] /\ r.skip = q.skip
    BY <2>0, <2>1 DEF QOK, Append1
  <2>3. BSIZE * f \in Int
    BY <1>0, <1>2
  <2>4. 1 <= TTYHOG - count(q) /\ 1 <= Slack(q) + BSIZE * f
    BY <1>0, <1>1, <1>3, <2>3 DEF Room, Min
  <2> HIDE DEF r
  <2>5. QOK(r) /\ Blocks(r) <= Blocks(q) + f
    BY <1>2, <2>2a, <2>2b, <2>4, GrowsOK
  <2>6. Blocks(r) \in Nat
    BY <2>5, QFacts
  <2>7. cfree(r, a, b) >= 0
    BY <1>0, <1>1, <2>5, <2>6 DEF cfree
  <2> QED
    BY <1>3, <2>5, <2>7 DEF putc, r
<1>4. CASE ~(Room(q, a, b) > 0)
  BY <1>4 DEF putc
<1> QED
  BY <1>3, <1>4

\* So does fillque, which puts no more than there is room for.
LEMMA FillOK ==
  ASSUME NEW q, NEW a, NEW b, NEW m \in Nat, m <= Room(q, a, b),
         QOK(q), QOK(a), QOK(b), others \in Nat, cfree(q, a, b) >= 0
  PROVE  QOK(Fill(q, m)) /\ cfree(Fill(q, m), a, b) >= 0
<1>0. BSIZE \in Nat \ {0} /\ TTYHOG \in Nat /\ NBLOCKS \in Nat
  BY ConstAssumption
<1>1. /\ count(q) \in Nat /\ Blocks(q) \in Nat /\ Blocks(a) \in Nat /\ Blocks(b) \in Nat
      /\ q.chars \in Seq({"x", "n"}) /\ Slack(q) \in Int /\ count(q) <= TTYHOG
  BY <1>0, QFacts
<1>2. cfree(q, a, b) \in Nat
  BY <1>0, <1>1 DEF cfree
<1> DEFINE f == cfree(q, a, b)
           e == [k \in 1 .. m |-> "x"]
           r == Fill(q, m)
<1>3. e \in Seq({"x", "n"}) /\ Len(e) = m
  OBVIOUS
<1> HIDE DEF e
<1>3a. q.chars \o e \in Seq({"x", "n"}) /\ Len(q.chars \o e) = Len(q.chars) + m
  BY <1>1, <1>3
<1>4. r.chars = q.chars \o e /\ r.skip = q.skip
  BY DEF Fill, QOK, e
<1>5. r.chars \in Seq({"x", "n"}) /\ Len(r.chars) = Len(q.chars) + m
  BY <1>3a, <1>4
<1>6. count(r) = count(q) + m
  BY <1>5 DEF count
<1>7. r \in [chars : Seq({"x", "n"}), skip : 0 .. BSIZE] /\ r.skip = q.skip
  BY <1>3a, <1>4 DEF QOK, Fill, e
<1>8. BSIZE * f \in Int
  BY <1>0, <1>2
<1>9. m <= TTYHOG - count(q) /\ m <= Slack(q) + BSIZE * f
  BY <1>0, <1>1, <1>8 DEF Room, Min
<1> HIDE DEF r
<1>10. QOK(r) /\ Blocks(r) <= Blocks(q) + f
  BY <1>2, <1>6, <1>7, <1>9, GrowsOK
<1>11. Blocks(r) \in Nat
  BY <1>10, QFacts
<1>12. cfree(r, a, b) >= 0
  BY <1>0, <1>1, <1>10, <1>11 DEF cfree
<1> QED
  BY <1>10, <1>12 DEF r

\* Taking characters needs no cblock.
LEMMA TakeOK ==
  ASSUME NEW q, QOK(q), NEW m \in Nat
  PROVE  QOK(Take(q, m)) /\ Blocks(Take(q, m)) <= Blocks(q)
<1>0. BSIZE \in Nat \ {0} /\ TTYHOG \in Nat
  BY ConstAssumption
<1>1. /\ count(q) \in Nat /\ Filled(q) \in Nat /\ Blocks(q) \in Nat
      /\ Blocks(q) = Ceil(Filled(q)) /\ q.skip \in 0 .. BSIZE
      /\ q.chars \in Seq({"x", "n"}) /\ count(q) <= TTYHOG
  BY QFacts
<1>2. CASE m >= count(q)
  BY <1>1, <1>2, EmptyOK DEF Take
<1>3. CASE m < count(q)
  <2> DEFINE s == IF m = 0 THEN q.skip ELSE ((q.skip + m - 1) % BSIZE) + 1
             d == SubSeq(q.chars, m + 1, count(q))
             r == [chars |-> d, skip |-> s]
  <2>1. d \in Seq({"x", "n"}) /\ Len(d) = count(q) - m
    BY <1>1, <1>3 DEF count
  <2>2. s \in 0 .. BSIZE /\ s <= q.skip + m
    <3>1. CASE m = 0
      BY <1>0, <1>1, <3>1
    <3>2. CASE m # 0
      <4> DEFINE k == (q.skip + m - 1) % BSIZE
      <4>1. q.skip + m - 1 \in Nat
        BY <1>0, <1>1, <3>2
      <4>2. k \in 0 .. BSIZE - 1 /\ k <= q.skip + m - 1
        BY <1>0, <4>1
      <4>3. s = k + 1
        BY <3>2
      <4> HIDE DEF s, k
      <4> QED
        BY <1>0, <1>1, <3>2, <4>2, <4>3
    <3> QED
      BY <3>1, <3>2
  <2> HIDE DEF s, d
  <2>3. Take(q, m) = r
    BY <1>1, <1>3 DEF Take, s, d
  <2>4. QOK(r)
    BY <1>0, <1>1, <1>3, <2>1, <2>2 DEF QOK, count
  <2>5. Blocks(r) = Ceil(Filled(r)) /\ Filled(r) \in Nat
    BY <2>4, QFacts
  <2>6. Filled(r) <= Filled(q)
    BY <1>0, <1>1, <1>3, <2>1, <2>2 DEF Filled, count
  <2>7. Filled(q) <= BSIZE * Blocks(q)
    BY <1>1, CeilIs
  <2>8. BSIZE * Blocks(q) \in Int
    BY <1>0, <1>1
  <2>9. Filled(r) <= BSIZE * Blocks(q)
    BY <1>1, <2>5, <2>6, <2>7, <2>8
  <2>10. Ceil(Filled(r)) <= Blocks(q)
    BY <1>1, <2>5, <2>9, CeilLeast
  <2> QED
    BY <2>3, <2>4, <2>5, <2>10
<1> QED
  BY <1>1, <1>2, <1>3

(***************************************************************************)
(* The type invariant.                                                     *)
(***************************************************************************)
QInv ==
  /\ QOK(raw) /\ QOK(cok) /\ QOK(out)
  /\ others \in Nat /\ others \in Others /\ cfree(raw, cok, out) >= 0

Label == {"user", "cookin", "insleep", "getc", "sync", "fill", "cwait",
          "more", "send", "write", "outwait", "outsleep", "drain"}

Flag == {"LOSTOP", "HOSLEEP", "HISLEEP", "ERROR"}

RegInv ==
  /\ nbreak \in 0 .. BreakMod - 1
  /\ missed \in BOOLEAN /\ state \subseteq Flag
  /\ mode \in Modes /\ tx \in BOOLEAN
  /\ cpu \in Proc \cup {NoProc} /\ asleep \subseteq Proc /\ pend \subseteq Proc
  /\ pc \in [Proc -> Label]
  /\ left \in [Proc -> Nat]
  /\ buf \in Seq({"x", "n"})

\* A process that runs in the kernel has the cpu.
CpuInv ==
  \A p \in Proc :
    /\ pc[p] \notin {"user", "insleep", "outsleep"} => cpu = p /\ p \notin asleep
    /\ pc[p] = "user" => p \notin asleep

TInv == QInv /\ RegInv /\ CpuInv

\* The invariant includes type correctness.
LEMMA TypeImplied == TInv => TypeOK
  BY DEF TInv, QInv, RegInv, QOK, TypeOK, Label, Flag

\* It holds when the terminal is opened.
LEMMA TypeInit == Init => TInv
<1> SUFFICES ASSUME Init PROVE TInv
  OBVIOUS
<1>0. NBLOCKS \in Nat /\ BreakMod \in Nat \ {0} /\ 0 \in Others
  BY ConstAssumption
<1>1. QInv
  BY <1>0, EmptyOK DEF Init, QInv, cfree
<1>2. RegInv
  <2>1. nbreak \in 0 .. BreakMod - 1 /\ buf \in Seq({"x", "n"})
    BY <1>0 DEF Init
  <2>2. /\ missed \in BOOLEAN /\ state \subseteq Flag
        /\ mode \in Modes /\ tx \in BOOLEAN
        /\ cpu \in Proc \cup {NoProc} /\ asleep \subseteq Proc /\ pend \subseteq Proc
    BY DEF Init
  <2>3. pc \in [Proc -> Label] /\ left \in [Proc -> Nat]
    BY DEF Init, Label
  <2> QED
    BY <2>1, <2>2, <2>3 DEF RegInv
<1>3. CpuInv
  BY DEF Init, CpuInv
<1> QED
  BY <1>1, <1>2, <1>3 DEF TInv

\* The length of the free list does not depend on the order of the queues.
LEMMA Symmetric ==
  ASSUME NEW q, NEW a, NEW b, QOK(q), QOK(a), QOK(b), others \in Nat
  PROVE  cfree(q, a, b) = cfree(a, q, b) /\ cfree(q, a, b) = cfree(b, q, a)
         /\ cfree(q, a, b) = cfree(b, a, q) /\ cfree(q, a, b) = cfree(q, b, a)
         /\ cfree(q, a, b) = cfree(a, b, q)
<1>1. Blocks(q) \in Nat /\ Blocks(a) \in Nat /\ Blocks(b) \in Nat /\ NBLOCKS \in Nat
  BY QFacts, ConstAssumption
<1> QED
  BY <1>1 DEF cfree

\* Taking characters out of a queue gives cblocks back.
LEMMA TakeRoom ==
  ASSUME NEW q, NEW a, NEW b, QOK(q), QOK(a), QOK(b), others \in Nat, cfree(q, a, b) >= 0, NEW m \in Nat
  PROVE  QOK(Take(q, m)) /\ cfree(Take(q, m), a, b) >= 0
<1> DEFINE r == Take(q, m)
<1>1. QOK(r) /\ Blocks(r) <= Blocks(q)
  BY TakeOK
<1> HIDE DEF r
<1>2. /\ Blocks(q) \in Nat /\ Blocks(a) \in Nat /\ Blocks(b) \in Nat /\ NBLOCKS \in Nat
      /\ Blocks(r) \in Nat
  BY <1>1, QFacts, ConstAssumption
<1>3. cfree(r, a, b) >= 0
  BY <1>1, <1>2 DEF cfree
<1> QED
  BY <1>1, <1>3 DEF r

\* What still fits into a queue is a natural number.
LEMMA RoomNat ==
  ASSUME NEW q, NEW a, NEW b, QOK(q), QOK(a), QOK(b), others \in Nat, cfree(q, a, b) >= 0
  PROVE  Room(q, a, b) \in Nat
<1>0. BSIZE \in Nat \ {0} /\ TTYHOG \in Nat /\ NBLOCKS \in Nat
  BY ConstAssumption
<1>1. /\ count(q) \in Nat /\ Blocks(q) \in Nat /\ Blocks(a) \in Nat /\ Blocks(b) \in Nat
      /\ count(q) <= TTYHOG /\ Filled(q) \in Nat
      /\ Slack(q) = BSIZE * Blocks(q) - Filled(q) /\ Blocks(q) = Ceil(Filled(q))
  BY QFacts
<1>2. cfree(q, a, b) \in Nat
  BY <1>0, <1>1 DEF cfree
<1>3. Slack(q) \in Nat
  BY <1>0, <1>1, CeilIs
<1>4. BSIZE * cfree(q, a, b) \in Nat
  BY <1>0, <1>2
<1> QED
  BY <1>0, <1>1, <1>3, <1>4 DEF Room, Min

\* The queues stay within clist when the other terminals hold as much as before.
LEMMA QNew ==
  ASSUME QInv, UNCHANGED others, QOK(raw)', QOK(cok)', QOK(out)',
         cfree(raw', cok', out') >= 0
  PROVE  QInv'
  BY DEF QInv, cfree

\* A step that leaves the queues alone keeps them within clist.
LEMMA QKeep == QInv /\ UNCHANGED <<queVars, others>> => QInv'
  BY DEF QInv, cfree, queVars

\* Emptying queues gives cblocks back.
LEMMA QDrain ==
  ASSUME QInv, UNCHANGED others, raw' = Empty,
         cok' \in {cok, Empty}, out' \in {out, Empty}
  PROVE  QInv'
<1>1. /\ Blocks(raw) \in Nat /\ Blocks(cok) \in Nat /\ Blocks(out) \in Nat
      /\ NBLOCKS \in Nat /\ others \in Nat
  BY QFacts, ConstAssumption DEF QInv
<1>2. QOK(raw)' /\ QOK(cok)' /\ QOK(out)'
  BY EmptyOK DEF QInv
<1>3. /\ Blocks(raw') = 0 /\ Blocks(cok') \in {0, Blocks(cok)}
      /\ Blocks(out') \in {0, Blocks(out)}
  BY EmptyOK
<1>4. cfree(raw', cok', out') >= 0
  BY <1>1, <1>3 DEF cfree, QInv
<1> QED
  BY <1>2, <1>4, QNew

\* The steps there are.
LEMMA NextCases ==
  [Next]_vars =>
    \/ \E p \in Proc :
         \/ cookinSleep(p) \/ cookinAgain(p) \/ cookinLine(p) \/ cookinChar(p)
         \/ cookinBreak(p) \/ cookinOut(p) \/ cookinSync(p) \/ cookinPutc(p)
         \/ cwait(p) \/ cwaitVoid(p) \/ cookinRaw(p) \/ sendque(p)
         \/ fillque(p) \/ outwaitSleep(p) \/ outwaitDone(p) \/ outwaitAgain(p)
         \/ sig(p) \/ sigDone(p)
         \/ \E m \in Nat : ttyread(p, m) \/ ttywrite(p, m)
         \/ ttyreadError(p)
    \/ \E c \in {"x", "n"} : ttyinChar(c)
    \/ ttyinOverflow \/ ttyinRub \/ ttyinXoff \/ ttyinXon
    \/ ttyerror \/ ttyout \/ OtherTtys \/ UNCHANGED vars
<1>1. \A p \in Proc : Reads[p] \subseteq Nat /\ Writes[p] \subseteq Nat
  BY ConstAssumption
<1> QED
  BY <1>1 DEF Next, Step, Read, Write, Calls, ttyin

\* The queues keep their limits, and together they never have more cblocks
\* than the other terminals leave.
LEMMA QStep == TInv /\ [Next]_vars => QInv'
<1> SUFFICES ASSUME TInv, [Next]_vars PROVE QInv'
  OBVIOUS
<1>0. QInv /\ RegInv
  BY DEF TInv
<1>0a. QOK(raw) /\ QOK(cok) /\ QOK(out) /\ others \in Nat /\ cfree(raw, cok, out) >= 0
  BY <1>0 DEF QInv
<1>1. ASSUME NEW p \in Proc, cookinSleep(p) PROVE QInv'
  BY <1>1, <1>0, QKeep DEF cookinSleep, ctlVars, ttyVars
<1>2. ASSUME NEW p \in Proc, cookinAgain(p) PROVE QInv'
  BY <1>2, <1>0, QKeep DEF cookinAgain, ctlVars, ttyVars
<1>3. ASSUME NEW p \in Proc, cookinLine(p) PROVE QInv'
  BY <1>3, <1>0, QKeep DEF cookinLine, ctlVars, ttyVars
<1>4. ASSUME NEW p \in Proc, cookinChar(p) PROVE QInv'
  <2>1. raw' = Take(raw, 1) /\ UNCHANGED <<cok, out, others>>
    BY <1>4 DEF cookinChar, getc, ctlVars
  <2>2. QOK(Take(raw, 1)) /\ cfree(Take(raw, 1), cok, out) >= 0
    BY <1>0a, TakeRoom
  <2> QED
    BY <1>0, <1>0a, <2>1, <2>2, QNew
<1>5. ASSUME NEW p \in Proc, cookinBreak(p) PROVE QInv'
  <2>1. raw' = Take(raw, 1) /\ UNCHANGED <<cok, out, others>>
    BY <1>5 DEF cookinBreak, getc, ctlVars
  <2>2. QOK(Take(raw, 1)) /\ cfree(Take(raw, 1), cok, out) >= 0
    BY <1>0a, TakeRoom
  <2> QED
    BY <1>0, <1>0a, <2>1, <2>2, QNew
<1>6. ASSUME NEW p \in Proc, cookinOut(p) PROVE QInv'
  BY <1>6, <1>0, QKeep DEF cookinOut, ctlVars, ttyVars
<1>7. ASSUME NEW p \in Proc, cookinSync(p) PROVE QInv'
  BY <1>7, <1>0, QKeep DEF cookinSync, ctlVars, ttyVars
<1>8. ASSUME NEW p \in Proc, cookinPutc(p) PROVE QInv'
  <2>1. cok' = putc(cok, "x", raw, out) /\ UNCHANGED <<raw, out, others>>
    BY <1>8 DEF cookinPutc, ctlVars
  <2>2. cfree(cok, raw, out) >= 0
    BY <1>0a, Symmetric
  <2>3. QOK(cok') /\ cfree(cok', raw, out) >= 0
    BY <1>0a, <2>1, <2>2, PutcOK
  <2>4. cfree(raw, cok', out) >= 0
    BY <1>0a, <2>3, Symmetric
  <2> QED
    BY <1>0, <1>0a, <2>1, <2>3, <2>4, QNew
<1>9. ASSUME NEW p \in Proc, cwait(p) PROVE QInv'
  BY <1>9, <1>0, QKeep DEF cwait, ctlVars, ttyVars
<1>10. ASSUME NEW p \in Proc, cwaitVoid(p) PROVE QInv'
  <2>1. cok' = putc(cok, "x", raw, out) /\ UNCHANGED <<raw, out, others>>
    BY <1>10 DEF cwaitVoid, ctlVars
  <2>2. cfree(cok, raw, out) >= 0
    BY <1>0a, Symmetric
  <2>3. QOK(cok') /\ cfree(cok', raw, out) >= 0
    BY <1>0a, <2>1, <2>2, PutcOK
  <2>4. cfree(raw, cok', out) >= 0
    BY <1>0a, <2>3, Symmetric
  <2> QED
    BY <1>0, <1>0a, <2>1, <2>3, <2>4, QNew
<1>11. ASSUME NEW p \in Proc, cookinRaw(p) PROVE QInv'
  <2>1. /\ raw' = Take(raw, 1) /\ UNCHANGED <<out, others>> /\ raw.chars # <<>>
        /\ cok' = putc(cok, "x", raw', out)
    BY <1>11 DEF cookinRaw, getc, ctlVars
  <2>3. QOK(raw') /\ cfree(raw', cok, out) >= 0
    BY <1>0a, <2>1, TakeRoom
  <2>4. cfree(cok, raw', out) >= 0
    BY <1>0a, <2>3, Symmetric
  <2>5. QOK(cok') /\ cfree(cok', raw', out) >= 0
    BY <1>0a, <2>1, <2>3, <2>4, PutcOK
  <2>6. cfree(raw', cok', out) >= 0
    BY <1>0a, <2>3, <2>5, Symmetric
  <2> QED
    BY <1>0, <1>0a, <2>1, <2>3, <2>5, <2>6, QNew
<1>12. ASSUME NEW p \in Proc, sendque(p) PROVE QInv'
  <2>1. cok' = Take(cok, left[p]) /\ UNCHANGED <<raw, out, others>> /\ left[p] \in Nat
    BY <1>0, <1>12 DEF sendque, RegInv, ctlVars
  <2>2. cfree(cok, raw, out) >= 0
    BY <1>0a, Symmetric
  <2>3. QOK(cok') /\ cfree(cok', raw, out) >= 0
    BY <1>0a, <2>1, <2>2, TakeRoom
  <2>4. cfree(raw, cok', out) >= 0
    BY <1>0a, <2>3, Symmetric
  <2> QED
    BY <1>0, <1>0a, <2>1, <2>3, <2>4, QNew
<1>13. ASSUME NEW p \in Proc, fillque(p) PROVE QInv'
  <2> DEFINE m == Min(left[p], Room(out, raw, cok))
  <2>1. out' = Fill(out, m) /\ UNCHANGED <<raw, cok, others>>
    BY <1>13 DEF fillque, ctlVars
  <2>2. cfree(out, raw, cok) >= 0
    BY <1>0a, Symmetric
  <2>3. m \in Nat /\ m <= Room(out, raw, cok)
    BY <1>0, <1>0a, <2>2, RoomNat DEF RegInv, Min
  <2> HIDE DEF m
  <2>4. QOK(out') /\ cfree(out', raw, cok) >= 0
    BY <1>0a, <2>1, <2>2, <2>3, FillOK
  <2>5. cfree(raw, cok, out') >= 0
    BY <1>0a, <2>4, Symmetric
  <2> QED
    BY <1>0, <1>0a, <2>1, <2>4, <2>5, QNew
<1>14. ASSUME NEW p \in Proc, outwaitSleep(p) PROVE QInv'
  BY <1>14, <1>0, QKeep DEF outwaitSleep, ctlVars, ttyVars
<1>15. ASSUME NEW p \in Proc, outwaitDone(p) PROVE QInv'
  BY <1>15, <1>0, QKeep DEF outwaitDone, ctlVars, ttyVars
<1>16. ASSUME NEW p \in Proc, outwaitAgain(p) PROVE QInv'
  BY <1>16, <1>0, QKeep DEF outwaitAgain, ctlVars, ttyVars
<1>17. ASSUME NEW p \in Proc, sig(p) PROVE QInv'
  BY <1>0, <1>17, QDrain DEF sig, drainques, ctlVars
<1>18. ASSUME NEW p \in Proc, sigDone(p) PROVE QInv'
  BY <1>18, <1>0, QKeep DEF sigDone, ctlVars, ttyVars
<1>19. ASSUME NEW p \in Proc, NEW m \in Nat, ttyread(p, m) \/ ttywrite(p, m) PROVE QInv'
  BY <1>19, <1>0, QKeep DEF ttyread, ttywrite, Call, Enters, ctlVars, ttyVars
<1>20. ASSUME NEW p \in Proc, ttyreadError(p) PROVE QInv'
  BY <1>0, <1>20, QDrain DEF ttyreadError, ctlVars
<1>21. CASE ttyinOverflow
  BY <1>0, <1>21, QDrain DEF ttyinOverflow, ctlVars
<1>22. CASE ttyinRub
  BY <1>22, <1>0, QKeep DEF ttyinRub, ctlVars, ttyVars
<1>23. CASE ttyinXoff
  BY <1>23, <1>0, QKeep DEF ttyinXoff, ctlVars, ttyVars
<1>24. CASE ttyinXon
  BY <1>24, <1>0, QKeep DEF ttyinXon, ctlVars, ttyVars
<1>25. CASE ttyerror
  BY <1>25, <1>0, QKeep DEF ttyerror, ctlVars, ttyVars
<1>26. CASE ttyout
  <2>1. UNCHANGED <<raw, cok, others>> /\ (out' = out \/ out' = Take(out, 1))
    BY <1>26 DEF ttyout, getc, ctlVars
  <2>2. cfree(out, raw, cok) >= 0
    BY <1>0a, Symmetric
  <2>3. QOK(out') /\ cfree(out', raw, cok) >= 0
    BY <1>0a, <2>1, <2>2, TakeRoom
  <2>4. cfree(raw, cok, out') >= 0
    BY <1>0a, <2>3, Symmetric
  <2> QED
    BY <1>0, <1>0a, <2>1, <2>3, <2>4, QNew
<1>27. CASE OtherTtys
  <2>1. /\ Blocks(raw) \in Nat /\ Blocks(cok) \in Nat /\ Blocks(out) \in Nat
        /\ NBLOCKS \in Nat /\ Others \subseteq 0 .. NBLOCKS
    BY <1>0a, QFacts, ConstAssumption
  <2>2. UNCHANGED queVars /\ others' \in Others /\ others' <= others + cfree(raw, cok, out)
    BY <1>27 DEF OtherTtys
  <2>3. others' \in Nat
    BY <2>1, <2>2
  <2>4. NBLOCKS - others' - Blocks(raw) - Blocks(cok) - Blocks(out) >= 0
    BY <1>0a, <2>1, <2>2, <2>3 DEF cfree
  <2> QED
    BY <1>0a, <2>2, <2>3, <2>4 DEF QInv, cfree, queVars
<1>28. ASSUME NEW c \in {"x", "n"}, ttyinChar(c) PROVE QInv'
  <2>1. /\ raw' = putc(raw, c, cok, out) /\ UNCHANGED <<cok, others>>
        /\ out' = putc(out, "x", raw', cok)
    BY <1>28 DEF ttyinChar, ctlVars
  <2>2. QOK(raw') /\ cfree(raw', cok, out) >= 0
    BY <1>0a, <2>1, PutcOK
  <2>3. cfree(out, raw', cok) >= 0
    BY <1>0a, <2>2, Symmetric
  <2>4. QOK(out') /\ cfree(out', raw', cok) >= 0
    BY <1>0a, <2>1, <2>2, <2>3, PutcOK
  <2>5. cfree(raw', cok, out') >= 0
    BY <1>0a, <2>2, <2>4, Symmetric
  <2> QED
    BY <1>0, <1>0a, <2>1, <2>2, <2>4, <2>5, QNew
<1>29. CASE UNCHANGED vars
  BY <1>29, <1>0, QKeep DEF vars, ctlVars, ttyVars
<1> QED
  BY <1>1, <1>2, <1>3, <1>4, <1>5, <1>6, <1>7, <1>8, <1>9, <1>10, <1>11, <1>12,
     <1>13, <1>14, <1>15, <1>16, <1>17, <1>18, <1>19, <1>20, <1>21, <1>22,
     <1>23, <1>24, <1>25, <1>26, <1>27, <1>28, <1>29, NextCases

\* Every step keeps the types of the other variables.
LEMMA RegStep == TInv /\ [Next]_vars => RegInv'
<1> SUFFICES ASSUME TInv, [Next]_vars PROVE RegInv'
  OBVIOUS
<1>0. BreakMod \in Nat \ {0} /\ TTYHOG \in Nat /\ Heed \subseteq Proc
  BY ConstAssumption
<1> USE <1>0 DEF TInv, RegInv, Label, Flag, At, Goto, Return, sleep, wakeup, drainques, ustart,
                 cstart, Uncount, Store, Echoed, Anyone, queVars, brkVars, ttyVars, ctlVars, sysVars
<1>1. ASSUME NEW p \in Proc, cookinSleep(p) PROVE RegInv'
  BY <1>1 DEF cookinSleep
<1>2. ASSUME NEW p \in Proc, cookinAgain(p) PROVE RegInv'
  BY <1>2 DEF cookinAgain
<1>3. ASSUME NEW p \in Proc, cookinLine(p) PROVE RegInv'
  BY <1>3 DEF cookinLine
<1>4. ASSUME NEW p \in Proc, cookinChar(p) PROVE RegInv'
  BY <1>4 DEF cookinChar
<1>5. ASSUME NEW p \in Proc, cookinBreak(p) PROVE RegInv'
  <2>1. buf' \in Seq({"x", "n"})
    <3>1. CASE Store
      BY <3>1
    <3>2. CASE buf' = buf
      BY <3>2
    <3> QED
      BY <1>5, <3>1, <3>2 DEF cookinBreak
  <2> QED
    BY <1>5, <2>1 DEF cookinBreak
<1>6. ASSUME NEW p \in Proc, cookinOut(p) PROVE RegInv'
  <2>1. nbreak' \in 0 .. BreakMod - 1 /\ buf' \in Seq({"x", "n"})
    BY <1>6 DEF cookinOut
  <2>2. missed' = FALSE /\ UNCHANGED <<state, tx, mode, pend, left, asleep>>
    BY <1>6 DEF cookinOut
  <2>3. pc' \in [Proc -> Label] /\ cpu' = p
    BY <1>6 DEF cookinOut
  <2> QED
    BY <2>1, <2>2, <2>3
<1>7. ASSUME NEW p \in Proc, cookinSync(p) PROVE RegInv'
  <2>1. nbreak' \in 0 .. BreakMod - 1
    BY <1>7 DEF cookinSync
  <2>2. UNCHANGED <<missed, state, tx, mode, pend, left, buf, asleep>>
    BY <1>7 DEF cookinSync
  <2>3. pc' \in [Proc -> Label] /\ cpu' = p
    BY <1>7 DEF cookinSync
  <2> QED
    BY <2>1, <2>2, <2>3
<1>8. ASSUME NEW p \in Proc, cookinPutc(p) PROVE RegInv'
  BY <1>8 DEF cookinPutc
<1>9. ASSUME NEW p \in Proc, cwait(p) PROVE RegInv'
  BY <1>9 DEF cwait
<1>10. ASSUME NEW p \in Proc, cwaitVoid(p) PROVE RegInv'
  BY <1>10 DEF cwaitVoid
<1>11. ASSUME NEW p \in Proc, cookinRaw(p) PROVE RegInv'
  BY <1>11 DEF cookinRaw
<1>12. ASSUME NEW p \in Proc, sendque(p) PROVE RegInv'
  BY <1>12 DEF sendque
<1>13. ASSUME NEW p \in Proc, fillque(p) PROVE RegInv'
  <2> DEFINE m == Min(left[p], Room(out, raw, cok))
  <2>1. QOK(raw) /\ QOK(cok) /\ QOK(out) /\ others \in Nat /\ cfree(raw, cok, out) >= 0
    BY DEF QInv
  <2>2. Room(out, raw, cok) \in Nat
    BY <2>1, Symmetric, RoomNat
  <2>3. m \in Nat /\ m <= left[p]
    BY <2>2 DEF Min
  <2>4. left' = [left EXCEPT ![p] = @ - m]
    BY <1>13 DEF fillque
  <2> HIDE DEF m
  <2>5. left' \in [Proc -> Nat]
    BY <2>3, <2>4
  <2>6. tx' \in BOOLEAN /\ UNCHANGED <<nbreak, missed, state, mode, pend, buf, asleep>>
    BY <1>13 DEF fillque
  <2>7. pc' \in [Proc -> Label] /\ cpu' \in Proc \cup {NoProc}
    BY <1>13 DEF fillque
  <2> QED
    BY <2>5, <2>6, <2>7
<1>14. ASSUME NEW p \in Proc, outwaitSleep(p) PROVE RegInv'
  BY <1>14 DEF outwaitSleep
<1>15. ASSUME NEW p \in Proc, outwaitDone(p) PROVE RegInv'
  BY <1>15 DEF outwaitDone
<1>16. ASSUME NEW p \in Proc, outwaitAgain(p) PROVE RegInv'
  BY <1>16 DEF outwaitAgain
<1>17. ASSUME NEW p \in Proc, sig(p) PROVE RegInv'
  BY <1>17 DEF sig
<1>18. ASSUME NEW p \in Proc, sigDone(p) PROVE RegInv'
  BY <1>18 DEF sigDone
<1>19. ASSUME NEW p \in Proc, NEW m \in Nat, ttyread(p, m) \/ ttywrite(p, m) PROVE RegInv'
  <2>1. UNCHANGED <<nbreak, missed, state, tx, mode, pend, buf, asleep>> /\ cpu' = p
    BY <1>19 DEF ttyread, ttywrite, Call
  <2>2. left' \in [Proc -> Nat]
    BY <1>19 DEF ttyread, ttywrite, Call
  <2>3. pc' \in [Proc -> Label]
    BY <1>19 DEF ttyread, ttywrite, Call
  <2> QED
    BY <2>1, <2>2, <2>3
<1>20. ASSUME NEW p \in Proc, ttyreadError(p) PROVE RegInv'
  BY <1>20 DEF ttyreadError, Enters
<1>21. CASE ttyinOverflow
  BY <1>21 DEF ttyinOverflow
<1>22. CASE ttyinRub
  BY <1>22 DEF ttyinRub
<1>23. CASE ttyinXoff
  BY <1>23 DEF ttyinXoff
<1>24. CASE ttyinXon
  BY <1>24 DEF ttyinXon
<1>25. CASE ttyerror
  BY <1>25 DEF ttyerror
<1>26. CASE ttyout
  BY <1>26 DEF ttyout
<1>27. CASE OtherTtys
  BY <1>27 DEF OtherTtys
<1>28. ASSUME NEW c \in {"x", "n"}, ttyinChar(c) PROVE RegInv'
  <2>1. (nbreak + 1) % BreakMod \in 0 .. BreakMod - 1
    OBVIOUS
  <2>2. nbreak' \in 0 .. BreakMod - 1
    BY <1>28, <2>1 DEF ttyinChar
  <2>3. tx' \in BOOLEAN /\ missed' \in BOOLEAN /\ UNCHANGED <<mode, cpu, pc, pend, left, buf>>
    BY <1>28 DEF ttyinChar
  <2>4. asleep' \subseteq Proc /\ state' \subseteq Flag
    BY <1>28 DEF ttyinChar
  <2> QED
    BY <2>2, <2>3, <2>4
<1>29. CASE UNCHANGED vars
  BY <1>29 DEF vars
<1> QED
  BY <1>1, <1>2, <1>3, <1>4, <1>5, <1>6, <1>7, <1>8, <1>9, <1>10, <1>11, <1>12,
     <1>13, <1>14, <1>15, <1>16, <1>17, <1>18, <1>19, <1>20, <1>21, <1>22,
     <1>23, <1>24, <1>25, <1>26, <1>27, <1>28, <1>29, NextCases

\* A process in the kernel keeps the cpu until it sleeps or returns.
LEMMA CpuStep == TInv /\ [Next]_vars => CpuInv'
<1> SUFFICES ASSUME TInv, [Next]_vars PROVE CpuInv'
  OBVIOUS
<1>0. NoProc \notin Proc
  BY ConstAssumption
<1> USE <1>0 DEF TInv, RegInv, CpuInv, At, Goto, Return, sleep, wakeup,
                 queVars, ttyVars, ctlVars, sysVars
<1>1. ASSUME NEW p \in Proc, cookinSleep(p) PROVE CpuInv'
  BY <1>1 DEF cookinSleep
<1>2. ASSUME NEW p \in Proc, cookinAgain(p) PROVE CpuInv'
  BY <1>2 DEF cookinAgain
<1>3. ASSUME NEW p \in Proc, cookinLine(p) PROVE CpuInv'
  BY <1>3 DEF cookinLine
<1>4. ASSUME NEW p \in Proc, cookinChar(p) PROVE CpuInv'
  BY <1>4 DEF cookinChar
<1>5. ASSUME NEW p \in Proc, cookinBreak(p) PROVE CpuInv'
  BY <1>5 DEF cookinBreak
<1>6. ASSUME NEW p \in Proc, cookinOut(p) PROVE CpuInv'
  BY <1>6 DEF cookinOut
<1>7. ASSUME NEW p \in Proc, cookinSync(p) PROVE CpuInv'
  BY <1>7 DEF cookinSync
<1>8. ASSUME NEW p \in Proc, cookinPutc(p) PROVE CpuInv'
  BY <1>8 DEF cookinPutc
<1>9. ASSUME NEW p \in Proc, cwait(p) PROVE CpuInv'
  BY <1>9 DEF cwait
<1>10. ASSUME NEW p \in Proc, cwaitVoid(p) PROVE CpuInv'
  BY <1>10 DEF cwaitVoid
<1>11. ASSUME NEW p \in Proc, cookinRaw(p) PROVE CpuInv'
  BY <1>11 DEF cookinRaw
<1>12. ASSUME NEW p \in Proc, sendque(p) PROVE CpuInv'
  BY <1>12 DEF sendque
<1>13. ASSUME NEW p \in Proc, fillque(p) PROVE CpuInv'
  BY <1>13 DEF fillque
<1>14. ASSUME NEW p \in Proc, outwaitSleep(p) PROVE CpuInv'
  BY <1>14 DEF outwaitSleep
<1>15. ASSUME NEW p \in Proc, outwaitDone(p) PROVE CpuInv'
  BY <1>15 DEF outwaitDone
<1>16. ASSUME NEW p \in Proc, outwaitAgain(p) PROVE CpuInv'
  BY <1>16 DEF outwaitAgain
<1>17. ASSUME NEW p \in Proc, sig(p) PROVE CpuInv'
  BY <1>17 DEF sig
<1>18. ASSUME NEW p \in Proc, sigDone(p) PROVE CpuInv'
  BY <1>18 DEF sigDone
<1>19. ASSUME NEW p \in Proc, NEW m \in Nat, ttyread(p, m) \/ ttywrite(p, m) PROVE CpuInv'
  BY <1>19 DEF ttyread, ttywrite, Call, Enters
<1>20. ASSUME NEW p \in Proc, ttyreadError(p) PROVE CpuInv'
  BY <1>20 DEF ttyreadError, Enters
<1>21. CASE ttyinOverflow
  BY <1>21 DEF ttyinOverflow
<1>22. CASE ttyinRub
  BY <1>22 DEF ttyinRub
<1>23. CASE ttyinXoff
  BY <1>23 DEF ttyinXoff
<1>24. CASE ttyinXon
  BY <1>24 DEF ttyinXon
<1>25. CASE ttyerror
  BY <1>25 DEF ttyerror
<1>26. CASE ttyout
  BY <1>26 DEF ttyout
<1>27. CASE OtherTtys
  BY <1>27 DEF OtherTtys
<1>28. ASSUME NEW c \in {"x", "n"}, ttyinChar(c) PROVE CpuInv'
  BY <1>28 DEF ttyinChar
<1>29. CASE UNCHANGED vars
  BY <1>29 DEF vars
<1> QED
  BY <1>1, <1>2, <1>3, <1>4, <1>5, <1>6, <1>7, <1>8, <1>9, <1>10, <1>11, <1>12,
     <1>13, <1>14, <1>15, <1>16, <1>17, <1>18, <1>19, <1>20, <1>21, <1>22,
     <1>23, <1>24, <1>25, <1>26, <1>27, <1>28, <1>29, NextCases

\* The queues, the registers and the cpu are as they should be: TInv, which
\* TypeOK and everything below rest on, is inductive (queue.c, tty.c).
THEOREM TtyInvariant == Spec => []TInv
<1>1. TInv /\ [Next]_vars => TInv'
  BY QStep, RegStep, CpuStep DEF TInv
<1> QED
  BY <1>1, TypeInit, PTL DEF Spec

(***************************************************************************)
(* The type invariant: the queues stay within TTYHOG, and with their       *)
(* cblocks within clist, whatever putc, getc, fillque and drainall do.     *)
(***************************************************************************)
THEOREM TypeCorrect == Spec => []TypeOK
  BY TtyInvariant, TypeImplied, PTL

(***************************************************************************)
(* Output.                                                                 *)
(***************************************************************************)
OutInv ==
  /\ \A p \in asleep : pc[p] = "outsleep" => "HOSLEEP" \in state
  /\ OutputGoesOn

\* Initially nobody writes.
LEMMA OutInit == Init => OutInv
  BY DEF Init, OutInv, OutputGoesOn, Empty

\* cstart, ustart, ttyout and outwait keep output going.
LEMMA OutStep == TInv /\ OutInv /\ [Next]_vars => OutInv'
<1> SUFFICES ASSUME TInv, OutInv, [Next]_vars PROVE OutInv'
  OBVIOUS
<1>0. NoProc \notin Proc /\ LOWATER \in Nat /\ QOK(out) /\ RegInv /\ CpuInv
  BY ConstAssumption DEF TInv, QInv
<1>0a. count(out) \in Nat /\ (count(out) = 0 <=> out.chars = <<>>)
  BY <1>0, QFacts
<1>0b. count(out) > LOWATER => out.chars # <<>>
  BY <1>0, <1>0a
<1>0c. out.chars = <<>> => count(out) <= LOWATER
  BY <1>0, <1>0a
<1> USE <1>0, <1>0b DEF OutInv, OutputGoesOn, RegInv, CpuInv, At, Goto, Return, sleep, wakeup,
                 drainques, ustart, cstart, Echoed, Empty, queVars, ttyVars, ctlVars, sysVars
<1>1. ASSUME NEW p \in Proc, cookinSleep(p) PROVE OutInv'
  BY <1>1 DEF cookinSleep
<1>2. ASSUME NEW p \in Proc, cookinAgain(p) PROVE OutInv'
  BY <1>2 DEF cookinAgain
<1>3. ASSUME NEW p \in Proc, cookinLine(p) PROVE OutInv'
  BY <1>3 DEF cookinLine
<1>4. ASSUME NEW p \in Proc, cookinChar(p) PROVE OutInv'
  BY <1>4 DEF cookinChar
<1>5. ASSUME NEW p \in Proc, cookinBreak(p) PROVE OutInv'
  BY <1>5 DEF cookinBreak
<1>6. ASSUME NEW p \in Proc, cookinOut(p) PROVE OutInv'
  BY <1>6 DEF cookinOut
<1>7. ASSUME NEW p \in Proc, cookinSync(p) PROVE OutInv'
  BY <1>7 DEF cookinSync
<1>8. ASSUME NEW p \in Proc, cookinPutc(p) PROVE OutInv'
  BY <1>8 DEF cookinPutc
<1>9. ASSUME NEW p \in Proc, cwait(p) PROVE OutInv'
  BY <1>9 DEF cwait
<1>10. ASSUME NEW p \in Proc, cwaitVoid(p) PROVE OutInv'
  BY <1>10 DEF cwaitVoid
<1>11. ASSUME NEW p \in Proc, cookinRaw(p) PROVE OutInv'
  BY <1>11 DEF cookinRaw
<1>12. ASSUME NEW p \in Proc, sendque(p) PROVE OutInv'
  BY <1>12 DEF sendque
<1>13. ASSUME NEW p \in Proc, fillque(p) PROVE OutInv'
  BY <1>13 DEF fillque
<1>14. ASSUME NEW p \in Proc, outwaitSleep(p) PROVE OutInv'
  BY <1>14 DEF outwaitSleep
<1>15. ASSUME NEW p \in Proc, outwaitDone(p) PROVE OutInv'
  BY <1>15 DEF outwaitDone
<1>16. ASSUME NEW p \in Proc, outwaitAgain(p) PROVE OutInv'
  BY <1>16 DEF outwaitAgain
<1>17. ASSUME NEW p \in Proc, sig(p) PROVE OutInv'
  BY <1>17 DEF sig
<1>18. ASSUME NEW p \in Proc, sigDone(p) PROVE OutInv'
  BY <1>18 DEF sigDone
<1>19. ASSUME NEW p \in Proc, NEW m \in Nat, ttyread(p, m) \/ ttywrite(p, m) PROVE OutInv'
  BY <1>19 DEF ttyread, ttywrite, Call, Enters
<1>20. ASSUME NEW p \in Proc, ttyreadError(p) PROVE OutInv'
  BY <1>20 DEF ttyreadError, Enters
<1>21. CASE ttyinOverflow
  BY <1>21 DEF ttyinOverflow
<1>22. CASE ttyinRub
  BY <1>22 DEF ttyinRub
<1>23. CASE ttyinXoff
  BY <1>23 DEF ttyinXoff
<1>24. CASE ttyinXon
  BY <1>24 DEF ttyinXon
<1>25. CASE ttyerror
  BY <1>25 DEF ttyerror
<1>26. CASE ttyout
  <2>1. ASSUME NEW q \in asleep', pc'[q] = "outsleep"
        PROVE  "HOSLEEP" \in state' /\ q \in asleep /\ pc[q] = "outsleep"
    BY <1>26, <2>1 DEF ttyout
  <2>2. CASE "LOSTOP" \notin state /\ out.chars # <<>>
    BY <1>26, <2>1, <2>2 DEF ttyout
  <2>3. CASE "LOSTOP" \in state
    BY <1>26, <2>1, <2>3 DEF ttyout
  <2>4. CASE "LOSTOP" \notin state /\ out.chars = <<>>
    <3>0. out' = out
      BY <1>26, <2>4 DEF ttyout
    <3>1. count(out') <= LOWATER
      BY <1>0c, <2>4, <3>0
    <3>2. \A q \in asleep' : pc'[q] # "outsleep"
      BY <1>26, <3>1 DEF ttyout
    <3> QED
      BY <2>4, <3>0, <3>2
  <2> QED
    BY <2>2, <2>3, <2>4
<1>27. CASE OtherTtys
  BY <1>27 DEF OtherTtys
<1>28. ASSUME NEW c \in {"x", "n"}, ttyinChar(c) PROVE OutInv'
  BY <1>28 DEF ttyinChar
<1>29. CASE UNCHANGED vars
  BY <1>29 DEF vars
<1> QED
  BY <1>1, <1>2, <1>3, <1>4, <1>5, <1>6, <1>7, <1>8, <1>9, <1>10, <1>11, <1>12,
     <1>13, <1>14, <1>15, <1>16, <1>17, <1>18, <1>19, <1>20, <1>21, <1>22,
     <1>23, <1>24, <1>25, <1>26, <1>27, <1>28, <1>29, NextCases

(***************************************************************************)
(* Output goes on by itself: through echo, drains, signals and XOFF the    *)
(* transmitter interrupt stays enabled while there is output, and a writer *)
(* asleep at the high level is still to be woken (tty.c: cstart, ustart,   *)
(* ttyout, outwait).                                                       *)
(***************************************************************************)
THEOREM WriterIsWoken == Spec => []OutputGoesOn
<1>1. OutInv => OutputGoesOn
  BY DEF OutInv
<1> QED
  BY <1>1, TtyInvariant, OutInit, OutStep, PTL DEF Spec

(***************************************************************************)
(* Input.  Brk(s) is where the breaks of s are.                            *)
(***************************************************************************)
Brk(s) == {i \in 1 .. Len(s) : s[i] = "n"}

\* A queue has finitely many breaks, no more than characters.
LEMMA BrkFinite ==
  ASSUME NEW s \in Seq({"x", "n"})
  PROVE  /\ IsFiniteSet(Brk(s)) /\ Cardinality(Brk(s)) \in Nat
         /\ Cardinality(Brk(s)) <= Len(s)
         /\ Cardinality(Brk(s)) = 0 <=> Brk(s) = {}
<1>0. 1 \in Int /\ Len(s) \in Nat /\ Len(s) \in Int
  OBVIOUS
<1>1. IsFiniteSet(1 .. Len(s)) /\ Cardinality(1 .. Len(s)) = Len(s)
  BY <1>0, FS_Interval
<1>2. Brk(s) \in SUBSET (1 .. Len(s))
  BY DEF Brk
<1>3. IsFiniteSet(Brk(s)) /\ Cardinality(Brk(s)) <= Len(s)
  BY <1>1, <1>2, FS_Subset
<1> QED
  BY <1>3, FS_CardinalityType, FS_EmptySet

\* A character put into a queue adds a break if it is one.
LEMMA BrkAppend ==
  ASSUME NEW s \in Seq({"x", "n"}), NEW c \in {"x", "n"}
  PROVE  /\ c = "x" => Brk(Append(s, c)) = Brk(s)
         /\ c = "n" => Cardinality(Brk(Append(s, c))) = Cardinality(Brk(s)) + 1
<1>1. CASE c = "x"
  BY <1>1 DEF Brk
<1>2. CASE c = "n"
  <2>1. Brk(Append(s, c)) = Brk(s) \cup {Len(s) + 1}
    BY <1>2 DEF Brk
  <2>2. Len(s) + 1 \notin Brk(s)
    BY DEF Brk
  <2> QED
    BY <1>2, <2>1, <2>2, BrkFinite, FS_AddElement
<1> QED
  BY <1>1, <1>2

\* t is s without its first character.
LEMMA BrkShift ==
  ASSUME NEW s \in Seq({"x", "n"}), NEW t \in Seq({"x", "n"}),
         Len(s) > 0, Len(t) = Len(s) - 1, \A i \in 1 .. Len(t) : t[i] = s[i + 1]
  PROVE  /\ s[1] = "x" => Cardinality(Brk(t)) = Cardinality(Brk(s))
         /\ s[1] = "n" => Cardinality(Brk(t)) = Cardinality(Brk(s)) - 1
         /\ Brk(s) = {} => Brk(t) = {}
<1> DEFINE S == Brk(s) \ {1}
           f == [i \in S |-> i - 1]
<1>1. IsFiniteSet(S) /\ Cardinality(S) = IF 1 \in Brk(s) THEN Cardinality(Brk(s)) - 1 ELSE Cardinality(Brk(s))
  BY BrkFinite, FS_RemoveElement
<1>2. \A i \in S : i \in Nat /\ i - 1 \in Brk(t)
  BY DEF Brk
<1>3. \A j \in Brk(t) : j + 1 \in S /\ (j + 1) - 1 = j
  BY DEF Brk
<1>4. f \in [S -> Brk(t)]
  BY <1>2
<1>5. f \in Bijection(S, Brk(t))
  <2>1. \A a, b \in S : f[a] = f[b] => a = b
    BY <1>2
  <2>2. \A j \in Brk(t) : \E a \in S : f[a] = j
    BY <1>3
  <2> QED
    BY <1>4, <2>1, <2>2 DEF Bijection, Injection, Surjection, IsInjective
<1>6. ExistsBijection(S, Brk(t))
  BY <1>5 DEF ExistsBijection
<1>7. Cardinality(Brk(t)) = Cardinality(S)
  BY <1>1, <1>6, FS_Bijection
<1>8. 1 \in Brk(s) <=> s[1] = "n"
  BY DEF Brk
<1>9. Brk(s) = {} => Brk(t) = {}
  BY <1>3
<1> QED
  BY <1>1, <1>7, <1>8, <1>9

\* getc drops the first character.
LEMMA GetcIs ==
  ASSUME NEW q, QOK(q), q.chars # <<>>
  PROVE  /\ q.chars \in Seq({"x", "n"}) /\ getc(q).chars \in Seq({"x", "n"})
         /\ Len(q.chars) > 0 /\ Len(getc(q).chars) = Len(q.chars) - 1
         /\ \A i \in 1 .. Len(getc(q).chars) : getc(q).chars[i] = q.chars[i + 1]
<1>1. q.chars \in Seq({"x", "n"}) /\ Len(q.chars) \in Nat /\ Len(q.chars) > 0
  BY DEF QOK
<1>2. CASE Len(q.chars) = 1
  <2>1. getc(q).chars = <<>>
    BY <1>2 DEF getc, Take, count, Empty
  <2> QED
    BY <1>1, <1>2, <2>1
<1>3. CASE Len(q.chars) > 1
  <2>1. getc(q).chars = SubSeq(q.chars, 2, Len(q.chars))
    BY <1>1, <1>3 DEF getc, Take, count
  <2> QED
    BY <1>1, <1>3, <2>1
<1>4. \A k \in Nat : k > 0 => k = 1 \/ k > 1
  OBVIOUS
<1> QED
  BY <1>1, <1>2, <1>3, <1>4

AtSync == Anyone("sync")

\* In cooked mode, unless a break has been missed, nbreak is no less than the
\* number of breaks in the raw queue, and the one that has just been taken.
BreakInv ==
  mode = "cooked" /\ ~missed =>
    /\ nbreak >= Cardinality(Breaks) + (IF AtSync THEN 1 ELSE 0)
    /\ Anyone("drain") => Breaks = {}

\* The breaks of the raw queue.
LEMMA BreaksAre == QInv => Breaks = Brk(raw.chars)
  BY DEF Breaks, Brk, count

\* What the breaks of the raw queue and those that are counted are after a step.
LEMMA BreakFacts ==
  ASSUME QInv
  PROVE  /\ Breaks = Brk(raw.chars) /\ IsFiniteSet(Breaks) /\ Cardinality(Breaks) \in Nat
         /\ Cardinality(Breaks) <= count(raw) /\ raw.chars \in Seq({"x", "n"})
         /\ Cardinality(Breaks) = 0 <=> Breaks = {}
         /\ raw.chars = <<>> => Breaks = {}
<1>1. raw.chars \in Seq({"x", "n"})
  BY DEF QInv, QOK
<1> QED
  BY <1>1, BreaksAre, BrkFinite DEF count, Brk

\* getc takes a break out of the raw queue if one is at its head.
LEMMA GetcBreaks ==
  ASSUME QInv, raw.chars # <<>>, raw' = getc(raw)
  PROVE  /\ Head(raw.chars) = "x" => Cardinality(Breaks') = Cardinality(Breaks)
         /\ Head(raw.chars) = "n" => Cardinality(Breaks') = Cardinality(Breaks) - 1
         /\ Breaks = {} => Breaks' = {}
<1>1. QOK(raw)
  BY DEF QInv
<1>2. /\ raw.chars \in Seq({"x", "n"}) /\ getc(raw).chars \in Seq({"x", "n"})
      /\ Len(raw.chars) > 0 /\ Len(getc(raw).chars) = Len(raw.chars) - 1
      /\ \A i \in 1 .. Len(getc(raw).chars) : getc(raw).chars[i] = raw.chars[i + 1]
  BY <1>1, GetcIs
<1>3. Head(raw.chars) = raw.chars[1]
  BY <1>2
<1>4. Breaks = Brk(raw.chars) /\ Breaks' = Brk(getc(raw).chars)
  BY DEF Breaks, Brk, count
<1> QED
  BY <1>2, <1>3, <1>4, BrkShift

\* putc adds at most a break to the raw queue, and none if it is given none.
LEMMA PutcBreaks ==
  ASSUME QInv, NEW c \in {"x", "n"}, raw' = putc(raw, c, cok, out)
  PROVE  /\ c = "x" => Breaks' = Breaks
         /\ c = "n" => /\ Cardinality(Breaks') \in Nat
                       /\ Cardinality(Breaks') <= Cardinality(Breaks) + 1
<1>1. QOK(raw) /\ raw.chars \in Seq({"x", "n"}) /\ Cardinality(Breaks) \in Nat
  BY BreakFacts DEF QInv
<1>2. CASE raw' = Append1(raw, c)
  <2>1. raw'.chars = Append(raw.chars, c)
    BY <1>1, <1>2 DEF Append1, QOK
  <2>2. Breaks = Brk(raw.chars) /\ Breaks' = Brk(Append(raw.chars, c))
    BY <2>1 DEF Breaks, Brk, count
  <2> QED
    BY <1>1, <2>2, BrkAppend
<1>3. CASE raw' = raw
  <2>1. Breaks' = Breaks
    BY <1>3 DEF Breaks, count
  <2> QED
    BY <1>1, <2>1
<1> QED
  BY <1>2, <1>3 DEF putc

\* An empty raw queue has no breaks.
LEMMA NoBreaks == raw' = Empty => Breaks' = {} /\ Cardinality(Breaks') = 0
<1> SUFFICES ASSUME raw' = Empty PROVE Breaks' = {} /\ Cardinality(Breaks') = 0
  OBVIOUS
<1>1. Breaks' = {}
  BY DEF Breaks, count, Empty
<1> QED
  BY <1>1, FS_EmptySet

\* Nobody is in the middle of something while another runs.
LEMMA NotThere ==
  ASSUME TInv, NEW p \in Proc, cpu \in {p, NoProc}, NEW l,
         l \notin {"user", "insleep", "outsleep"}, pc[p] # l
  PROVE  ~Anyone(l)
<1>1. NoProc \notin Proc
  BY ConstAssumption
<1> QED
  BY <1>1 DEF TInv, CpuInv, Anyone

\* A step that touches neither the raw queue nor nbreak keeps them in step.
LEMMA BreakKeep ==
  ASSUME BreakInv, UNCHANGED <<raw, nbreak, missed, mode>>,
         AtSync' => AtSync, Anyone("drain")' => Anyone("drain"),
         nbreak \in Nat, Cardinality(Breaks) \in Nat
  PROVE  BreakInv'
<1>1. Breaks' = Breaks
  BY DEF Breaks, count
<1> QED
  BY <1>1 DEF BreakInv

\* A step that leaves the raw queue empty keeps them in step.
LEMMA BreakEmpty ==
  ASSUME raw' = Empty, nbreak' \in Nat, AtSync' => missed'
  PROVE  BreakInv'
<1>1. Breaks' = {} /\ Cardinality(Breaks') = 0
  BY NoBreaks
<1> QED
  BY <1>1 DEF BreakInv

\* cookin, ttyin and sig keep nbreak in step with the raw queue.
LEMMA BreakStep ==
  ASSUME TInv, BreakInv, [Next]_vars
  PROVE  BreakInv'
<1>0. QInv /\ RegInv
  BY DEF TInv
<1>0a. /\ Cardinality(Breaks) \in Nat /\ nbreak \in Nat
       /\ (Cardinality(Breaks) = 0 <=> Breaks = {})
       /\ (raw.chars = <<>> => Breaks = {})
  BY <1>0, BreakFacts, ConstAssumption DEF RegInv
<1> USE <1>0, NotThere DEF BreakInv, At, Goto, Return, sleep,
                       queVars, brkVars, ttyVars, ctlVars, sysVars, RegInv, AtSync, Anyone
<1>1. ASSUME NEW p \in Proc, cookinSleep(p) PROVE BreakInv'
  BY <1>1, <1>0a, BreakKeep DEF cookinSleep
<1>2. ASSUME NEW p \in Proc, cookinAgain(p) PROVE BreakInv'
  BY <1>2, <1>0a, BreakKeep DEF cookinAgain
<1>3. ASSUME NEW p \in Proc, cookinLine(p) PROVE BreakInv'
  BY <1>3, <1>0a, BreakKeep DEF cookinLine
<1>4. ASSUME NEW p \in Proc, cookinChar(p) PROVE BreakInv'
  <2>1. ~AtSync /\ ~AtSync' /\ ~Anyone("drain")' /\ UNCHANGED <<nbreak, missed, mode>>
    BY <1>4 DEF cookinChar
  <2>2. Cardinality(Breaks') = Cardinality(Breaks)
    BY <1>4, GetcBreaks DEF cookinChar
  <2> QED
    BY <1>0a, <2>1, <2>2
<1>5. ASSUME NEW p \in Proc, cookinBreak(p) PROVE BreakInv'
  <2>1. ~AtSync /\ AtSync' /\ ~Anyone("drain")' /\ UNCHANGED <<nbreak, missed, mode>>
    BY <1>5 DEF cookinBreak
  <2>2. Cardinality(Breaks') = Cardinality(Breaks) - 1
    BY <1>5, GetcBreaks DEF cookinBreak
  <2> QED
    BY <1>0a, <2>1, <2>2
<1>6. ASSUME NEW p \in Proc, cookinOut(p) PROVE BreakInv'
  <2>1. ~AtSync' /\ ~Anyone("drain")' /\ nbreak' = 0 /\ UNCHANGED raw /\ raw.chars = <<>>
    BY <1>6 DEF cookinOut
  <2>2. Breaks' = Breaks
    BY <2>1 DEF Breaks, count
  <2> QED
    BY <1>0a, <2>1, <2>2
<1>7. ASSUME NEW p \in Proc, cookinSync(p) PROVE BreakInv'
  <2>1. AtSync /\ ~AtSync' /\ ~Anyone("drain")' /\ UNCHANGED <<raw, mode, missed>>
    BY <1>7, ConstAssumption DEF cookinSync, TInv, CpuInv
  <2>2. Breaks' = Breaks
    BY <2>1 DEF Breaks, count
  <2>3. nbreak' = IF nbreak > 0 THEN nbreak - 1 ELSE 0
    BY <1>7 DEF cookinSync, Uncount
  <2> QED
    BY <1>0a, <2>1, <2>2, <2>3
<1>8. ASSUME NEW p \in Proc, cookinPutc(p) PROVE BreakInv'
  BY <1>8, <1>0a, BreakKeep DEF cookinPutc
<1>9. ASSUME NEW p \in Proc, cwait(p) PROVE BreakInv'
  BY <1>9, <1>0a, BreakKeep DEF cwait
<1>10. ASSUME NEW p \in Proc, cwaitVoid(p) PROVE BreakInv'
  BY <1>10, <1>0a, BreakKeep DEF cwaitVoid
<1>11. ASSUME NEW p \in Proc, cookinRaw(p) PROVE BreakInv'
  BY <1>11 DEF cookinRaw
<1>12. ASSUME NEW p \in Proc, sendque(p) PROVE BreakInv'
  BY <1>12, <1>0a, BreakKeep DEF sendque
<1>13. ASSUME NEW p \in Proc, fillque(p) PROVE BreakInv'
  BY <1>13, <1>0a, BreakKeep DEF fillque
<1>14. ASSUME NEW p \in Proc, outwaitSleep(p) PROVE BreakInv'
  BY <1>14, <1>0a, BreakKeep DEF outwaitSleep
<1>15. ASSUME NEW p \in Proc, outwaitDone(p) PROVE BreakInv'
  BY <1>15, <1>0a, BreakKeep DEF outwaitDone
<1>16. ASSUME NEW p \in Proc, outwaitAgain(p) PROVE BreakInv'
  BY <1>16, <1>0a, BreakKeep DEF outwaitAgain
<1>17. ASSUME NEW p \in Proc, sig(p) PROVE BreakInv'
  <2>1. ~AtSync' /\ raw' = Empty /\ nbreak' = nbreak
    BY <1>17 DEF sig, drainques
  <2> QED
    BY <1>0a, <2>1, BreakEmpty
<1>18. ASSUME NEW p \in Proc, sigDone(p) PROVE BreakInv'
  <2>1. /\ ~AtSync' /\ Anyone("drain") /\ nbreak' = 0 /\ UNCHANGED <<raw, mode, missed>>
    BY <1>18 DEF sigDone
  <2>2. Breaks' = Breaks
    BY <2>1 DEF Breaks, count
  <2> QED
    BY <1>0a, <2>1, <2>2
<1>19. ASSUME NEW p \in Proc, NEW m \in Nat, ttyread(p, m) \/ ttywrite(p, m) PROVE BreakInv'
  BY <1>19, <1>0a, BreakKeep DEF ttyread, ttywrite, Call, Enters
<1>20. ASSUME NEW p \in Proc, ttyreadError(p) PROVE BreakInv'
  <2>1. ~AtSync /\ UNCHANGED <<pc, nbreak>> /\ raw' = Empty
    BY <1>20 DEF ttyreadError, Enters
  <2>2. ~AtSync'
    BY <2>1
  <2> QED
    BY <1>0a, <2>1, <2>2, BreakEmpty
<1>21. CASE ttyinOverflow
  <2>1. (AtSync' <=> AtSync) /\ nbreak' = 0 /\ raw' = Empty /\ missed' = AtSync
    BY <1>21 DEF ttyinOverflow
  <2> QED
    BY <2>1, BreakEmpty
<1>22. CASE ttyinRub
  BY <1>22, <1>0a, BreakKeep DEF ttyinRub
<1>23. CASE ttyinXoff
  BY <1>23, <1>0a, BreakKeep DEF ttyinXoff
<1>24. CASE ttyinXon
  BY <1>24, <1>0a, BreakKeep DEF ttyinXon
<1>25. CASE ttyerror
  BY <1>25, <1>0a, BreakKeep DEF ttyerror
<1>26. CASE ttyout
  BY <1>26, <1>0a, BreakKeep DEF ttyout
<1>27. CASE OtherTtys
  BY <1>27, <1>0a, BreakKeep DEF OtherTtys
<1>28. ASSUME NEW c \in {"x", "n"}, ttyinChar(c) PROVE BreakInv'
  <2>1. /\ (AtSync' <=> AtSync) /\ (Anyone("drain")' <=> Anyone("drain")) /\ UNCHANGED mode
        /\ c = "x" => UNCHANGED <<nbreak, missed>>
        /\ c = "n" => /\ nbreak' = (nbreak + 1) % BreakMod
                      /\ missed' = (missed \/ Anyone("drain") \/ nbreak + 1 = BreakMod)
    BY <1>28 DEF ttyinChar
  <2>2. /\ c = "x" => Breaks' = Breaks
        /\ c = "n" => Cardinality(Breaks') \in Nat /\ Cardinality(Breaks') <= Cardinality(Breaks) + 1
    BY <1>28, PutcBreaks DEF ttyinChar
  <2>3. CASE c = "x"
    BY <2>1, <2>2, <2>3
  <2>4. CASE c = "n" /\ ~missed'
    <3>1. ~missed /\ ~Anyone("drain")' /\ nbreak + 1 # BreakMod
      BY <2>1, <2>4
    <3>2. BreakMod \in Nat \ {0} /\ nbreak + 1 \in 0 .. BreakMod - 1
      BY <3>1, ConstAssumption
    <3>2a. (nbreak + 1) % BreakMod = nbreak + 1
      BY <3>2
    <3>3. nbreak' = nbreak + 1
      BY <2>1, <2>4, <3>2a
    <3> QED
      BY <1>0a, <2>1, <2>2, <2>4, <3>1, <3>3
  <2>5. CASE missed'
    BY <2>5
  <2> QED
    BY <2>3, <2>4, <2>5
<1>29. CASE UNCHANGED vars
  BY <1>29, <1>0a, BreakKeep DEF vars
<1> QED
  BY <1>1, <1>2, <1>3, <1>4, <1>5, <1>6, <1>7, <1>8, <1>9, <1>10, <1>11, <1>12,
     <1>13, <1>14, <1>15, <1>16, <1>17, <1>18, <1>19, <1>20, <1>21, <1>22,
     <1>23, <1>24, <1>25, <1>26, <1>27, <1>28, <1>29, NextCases

\* ttyin wakes those who sleep in cookin when their line comes.
LEMMA StrandedStep ==
  ASSUME TInv, BreakInv, ReaderNotStranded, [Next]_vars
  PROVE  ReaderNotStranded'
<1>0. QInv /\ RegInv /\ CpuInv
  BY DEF TInv
<1>0a. /\ Cardinality(Breaks) \in Nat /\ nbreak \in Nat
       /\ (Cardinality(Breaks) = 0 <=> Breaks = {})
       /\ (raw.chars = <<>> => Breaks = {})
  BY <1>0, BreakFacts, ConstAssumption DEF RegInv
<1>0b. raw' = raw => Breaks' = Breaks
  BY DEF Breaks, count
<1> USE <1>0, <1>0b DEF ReaderNotStranded, CpuInv, At, Goto, Return, sleep, wakeup, ustart,
                        queVars, brkVars, ttyVars, ctlVars, sysVars, RegInv
<1>1. ASSUME NEW p \in Proc, cookinSleep(p) PROVE ReaderNotStranded'
  <2>1. IF mode = "cooked" THEN Breaks = {} \/ missed ELSE raw.chars = <<>>
    BY <1>1, <1>0a DEF cookinSleep, Ready, BreakInv
  <2> QED
    BY <1>1, <2>1 DEF cookinSleep
<1>2. ASSUME NEW p \in Proc, cookinAgain(p) PROVE ReaderNotStranded'
  BY <1>2 DEF cookinAgain
<1>3. ASSUME NEW p \in Proc, cookinLine(p) PROVE ReaderNotStranded'
  BY <1>3 DEF cookinLine
<1>4. ASSUME NEW p \in Proc, cookinChar(p) PROVE ReaderNotStranded'
  BY <1>4, GetcBreaks DEF cookinChar
<1>5. ASSUME NEW p \in Proc, cookinBreak(p) PROVE ReaderNotStranded'
  BY <1>5, GetcBreaks DEF cookinBreak
<1>6. ASSUME NEW p \in Proc, cookinOut(p) PROVE ReaderNotStranded'
  BY <1>6, <1>0a DEF cookinOut
<1>7. ASSUME NEW p \in Proc, cookinSync(p) PROVE ReaderNotStranded'
  BY <1>7 DEF cookinSync
<1>8. ASSUME NEW p \in Proc, cookinPutc(p) PROVE ReaderNotStranded'
  BY <1>8 DEF cookinPutc
<1>9. ASSUME NEW p \in Proc, cwait(p) PROVE ReaderNotStranded'
  BY <1>9 DEF cwait
<1>10. ASSUME NEW p \in Proc, cwaitVoid(p) PROVE ReaderNotStranded'
  BY <1>10 DEF cwaitVoid
<1>11. ASSUME NEW p \in Proc, cookinRaw(p) PROVE ReaderNotStranded'
  BY <1>11, GetcBreaks DEF cookinRaw
<1>12. ASSUME NEW p \in Proc, sendque(p) PROVE ReaderNotStranded'
  BY <1>12 DEF sendque
<1>13. ASSUME NEW p \in Proc, fillque(p) PROVE ReaderNotStranded'
  BY <1>13 DEF fillque
<1>14. ASSUME NEW p \in Proc, outwaitSleep(p) PROVE ReaderNotStranded'
  BY <1>14 DEF outwaitSleep
<1>15. ASSUME NEW p \in Proc, outwaitDone(p) PROVE ReaderNotStranded'
  BY <1>15 DEF outwaitDone
<1>16. ASSUME NEW p \in Proc, outwaitAgain(p) PROVE ReaderNotStranded'
  BY <1>16 DEF outwaitAgain
<1>17. ASSUME NEW p \in Proc, sig(p) PROVE ReaderNotStranded'
  BY <1>17, NoBreaks DEF sig, drainques, Empty
<1>18. ASSUME NEW p \in Proc, sigDone(p) PROVE ReaderNotStranded'
  BY <1>18 DEF sigDone
<1>19. ASSUME NEW p \in Proc, NEW m \in Nat, ttyread(p, m) \/ ttywrite(p, m) PROVE ReaderNotStranded'
  BY <1>19 DEF ttyread, ttywrite, Call, Enters
<1>20. ASSUME NEW p \in Proc, ttyreadError(p) PROVE ReaderNotStranded'
  BY <1>20, NoBreaks DEF ttyreadError, Empty
<1>21. CASE ttyinOverflow
  BY <1>21, NoBreaks DEF ttyinOverflow, Empty
<1>22. CASE ttyinRub
  BY <1>22 DEF ttyinRub
<1>23. CASE ttyinXoff
  BY <1>23 DEF ttyinXoff
<1>24. CASE ttyinXon
  BY <1>24 DEF ttyinXon
<1>25. CASE ttyerror
  BY <1>25 DEF ttyerror
<1>26. CASE ttyout
  BY <1>26 DEF ttyout
<1>27. CASE OtherTtys
  BY <1>27 DEF OtherTtys
<1>28. ASSUME NEW c \in {"x", "n"}, ttyinChar(c) PROVE ReaderNotStranded'
  <2>1. raw' = putc(raw, c, cok, out) /\ UNCHANGED <<mode, pc>> /\ (missed => missed')
    BY <1>28 DEF ttyinChar
  <2>2. CASE c = "x" /\ mode = "cooked"
    BY <1>28, <2>1, <2>2, PutcBreaks DEF ttyinChar
  <2>3. CASE c = "n" \/ mode = "cbreak"
    BY <1>28, <2>1, <2>3 DEF ttyinChar
  <2> QED
    BY <2>2, <2>3, ConstAssumption
<1>29. CASE UNCHANGED vars
  BY <1>29 DEF vars
<1> QED
  BY <1>1, <1>2, <1>3, <1>4, <1>5, <1>6, <1>7, <1>8, <1>9, <1>10, <1>11, <1>12,
     <1>13, <1>14, <1>15, <1>16, <1>17, <1>18, <1>19, <1>20, <1>21, <1>22,
     <1>23, <1>24, <1>25, <1>26, <1>27, <1>28, <1>29, NextCases

(***************************************************************************)
(* Nobody sleeps in a read while there is something to read (cookin, ttyin *)
(* and sig; tty.c, queue.c), for any number of terminals that share clist, *)
(* with read errors, breaks dropped for want of a cblock, signals and any  *)
(* rate of input, up to a break that nbreak loses in one of the three ways *)
(* missed stands for.                                                      *)
(***************************************************************************)
THEOREM ReaderIsWoken == Spec => []ReaderNotStranded
<1>1. Init => BreakInv /\ ReaderNotStranded
  <2> SUFFICES ASSUME Init PROVE BreakInv /\ ReaderNotStranded
    OBVIOUS
  <2>1. Breaks = {}
    BY DEF Init, Breaks, count, Empty
  <2>2. ~AtSync
    BY DEF Init, AtSync, Anyone
  <2> QED
    BY <2>1, <2>2, FS_EmptySet DEF Init, BreakInv, ReaderNotStranded
<1>2. TInv /\ BreakInv /\ ReaderNotStranded /\ [Next]_vars => BreakInv' /\ ReaderNotStranded'
  BY BreakStep, StrandedStep
<1> QED
  BY <1>1, <1>2, TtyInvariant, PTL DEF Spec
=============================================================================
