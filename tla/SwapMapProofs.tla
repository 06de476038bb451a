--------------------------- MODULE SwapMapProofs ---------------------------
(***************************************************************************)
(* Proofs about SwapMap: the map stays in order, and it implements the     *)
(* allocator of SwapSpace.  What InsertAt, RemoveAt and Join do to a list  *)
(* of runs is stated by the blocks the list covers.                        *)
(***************************************************************************)
EXTENDS SwapMap, SequenceTheorems, WellFoundedInduction, TLAPS

(***************************************************************************)
(* Least and greatest elements.                                            *)
(***************************************************************************)

\* A set of naturals has a least element: what Min and Max choose exists.
LEMMA LeastExists ==
  ASSUME NEW T \in SUBSET Nat, T # {}
  PROVE  \E x \in T : \A y \in T : x <= y
<1> DEFINE R == OpToRel(<, Nat)
<1>1. IsWellFoundedOn(R, Nat)
  BY NatLessThanWellFounded
<1>2. PICK x \in T : \A y \in T : ~(<<y, x>> \in R)
  <2> HIDE DEF R
  <2> QED
    BY <1>1, WFMin
<1>3. ASSUME NEW y \in T PROVE x <= y
  <2>1. ~(y < x)
    BY <1>2 DEF OpToRel
  <2> QED
    BY <2>1
<1> QED
  BY <1>3

\* What Min is: a set of numbers that is not empty has a least one.
LEMMA MinIs ==
  ASSUME NEW T \in SUBSET Nat, T # {}
  PROVE  Min(T) \in T /\ \A y \in T : Min(T) <= y
<1>1. \E x \in T : \A y \in T : x =< y
  BY LeastExists
<1> QED
  BY <1>1 DEF Min

\* What Max is, for a bounded set.
LEMMA MaxIs ==
  ASSUME NEW b \in Nat, NEW T \in SUBSET (0 .. b), T # {}
  PROVE  Max(T) \in T /\ \A y \in T : y <= Max(T)
<1> DEFINE U == {b - x : x \in T}
<1>1. \A x \in T : x \in Nat /\ b - x \in Nat
  OBVIOUS
<1>2. U \in SUBSET Nat /\ U # {}
  BY <1>1
<1>3. PICK u \in U : \A v \in U : u <= v
  BY <1>2, LeastExists
<1>4. PICK x \in T : u = b - x
  OBVIOUS
<1>5. ASSUME NEW y \in T PROVE x >= y
  <2>1. u <= b - y
    BY <1>3
  <2> QED
    BY <1>1, <1>4, <2>1
<1>6. \E z \in T : \A y \in T : z >= y
  BY <1>5
<1>7. Max(T) \in T /\ \A y \in T : Max(T) >= y
  BY <1>6 DEF Max
<1> QED
  BY <1>1, <1>7

(***************************************************************************)
(* Sequences.  InsertAt and Join put one element in the place of some      *)
(* consecutive ones, of none or of at least one.                           *)
(***************************************************************************)
Spliced(m, a, e, b) == SubSeq(m, 1, a) \o <<e>> \o SubSeq(m, b, Len(m))

\* What Spliced is: the first a entries, e, and the entries from b on.
LEMMA SplicedFacts ==
  ASSUME NEW S, NEW m \in Seq(S), NEW e \in S, NEW a \in 0 .. Len(m), NEW b \in (a + 1) .. (Len(m) + 1)
  PROVE  /\ Spliced(m, a, e, b) \in Seq(S)
         /\ Len(Spliced(m, a, e, b)) = Len(m) + a + 2 - b
         /\ \A i \in 1 .. (Len(m) + a + 2 - b) :
              Spliced(m, a, e, b)[i] =
                IF i <= a THEN m[i] ELSE IF i = a + 1 THEN e ELSE m[i + b - a - 2]
<1> DEFINE l == SubSeq(m, 1, a)
           r == SubSeq(m, b, Len(m))
           le == l \o <<e>>
<1>0. Len(m) \in Nat /\ a \in Nat /\ b \in Nat /\ a <= Len(m) /\ b <= Len(m) + 1 /\ a < b
  BY LenProperties
<1>1. l \in Seq(S) /\ Len(l) = a /\ \A i \in 1 .. a : l[i] = m[i]
  BY <1>0, SubSeqProperties
<1>2. r \in Seq(S) /\ Len(r) = Len(m) - b + 1 /\ \A i \in 1 .. (Len(m) - b + 1) : r[i] = m[b + i - 1]
  BY <1>0, SubSeqProperties
<1>3. <<e>> \in Seq(S) /\ Len(<<e>>) = 1 /\ <<e>>[1] = e
  OBVIOUS
<1> HIDE DEF l, r
<1>4. /\ le \in Seq(S) /\ Len(le) = a + 1
      /\ \A i \in 1 .. (a + 1) : le[i] = IF i <= a THEN m[i] ELSE e
  BY <1>0, <1>1, <1>3, ConcatProperties
<1> HIDE DEF le
<1>5. /\ le \o r \in Seq(S) /\ Len(le \o r) = Len(le) + Len(r)
      /\ \A i \in 1 .. (Len(le) + Len(r)) : (le \o r)[i] = IF i <= Len(le) THEN le[i] ELSE r[i - Len(le)]
  BY <1>2, <1>4, ConcatProperties
<1>6. Len(le) + Len(r) = Len(m) + a + 2 - b
  BY <1>0, <1>2, <1>4
<1>7. ASSUME NEW i \in 1 .. (Len(m) + a + 2 - b)
      PROVE  (le \o r)[i] = IF i <= a THEN m[i] ELSE IF i = a + 1 THEN e ELSE m[i + b - a - 2]
  <2>1. CASE i <= a + 1
    BY <1>0, <1>4, <1>5, <1>6, <2>1
  <2>2. CASE ~(i <= a + 1)
    <3>1. (le \o r)[i] = r[i - (a + 1)] /\ i - (a + 1) \in 1 .. (Len(m) - b + 1)
      BY <1>0, <1>4, <1>5, <1>6, <2>2
    <3>2. r[i - (a + 1)] = m[b + (i - (a + 1)) - 1] /\ b + (i - (a + 1)) - 1 = i + b - a - 2
      BY <1>0, <1>2, <3>1
    <3>3. ~ (i <= a) /\ i # a + 1
      BY ONLY <1>0, <2>2, i \in 1 .. (Len(m) + a + 2 - b)
    <3>4. (le \o r)[i] = m[i + b - a - 2]
      BY ONLY <3>1, <3>2
    <3> QED
      BY ONLY <3>3, <3>4
  <2> QED
    BY <1>0, <2>1, <2>2
<1>8. Spliced(m, a, e, b) = le \o r
  BY DEF Spliced, le, l, r
<1> QED
  BY <1>5, <1>6, <1>7, <1>8

\* What RemoveAt is: one entry less, those behind it moved up (lshift).
LEMMA RemovedFacts ==
  ASSUME NEW S, NEW m \in Seq(S), NEW j \in 1 .. Len(m)
  PROVE  /\ RemoveAt(m, j) \in Seq(S) /\ Len(RemoveAt(m, j)) = Len(m) - 1
         /\ \A i \in 1 .. (Len(m) - 1) : RemoveAt(m, j)[i] = IF i < j THEN m[i] ELSE m[i + 1]
<1> DEFINE l == SubSeq(m, 1, j - 1)
           r == SubSeq(m, j + 1, Len(m))
<1>0. Len(m) \in Nat /\ j \in Nat /\ 1 <= j /\ j <= Len(m)
  BY LenProperties
<1>1. l \in Seq(S) /\ Len(l) = j - 1 /\ \A i \in 1 .. (j - 1) : l[i] = m[i]
  BY <1>0, SubSeqProperties
<1>2. r \in Seq(S) /\ Len(r) = Len(m) - j /\ \A i \in 1 .. (Len(m) - j) : r[i] = m[j + 1 + i - 1]
  BY <1>0, SubSeqProperties
<1> HIDE DEF l, r
<1>3. /\ l \o r \in Seq(S) /\ Len(l \o r) = Len(l) + Len(r)
      /\ \A i \in 1 .. (Len(l) + Len(r)) : (l \o r)[i] = IF i <= Len(l) THEN l[i] ELSE r[i - Len(l)]
  BY <1>1, <1>2, ConcatProperties
<1>4. Len(l) + Len(r) = Len(m) - 1
  BY <1>0, <1>1, <1>2
<1>5. ASSUME NEW i \in 1 .. (Len(m) - 1)
      PROVE  (l \o r)[i] = IF i < j THEN m[i] ELSE m[i + 1]
  <2>1. CASE i < j
    BY <1>0, <1>1, <1>3, <1>4, <2>1
  <2>2. CASE ~(i < j)
    <3>1. (l \o r)[i] = r[i - (j - 1)] /\ i - (j - 1) \in 1 .. (Len(m) - j)
      BY <1>0, <1>1, <1>3, <1>4, <2>2
    <3>2. r[i - (j - 1)] = m[j + 1 + (i - (j - 1)) - 1] /\ j + 1 + (i - (j - 1)) - 1 = i + 1
      BY <1>0, <1>2, <3>1
    <3>3. (l \o r)[i] = m[i + 1]
      BY ONLY <3>1, <3>2
    <3> QED
      BY ONLY <2>2, <3>3
  <2> QED
    BY <1>0, <2>1, <2>2
<1>6. RemoveAt(m, j) = l \o r
  BY DEF RemoveAt, l, r
<1> QED
  BY <1>3, <1>4, <1>5, <1>6

(***************************************************************************)
(* Lists of runs in increasing order, and the blocks they cover.           *)
(***************************************************************************)
E == [addr : Nat, size : Nat \ {0}]

Has(e, x) == e.addr <= x /\ x < End(e)

Ordered(m) == \A i, j \in 1 .. Len(m) : i < j => End(m[i]) <= m[j].addr

Cov(m) == {x \in Int : \E j \in 1 .. Len(m) : Has(m[j], x)}

\* An entry of the map is a run of at least one block.
LEMMA EntryFacts ==
  ASSUME NEW e \in E
  PROVE  /\ e.addr \in Nat /\ e.size \in Nat /\ e.size # 0 /\ End(e) \in Nat /\ e.addr < End(e)
         /\ e = Entry(e.addr, e.size)
         /\ \A x : x \in Run(e) <=> x \in Int /\ Has(e, x)
<1>1. e.addr \in Nat /\ e.size \in Nat /\ e.size # 0
  BY DEF E
<1>2. End(e) \in Nat /\ e.addr < End(e)
  BY <1>1 DEF End
<1>3. e = Entry(e.addr, e.size)
  BY DEF E, Entry
<1>4. \A x : x \in Run(e) <=> x \in Int /\ Has(e, x)
  BY <1>1, <1>2 DEF Run, Has
<1> QED
  BY <1>1, <1>2, <1>3, <1>4

\* An entry is made of its address and its size.
LEMMA MakeEntry ==
  ASSUME NEW a \in Nat, NEW n \in Nat, n # 0
  PROVE  Entry(a, n) \in E /\ Entry(a, n).addr = a /\ Entry(a, n).size = n /\ End(Entry(a, n)) = a + n
BY DEF Entry, E, End

\* Every element of the map is an entry.
LEMMA ElementFacts ==
  ASSUME NEW m \in Seq(E), NEW i \in 1 .. Len(m)
  PROVE  m[i] \in E /\ m[i].addr \in Nat /\ End(m[i]) \in Nat /\ m[i].addr < End(m[i])
<1>1. m[i] \in E
  BY ElementOfSeq
<1> QED
  BY <1>1, EntryFacts

\* A run taken out of the list takes its blocks out.
LEMMA RemoveCov ==
  ASSUME NEW m \in Seq(E), Ordered(m), NEW j \in 1 .. Len(m)
  PROVE  /\ RemoveAt(m, j) \in Seq(E) /\ Ordered(RemoveAt(m, j))
         /\ Cov(RemoveAt(m, j)) = Cov(m) \ Run(m[j])
<1> DEFINE r == RemoveAt(m, j)
           at(i) == IF i < j THEN i ELSE i + 1
<1>0. Len(m) \in Nat /\ j \in Nat /\ 1 <= j /\ j <= Len(m)
  BY LenProperties
<1>1. r \in Seq(E) /\ Len(r) = Len(m) - 1 /\ \A i \in 1 .. (Len(m) - 1) : r[i] = m[at(i)]
  BY RemovedFacts
<1> HIDE DEF r
<1>2. \A i \in 1 .. (Len(m) - 1) : at(i) \in 1 .. Len(m) /\ at(i) # j
  BY <1>0
<1>3. \A i, k \in 1 .. (Len(m) - 1) : i < k => at(i) < at(k)
  BY <1>0
<1>4. \A k \in 1 .. Len(m) : k # j => \E i \in 1 .. (Len(m) - 1) : at(i) = k
  <2> TAKE k \in 1 .. Len(m)
  <2>1. CASE k < j
    <3>1. k \in 1 .. (Len(m) - 1) /\ at(k) = k
      BY <1>0, <2>1
    <3> QED
      BY <3>1
  <2>2. CASE k > j
    <3>1. k - 1 \in 1 .. (Len(m) - 1) /\ at(k - 1) = k
      BY <1>0, <2>2
    <3> QED
      BY <3>1
  <2> QED
    BY <1>0, <2>1, <2>2
<1> HIDE DEF at
<1>5. Ordered(r)
  BY <1>1, <1>2, <1>3 DEF Ordered
<1>6. ASSUME NEW x \in Cov(r) PROVE x \in Cov(m) /\ x \notin Run(m[j])
  <2>1. PICK i \in 1 .. (Len(m) - 1) : x \in Int /\ Has(m[at(i)], x)
    BY <1>1 DEF Cov
  <2>2. x \in Cov(m)
    BY <1>2, <2>1 DEF Cov
  <2>3. ~ Has(m[j], x)
    <3>1. at(i) \in 1 .. Len(m) /\ at(i) # j /\ at(i) \in Int
      BY <1>2
    <3>2. /\ m[j].addr \in Nat /\ End(m[j]) \in Nat /\ m[j].addr < End(m[j])
          /\ m[at(i)].addr \in Nat /\ End(m[at(i)]) \in Nat /\ m[at(i)].addr < End(m[at(i)])
      BY <3>1, ElementFacts
    <3>3. End(m[j]) <= m[at(i)].addr \/ End(m[at(i)]) <= m[j].addr
      BY <1>0, <3>1 DEF Ordered
    <3> QED
      BY <2>1, <3>2, <3>3 DEF Has
  <2> QED
    BY <2>2, <2>3, ElementFacts, EntryFacts
<1>7. ASSUME NEW x \in Cov(m), x \notin Run(m[j]) PROVE x \in Cov(r)
  <2>1. PICK k \in 1 .. Len(m) : x \in Int /\ Has(m[k], x)
    BY DEF Cov
  <2>2. k # j
    BY <1>7, <2>1, ElementFacts, EntryFacts
  <2>3. PICK i \in 1 .. (Len(m) - 1) : at(i) = k
    BY <1>4, <2>2
  <2>4. Has(r[i], x)
    BY <1>1, <2>1, <2>3
  <2> QED
    BY <1>1, <2>1, <2>4 DEF Cov
<1> QED
  BY <1>1, <1>5, <1>6, <1>7 DEF r

\* A run that loses its head loses the head's blocks.
LEMMA TrimCov ==
  ASSUME NEW m \in Seq(E), Ordered(m), NEW j \in 1 .. Len(m), NEW n \in Nat, n # 0, n < m[j].size
  PROVE  LET t == [m EXCEPT ![j] = Entry(@.addr + n, @.size - n)]
         IN  t \in Seq(E) /\ Ordered(t) /\ Cov(t) = Cov(m) \ Run(Entry(m[j].addr, n))
<1> DEFINE e == Entry(m[j].addr + n, m[j].size - n)
           h == Entry(m[j].addr, n)
           t == [m EXCEPT ![j] = e]
<1>0. m[j] \in E /\ m[j].addr \in Nat /\ m[j].size \in Nat /\ End(m[j]) = m[j].addr + m[j].size
  <2>1. m[j] \in E
    BY ElementFacts
  <2> QED
    BY <2>1 DEF E, End
<1>1. e \in E /\ e.addr = m[j].addr + n /\ End(e) = End(m[j]) /\ e.addr \in Nat /\ End(e) \in Nat
  <2>1. m[j].addr + n \in Nat /\ m[j].size - n \in Nat /\ m[j].size - n # 0
    BY <1>0
  <2>2. e \in E /\ e.addr = m[j].addr + n /\ End(e) = (m[j].addr + n) + (m[j].size - n)
    BY <2>1, MakeEntry
  <2> HIDE DEF e
  <2> QED
    BY <1>0, <2>2
<1>2. h \in E /\ h.addr = m[j].addr /\ End(h) = m[j].addr + n
  BY <1>0, MakeEntry
<1> HIDE DEF e, h
<1>3. /\ t \in Seq(E) /\ Len(t) = Len(m) /\ t[j] = e
      /\ \A i \in 1 .. Len(m) : i # j => t[i] = m[i]
  BY <1>1
<1> HIDE DEF t
<1>4. \A i \in 1 .. Len(m) : m[i].addr \in Nat /\ End(m[i]) \in Nat /\ m[i].addr < End(m[i])
  BY ElementFacts
<1>5. \A i \in 1 .. Len(m) : End(t[i]) = End(m[i]) /\ m[i].addr <= t[i].addr /\ t[i].addr \in Nat
  <2> TAKE i \in 1 .. Len(m)
  <2>1. CASE i = j
    BY <1>0, <1>1, <1>3, <2>1
  <2>2. CASE i # j
    BY <1>3, <1>4, <2>2
  <2> QED
    BY <2>1, <2>2
<1>6. Ordered(t)
  <2> SUFFICES ASSUME NEW i \in 1 .. Len(m), NEW k \in 1 .. Len(m), i < k
               PROVE  End(t[i]) <= t[k].addr
    BY <1>3 DEF Ordered
  <2>1. End(m[i]) <= m[k].addr
    BY DEF Ordered
  <2> QED
    BY <1>4, <1>5, <2>1
<1>7. \A x : x \in Run(h) <=> x \in Int /\ m[j].addr <= x /\ x < m[j].addr + n
  BY <1>2, EntryFacts DEF Has
<1>8. ASSUME NEW x \in Cov(t) PROVE x \in Cov(m) /\ x \notin Run(h)
  <2>1. PICK i \in 1 .. Len(m) : x \in Int /\ Has(t[i], x)
    BY <1>3 DEF Cov
  <2>2. Has(m[i], x)
    BY <1>4, <1>5, <2>1 DEF Has
  <2>3. CASE i = j
    BY <1>0, <1>1, <1>3, <1>7, <2>1, <2>2, <2>3 DEF Cov, Has
  <2>4. CASE i # j
    <3>1. End(m[j]) <= m[i].addr \/ End(m[i]) <= m[j].addr
      BY <2>4 DEF Ordered
    <3>2. ~ (m[j].addr <= x /\ x < m[j].addr + n)
      BY <1>0, <1>4, <2>1, <2>2, <3>1 DEF Has
    <3> QED
      BY <1>7, <2>1, <2>2, <3>2 DEF Cov
  <2> QED
    BY <2>3, <2>4
<1>9. ASSUME NEW x \in Cov(m), x \notin Run(h) PROVE x \in Cov(t)
  <2>1. PICK i \in 1 .. Len(m) : x \in Int /\ Has(m[i], x)
    BY DEF Cov
  <2>2. Has(t[i], x)
    <3>1. CASE i = j
      BY <1>0, <1>1, <1>3, <1>7, <1>9, <2>1, <3>1 DEF Has
    <3>2. CASE i # j
      BY <1>3, <2>1, <3>2
    <3> QED
      BY <3>1, <3>2
  <2> QED
    BY <1>3, <2>1, <2>2 DEF Cov
<1> QED
  BY <1>3, <1>6, <1>8, <1>9 DEF t, e, h

\* A run that covers none of the list's blocks, put before the first run
\* that is not below it, adds its blocks.
LEMMA InsertCov ==
  ASSUME NEW m \in Seq(E), Ordered(m), NEW e \in E, Run(e) \cap Cov(m) = {},
         NEW j \in 1 .. (Len(m) + 1),
         \A i \in 1 .. Len(m) : i < j => m[i].addr < e.addr,
         \A i \in 1 .. Len(m) : i >= j => m[i].addr >= e.addr
  PROVE  LET s == InsertAt(m, j, e)
         IN  s \in Seq(E) /\ Len(s) = Len(m) + 1 /\ Ordered(s) /\ Cov(s) = Cov(m) \cup Run(e)
<1> DEFINE s == InsertAt(m, j, e)
<1>0. Len(m) \in Nat /\ j \in Nat /\ 1 <= j /\ j <= Len(m) + 1
  BY LenProperties
<1>1. e.addr \in Nat /\ End(e) \in Nat /\ e.addr < End(e) /\ \A x : x \in Run(e) <=> x \in Int /\ Has(e, x)
  BY EntryFacts
<1>2. /\ s \in Seq(E) /\ Len(s) = Len(m) + 1
      /\ \A i \in 1 .. (Len(m) + 1) : s[i] = IF i < j THEN m[i] ELSE IF i = j THEN e ELSE m[i - 1]
  <2> DEFINE a == j - 1
  <2>0. s = Spliced(m, a, e, j)
    BY DEF InsertAt, Spliced
  <2>1. a \in 0 .. Len(m) /\ j \in (a + 1) .. (Len(m) + 1)
    BY <1>0
  <2>2. Len(m) + a + 2 - j = Len(m) + 1
    BY <1>0
  <2>3. \A i \in 1 .. (Len(m) + 1) : (i <= a <=> i < j) /\ a + 1 = j /\ i + j - a - 2 = i - 1
    BY <1>0
  <2> HIDE DEF s, a
  <2>4. /\ s \in Seq(E) /\ Len(s) = Len(m) + a + 2 - j
        /\ \A i \in 1 .. (Len(m) + a + 2 - j) :
              s[i] = IF i <= a THEN m[i] ELSE IF i = a + 1 THEN e ELSE m[i + j - a - 2]
    <3>1. /\ Spliced(m, a, e, j) \in Seq(E) /\ Len(Spliced(m, a, e, j)) = Len(m) + a + 2 - j
          /\ \A i \in 1 .. (Len(m) + a + 2 - j) :
              Spliced(m, a, e, j)[i] = IF i <= a THEN m[i] ELSE IF i = a + 1 THEN e ELSE m[i + j - a - 2]
      BY <2>1, SplicedFacts
    <3> QED
      BY <2>0, <3>1
  <2> QED
    BY <2>2, <2>3, <2>4
<1> HIDE DEF s
<1>3. \A i \in 1 .. Len(m) : m[i].addr \in Nat /\ End(m[i]) \in Nat /\ m[i].addr < End(m[i])
  BY ElementFacts
<1>4. ASSUME NEW i \in 1 .. Len(m), NEW x \in Int, Has(m[i], x), Has(e, x) PROVE FALSE
  BY <1>1, <1>4 DEF Cov
<1>5. \A i \in 1 .. Len(m) : i < j => End(m[i]) <= e.addr
  <2> SUFFICES ASSUME NEW i \in 1 .. Len(m), i < j, ~ (End(m[i]) <= e.addr) PROVE FALSE
    OBVIOUS
  <2>1. Has(m[i], e.addr) /\ Has(e, e.addr) /\ e.addr \in Int
    BY <1>1, <1>3 DEF Has
  <2> QED
    BY <1>4, <2>1
<1>6. \A i \in 1 .. Len(m) : i >= j => End(e) <= m[i].addr
  <2> SUFFICES ASSUME NEW i \in 1 .. Len(m), i >= j, ~ (End(e) <= m[i].addr) PROVE FALSE
    OBVIOUS
  <2>1. Has(m[i], m[i].addr) /\ Has(e, m[i].addr) /\ m[i].addr \in Int
    BY <1>1, <1>3 DEF Has
  <2> QED
    BY <1>4, <2>1
<1>7. Ordered(s)
  <2> SUFFICES ASSUME NEW i \in 1 .. (Len(m) + 1), NEW k \in 1 .. (Len(m) + 1), i < k
               PROVE  End(s[i]) <= s[k].addr
    BY <1>2 DEF Ordered
  <2>1. CASE k < j
    BY <1>0, <1>2, <2>1 DEF Ordered
  <2>2. CASE k = j
    BY <1>0, <1>2, <1>5, <2>2
  <2>3. CASE k > j
    <3>1. s[k] = m[k - 1] /\ k - 1 \in 1 .. Len(m) /\ k - 1 >= j
      BY <1>0, <1>2, <2>3
    <3>2. CASE i < j
      <4>1. s[i] = m[i] /\ i \in 1 .. Len(m) /\ i < k - 1
        BY <1>0, <1>2, <3>1, <3>2
      <4> QED
        BY <3>1, <4>1 DEF Ordered
    <3>3. CASE i = j
      BY <1>0, <1>2, <1>6, <3>1, <3>3
    <3>4. CASE i > j
      <4>1. s[i] = m[i - 1] /\ i - 1 \in 1 .. Len(m) /\ i - 1 < k - 1
        BY <1>0, <1>2, <3>4
      <4> QED
        BY <3>1, <4>1 DEF Ordered
    <3> QED
      BY <1>0, <3>2, <3>3, <3>4
  <2> QED
    BY <1>0, <2>1, <2>2, <2>3
<1>8. ASSUME NEW x \in Cov(s) PROVE x \in Cov(m) \cup Run(e)
  <2>1. PICK i \in 1 .. (Len(m) + 1) : x \in Int /\ Has(s[i], x)
    BY <1>2 DEF Cov
  <2>2. CASE i < j
    BY <1>0, <1>2, <2>1, <2>2 DEF Cov
  <2>3. CASE i = j
    BY <1>0, <1>1, <1>2, <2>1, <2>3
  <2>4. CASE i > j
    <3>1. s[i] = m[i - 1] /\ i - 1 \in 1 .. Len(m)
      BY <1>0, <1>2, <2>4
    <3> QED
      BY <2>1, <3>1 DEF Cov
  <2> QED
    BY <1>0, <2>2, <2>3, <2>4
<1>9. ASSUME NEW x \in Cov(m) PROVE x \in Cov(s)
  <2>1. PICK i \in 1 .. Len(m) : x \in Int /\ Has(m[i], x)
    BY DEF Cov
  <2>2. CASE i < j
    <3>1. i \in 1 .. (Len(m) + 1) /\ s[i] = m[i]
      BY <1>0, <1>2, <2>2
    <3> QED
      BY <1>2, <2>1, <3>1 DEF Cov
  <2>3. CASE ~ (i < j)
    <3>1. i + 1 \in 1 .. (Len(m) + 1) /\ s[i + 1] = m[i]
      <4>1. i + 1 \in 1 .. (Len(m) + 1) /\ ~ (i + 1 < j) /\ i + 1 # j /\ (i + 1) - 1 = i
        BY <1>0, <2>3
      <4> QED
        BY <1>2, <4>1
    <3> QED
      BY <1>2, <2>1, <3>1 DEF Cov
  <2> QED
    BY <2>2, <2>3
<1>10. ASSUME NEW x \in Run(e) PROVE x \in Cov(s)
  <2>1. x \in Int /\ Has(e, x)
    BY <1>1
  <2>2. j \in 1 .. (Len(m) + 1) /\ s[j] = e
    BY <1>0, <1>2
  <2> QED
    BY <1>2, <2>1, <2>2 DEF Cov
<1> QED
  BY <1>2, <1>7, <1>8, <1>9, <1>10 DEF s

\* Runs that follow each other without a gap can be made one.
LEMMA JoinCov ==
  ASSUME NEW m \in Seq(E), Ordered(m), NEW k \in 1 .. Len(m), NEW n \in k .. Len(m),
         \A j \in k .. n - 1 : End(m[j]) = m[j + 1].addr
  PROVE  Join(m, k, n) \in Seq(E) /\ Ordered(Join(m, k, n)) /\ Cov(Join(m, k, n)) = Cov(m)
<1> DEFINE e == Entry(m[k].addr, End(m[n]) - m[k].addr)
           s == Join(m, k, n)
           d == n - k
<1>0. Len(m) \in Nat /\ k \in Nat /\ n \in Nat /\ 1 <= k /\ k <= n /\ n <= Len(m) /\ d \in Nat /\ n = k + d
  BY LenProperties
<1>1. \A i \in 1 .. Len(m) : m[i].addr \in Nat /\ End(m[i]) \in Nat /\ m[i].addr < End(m[i])
  BY ElementFacts
<1>2. \A i \in k .. n : i \in 1 .. Len(m) /\ m[k].addr <= m[i].addr /\ End(m[i]) <= End(m[n])
  <2> TAKE i \in k .. n
  <2>1. i \in 1 .. Len(m) /\ n \in 1 .. Len(m) /\ i \in Int
    BY <1>0
  <2>2. i = k \/ End(m[k]) <= m[i].addr
    BY <1>0, <2>1 DEF Ordered
  <2>3. i = n \/ End(m[i]) <= m[n].addr
    BY <1>0, <2>1 DEF Ordered
  <2>4. m[k].addr <= m[i].addr
    BY <1>1, <2>1, <2>2
  <2>5. End(m[i]) <= End(m[n])
    BY <1>1, <2>1, <2>3
  <2> QED
    BY <2>1, <2>4, <2>5
<1>3. e \in E /\ e.addr = m[k].addr /\ End(e) = End(m[n])
  <2>1. k \in k .. n /\ n \in 1 .. Len(m)
    BY <1>0
  <2>2. m[k].addr \in Nat /\ End(m[n]) \in Nat /\ m[k].addr < End(m[n])
    BY <1>1, <1>2, <2>1
  <2>3. End(m[n]) - m[k].addr \in Nat /\ End(m[n]) - m[k].addr # 0
    BY <2>2
  <2>4. e \in E /\ e.addr = m[k].addr /\ End(e) = m[k].addr + (End(m[n]) - m[k].addr)
    BY <2>2, <2>3, MakeEntry
  <2> HIDE DEF e
  <2> QED
    BY <2>2, <2>4
<1>4. /\ s \in Seq(E) /\ Len(s) = Len(m) - d
      /\ \A i \in 1 .. (Len(m) - d) : s[i] = IF i < k THEN m[i] ELSE IF i = k THEN e ELSE m[i + d]
  <2> DEFINE a == k - 1
             b == n + 1
  <2>0. s = Spliced(m, a, e, b)
    BY DEF Join, Spliced
  <2>1. a \in 0 .. Len(m) /\ b \in (a + 1) .. (Len(m) + 1)
    BY <1>0
  <2>2. Len(m) + a + 2 - b = Len(m) - d
    BY <1>0
  <2>3. \A i \in 1 .. (Len(m) - d) : (i <= a <=> i < k) /\ a + 1 = k /\ i + b - a - 2 = i + d
    BY <1>0
  <2> HIDE DEF e, s, a, b, d
  <2>4. /\ s \in Seq(E) /\ Len(s) = Len(m) + a + 2 - b
        /\ \A i \in 1 .. (Len(m) + a + 2 - b) :
              s[i] = IF i <= a THEN m[i] ELSE IF i = a + 1 THEN e ELSE m[i + b - a - 2]
    <3>1. /\ Spliced(m, a, e, b) \in Seq(E) /\ Len(Spliced(m, a, e, b)) = Len(m) + a + 2 - b
          /\ \A i \in 1 .. (Len(m) + a + 2 - b) :
              Spliced(m, a, e, b)[i] = IF i <= a THEN m[i] ELSE IF i = a + 1 THEN e ELSE m[i + b - a - 2]
      BY <1>3, <2>1, SplicedFacts
    <3> QED
      BY <2>0, <3>1
  <2> QED
    BY <2>2, <2>3, <2>4
<1> HIDE DEF e, s, d
<1>5. Ordered(s)
  <2> SUFFICES ASSUME NEW i \in 1 .. (Len(m) - d), NEW j \in 1 .. (Len(m) - d), i < j
               PROVE  End(s[i]) <= s[j].addr
    BY <1>4 DEF Ordered
  <2>0. i \in Nat /\ j \in Nat /\ 1 <= i /\ j <= Len(m) - d
    BY <1>0
  <2>1. CASE j < k
    BY <1>0, <1>4, <2>0, <2>1 DEF Ordered
  <2>2. CASE j = k
    BY <1>0, <1>3, <1>4, <2>0, <2>2 DEF Ordered
  <2>3. CASE j > k
    <3>1. s[j] = m[j + d] /\ j + d \in 1 .. Len(m) /\ n < j + d
      BY <1>0, <1>4, <2>0, <2>3
    <3>2. CASE i < k
      <4>1. s[i] = m[i] /\ i \in 1 .. Len(m) /\ i < j + d
        BY <1>0, <1>4, <2>0, <3>2
      <4> QED
        BY <3>1, <4>1 DEF Ordered
    <3>3. CASE i = k
      <4>1. s[i] = e /\ n \in 1 .. Len(m)
        BY <1>0, <1>4, <2>0, <3>3
      <4>2. End(m[n]) <= m[j + d].addr
        BY <3>1, <4>1 DEF Ordered
      <4> QED
        BY <1>3, <3>1, <4>1, <4>2
    <3>4. CASE i > k
      <4>1. s[i] = m[i + d] /\ i + d \in 1 .. Len(m) /\ i + d < j + d
        BY <1>0, <1>4, <2>0, <3>4
      <4> QED
        BY <3>1, <4>1 DEF Ordered
    <3> QED
      BY <1>0, <2>0, <3>2, <3>3, <3>4
  <2> QED
    BY <1>0, <2>0, <2>1, <2>2, <2>3
<1>6. ASSUME NEW x \in Cov(s) PROVE x \in Cov(m)
  <2>1. PICK i \in 1 .. (Len(m) - d) : x \in Int /\ Has(s[i], x)
    BY <1>4 DEF Cov
  <2>0. i \in Nat /\ 1 <= i /\ i <= Len(m) - d
    BY <1>0
  <2>2. CASE i < k
    <3>1. s[i] = m[i] /\ i \in 1 .. Len(m)
      BY <1>0, <1>4, <2>0, <2>2
    <3> QED
      BY <2>1, <3>1 DEF Cov
  <2>3. CASE i > k
    <3>1. s[i] = m[i + d] /\ i + d \in 1 .. Len(m)
      BY <1>0, <1>4, <2>0, <2>3
    <3> QED
      BY <2>1, <3>1 DEF Cov
  <2>4. CASE i = k
    <3> DEFINE T == {j \in k .. n : x < End(m[j])}
    <3>1. m[k].addr <= x /\ x < End(m[n])
      BY <1>0, <1>3, <1>4, <2>0, <2>1, <2>4 DEF Has
    <3>2. T \in SUBSET Nat /\ n \in T
      BY <1>0, <3>1
    <3>3. PICK j \in T : \A l \in T : j <= l
      BY <3>2, LeastExists
    <3>4. j \in k .. n /\ j \in 1 .. Len(m) /\ j \in Int /\ x < End(m[j])
      BY <1>2, <3>3
    <3>5. m[j].addr <= x
      <4>1. CASE j = k
        BY <3>1, <4>1
      <4>2. CASE j # k
        <5>1. j - 1 \in k .. n - 1 /\ j - 1 \in k .. n /\ (j - 1) + 1 = j /\ ~ (j <= j - 1)
          BY <1>0, <3>4, <4>2
        <5>2. ~ (x < End(m[j - 1]))
          BY <3>3, <5>1
        <5>3. End(m[j - 1]) = m[j].addr
          BY <5>1
        <5>4. m[j].addr \in Nat
          BY <1>1, <3>4
        <5> QED
          BY <2>1, <5>2, <5>3, <5>4
      <4> QED
        BY <4>1, <4>2
    <3> QED
      BY <2>1, <3>4, <3>5 DEF Cov, Has
  <2> QED
    BY <1>0, <2>0, <2>2, <2>3, <2>4
<1>7. ASSUME NEW x \in Cov(m) PROVE x \in Cov(s)
  <2>1. PICK i \in 1 .. Len(m) : x \in Int /\ Has(m[i], x)
    BY DEF Cov
  <2>0. i \in Nat /\ 1 <= i /\ i <= Len(m)
    BY <1>0
  <2>2. CASE i < k
    <3>1. s[i] = m[i] /\ i \in 1 .. (Len(m) - d)
      BY <1>0, <1>4, <2>0, <2>2
    <3> QED
      BY <1>4, <2>1, <3>1 DEF Cov
  <2>3. CASE i > n
    <3>1. i - d \in 1 .. (Len(m) - d) /\ ~ (i - d < k) /\ i - d # k /\ (i - d) + d = i
      BY <1>0, <2>0, <2>3
    <3>2. s[i - d] = m[i]
      BY <1>4, <3>1
    <3> QED
      BY <1>4, <2>1, <3>1, <3>2 DEF Cov
  <2>4. CASE k <= i /\ i <= n
    <3>1. i \in k .. n
      BY <1>0, <2>0, <2>4
    <3>2. k \in 1 .. (Len(m) - d) /\ s[k] = e
      BY <1>0, <1>4
    <3>3. /\ m[k].addr \in Nat /\ m[i].addr \in Nat /\ End(m[i]) \in Nat /\ End(m[n]) \in Nat
          /\ m[k].addr <= m[i].addr /\ End(m[i]) <= End(m[n])
      BY <1>0, <1>1, <1>2, <3>1
    <3>4. Has(e, x)
      BY <1>3, <2>1, <3>3 DEF Has
    <3> QED
      BY <1>4, <2>1, <3>2, <3>4 DEF Cov
  <2> QED
    BY <1>0, <2>0, <2>2, <2>3, <2>4
<1> QED
  BY <1>4, <1>5, <1>6, <1>7 DEF s

-----------------------------------------------------------------------------
(***************************************************************************)
(* The invariant: the map is in order and has no empty entry, every free   *)
(* block is in the swap area, and an image's blocks are in the area, not   *)
(* free, and its own.                                                      *)
(***************************************************************************)
Blocks == SwapAddr .. SwapAddr + SwapSize - 1

IInv ==
  /\ map \in Seq(E) /\ Ordered(map) /\ Cov(map) \subseteq Blocks
  /\ image \in [Slot -> E \cup {Nowhere}]
  /\ \A p \in Slot : image[p] # Nowhere =>
       /\ Run(image[p]) \subseteq Blocks /\ Run(image[p]) \cap Cov(map) = {}
       /\ \A q \in Slot : q # p => Run(image[p]) \cap Run(image[q]) = {}

\* A process without an image has no blocks.
LEMMA NowhereFacts == Nowhere \notin E /\ Run(Nowhere) = {}
BY DEF Nowhere, Entry, E, Run, End

\* The blocks of the runs of a map are those it covers.
LEMMA FreeIsCov ==
  ASSUME NEW m \in Seq(E)
  PROVE  UNION {Run(m[j]) : j \in DOMAIN m} = Cov(m)
<1>1. DOMAIN m = 1 .. Len(m)
  OBVIOUS
<1>2. \A j \in 1 .. Len(m) : \A x : x \in Run(m[j]) <=> x \in Int /\ Has(m[j], x)
  BY ElementFacts, EntryFacts
<1> QED
  BY <1>1, <1>2 DEF Cov

\* swapinit makes the whole area one free run.
LEMMA InitInv == Init => IInv /\ Cov(map) = Blocks
<1> SUFFICES ASSUME Init PROVE IInv /\ Cov(map) = Blocks
  OBVIOUS
<1> DEFINE e == Entry(SwapAddr, SwapSize)
<1>1. e \in E /\ e.addr = SwapAddr /\ End(e) = SwapAddr + SwapSize /\ SwapAddr \in Nat /\ SwapSize \in Nat
  BY SwapAssumption, MakeEntry
<1>2. map = <<e>> /\ image = [p \in Slot |-> Nowhere]
  BY DEF Init
<1> HIDE DEF e
<1>3. map \in Seq(E) /\ Len(map) = 1 /\ map[1] = e
  BY <1>1, <1>2
<1>4. Ordered(map)
  BY <1>3 DEF Ordered
<1>5. Cov(map) = Blocks
  <2>1. \A j \in 1 .. Len(map) : j = 1
    BY <1>3
  <2>2. \A x : x \in Cov(map) <=> x \in Int /\ Has(e, x)
    BY <1>3, <2>1 DEF Cov
  <2>3. \A x : x \in Blocks <=> x \in Int /\ Has(e, x)
    BY <1>1 DEF Blocks, Has
  <2> QED
    BY <2>2, <2>3
<1> QED
  BY <1>2, <1>3, <1>4, <1>5 DEF IInv

\* What salloc does to the blocks.
LEMMA sallocEffect ==
  ASSUME IInv, NEW p \in Slot, NEW n \in Sizes, salloc(p, n)
  PROVE  \E e \in E :
           /\ e = Entry(e.addr, n) /\ image[p] = Nowhere /\ image' = [image EXCEPT ![p] = e]
           /\ Run(e) \subseteq Cov(map)
           /\ map' \in Seq(E) /\ Ordered(map') /\ Cov(map') = Cov(map) \ Run(e)
<1> DEFINE j == Min(LongEnough(n))
           e == Entry(map[j].addr, n)
<1>0. n \in Nat /\ n # 0 /\ map \in Seq(E) /\ Ordered(map)
  BY SwapAssumption DEF IInv
<1>1. j \in 1 .. Len(map) /\ map[j].size >= n
  <2>1. LongEnough(n) \in SUBSET Nat /\ LongEnough(n) # {}
    BY <1>0 DEF salloc, LongEnough
  <2>2. j \in LongEnough(n)
    BY <2>1, MinIs
  <2> QED
    BY <1>0, <2>2 DEF LongEnough
<1>2. /\ image[p] = Nowhere /\ image' = [image EXCEPT ![p] = e]
      /\ map' = IF map[j].size = n THEN RemoveAt(map, j)
                ELSE [map EXCEPT ![j] = Entry(@.addr + n, @.size - n)]
  BY DEF salloc
<1> HIDE DEF j
<1>3. map[j] \in E /\ map[j].addr \in Nat /\ map[j].size \in Nat /\ End(map[j]) = map[j].addr + map[j].size
  <2>1. map[j] \in E
    BY <1>0, <1>1, ElementFacts
  <2> QED
    BY <2>1 DEF E, End
<1>4. e \in E /\ e.addr = map[j].addr /\ End(e) = map[j].addr + n
  BY <1>0, <1>3, MakeEntry
<1>5. Run(e) \subseteq Cov(map)
  <2> SUFFICES ASSUME NEW x \in Run(e) PROVE x \in Cov(map)
    OBVIOUS
  <2>1. x \in Int /\ e.addr <= x /\ x < End(e)
    BY <1>4, EntryFacts DEF Has
  <2> HIDE DEF e
  <2>2. Has(map[j], x)
    BY <1>0, <1>1, <1>3, <1>4, <2>1 DEF Has
  <2> QED
    BY <1>1, <2>1, <2>2 DEF Cov
<1>6. CASE map[j].size = n
  <2>1. map[j] = e
    BY <1>3, <1>6, EntryFacts
  <2>2. map' = RemoveAt(map, j)
    BY <1>2, <1>6
  <2>3. map' \in Seq(E) /\ Ordered(map') /\ Cov(map') = Cov(map) \ Run(e)
    BY <1>0, <1>1, <2>1, <2>2, RemoveCov
  <2> QED
    BY <1>2, <1>4, <1>5, <2>3
<1>7. CASE map[j].size # n
  <2>1. map' = [map EXCEPT ![j] = Entry(@.addr + n, @.size - n)]
    BY <1>2, <1>7
  <2>2. n < map[j].size
    BY <1>0, <1>1, <1>3, <1>7
  <2>3. map' \in Seq(E) /\ Ordered(map') /\ Cov(map') = Cov(map) \ Run(e)
    BY <1>0, <1>1, <2>1, <2>2, TrimCov
  <2> QED
    BY <1>2, <1>4, <1>5, <2>3
<1> QED
  BY <1>6, <1>7

\* What sfree does to the blocks.
LEMMA sfreeEffect ==
  ASSUME IInv, NEW p \in Slot, sfree(p)
  PROVE  /\ image[p] \in E /\ image' = [image EXCEPT ![p] = Nowhere]
         /\ map' \in Seq(E) /\ Ordered(map') /\ Cov(map') = Cov(map) \cup Run(image[p])
<1> DEFINE e == image[p]
           j == Place(e.addr)
           m == InsertAt(map, j, e)
           k == Max({j - 1, 1})
           U == {i \in k .. Len(m) : \A l \in k .. i - 1 : End(m[l]) = m[l + 1].addr}
           n == LastJoined(m, k)
<1>0. map \in Seq(E) /\ Ordered(map) /\ Len(map) \in Nat /\ e \in E /\ Run(e) \cap Cov(map) = {} /\ e.addr \in Nat
  <2>1. e \in E
    BY DEF sfree, IInv
  <2> QED
    BY <2>1, EntryFacts DEF IInv, sfree
<1>1. image' = [image EXCEPT ![p] = Nowhere] /\ map' = Join(m, k, n)
  BY DEF sfree
<1>2. /\ j \in 1 .. (Len(map) + 1)
      /\ \A i \in 1 .. Len(map) : i < j => map[i].addr < e.addr
      /\ \A i \in 1 .. Len(map) : i >= j => map[i].addr >= e.addr
  <2> DEFINE T == {i \in DOMAIN map : map[i].addr >= e.addr} \cup {Len(map) + 1}
  <2>1. DOMAIN map = 1 .. Len(map)
    BY <1>0
  <2>2. T \in SUBSET Nat /\ T # {} /\ \A i \in T : i \in 1 .. (Len(map) + 1)
    BY <1>0, <2>1
  <2>3. j = Min(T)
    BY DEF Place
  <2>4. j \in T /\ \A i \in T : j <= i
    BY <2>2, <2>3, MinIs
  <2> HIDE DEF j
  <2>5. j \in 1 .. (Len(map) + 1)
    BY <2>2, <2>4
  <2>6. ASSUME NEW i \in 1 .. Len(map), i < j PROVE map[i].addr < e.addr
    <3>1. i \notin T
      BY <2>4, <2>5, <2>6
    <3> QED
      BY <1>0, <2>1, <3>1, ElementFacts
  <2>7. ASSUME NEW i \in 1 .. Len(map), i >= j PROVE map[i].addr >= e.addr
    <3>1. j \in 1 .. Len(map) /\ map[j].addr >= e.addr /\ i \in Int /\ j \in Int
      BY <1>0, <2>1, <2>4, <2>5, <2>7
    <3>2. i = j \/ End(map[j]) <= map[i].addr
      BY <1>0, <2>7, <3>1 DEF Ordered
    <3>3. map[j].addr \in Nat /\ map[i].addr \in Nat /\ End(map[j]) \in Nat /\ map[j].addr < End(map[j])
      BY <1>0, <3>1, ElementFacts
    <3> QED
      BY <1>0, <3>1, <3>2, <3>3
  <2> QED
    BY <2>5, <2>6, <2>7
<1> HIDE DEF e, j
<1>3. m \in Seq(E) /\ Len(m) = Len(map) + 1 /\ Ordered(m) /\ Cov(m) = Cov(map) \cup Run(e)
  BY <1>0, <1>2, InsertCov
<1> HIDE DEF m
<1>4. k \in 1 .. Len(m)
  <2>1. j - 1 \in Int /\ j - 1 <= Len(map) /\ j \in Nat
    BY <1>0, <1>2
  <2>2. k \in {j - 1, 1} /\ k >= 1
    <3>1. \E x \in {j - 1, 1} : \A y \in {j - 1, 1} : x >= y
      BY <2>1
    <3>2. k \in {j - 1, 1} /\ \A y \in {j - 1, 1} : k >= y
      BY <3>1 DEF Max
    <3> QED
      BY <3>2
  <2> HIDE DEF k
  <2> QED
    BY <1>0, <1>3, <2>1, <2>2
<1> HIDE DEF k
<1>5. n \in k .. Len(m) /\ \A l \in k .. n - 1 : End(m[l]) = m[l + 1].addr
  <2>1. U \in SUBSET (0 .. Len(m)) /\ Len(m) \in Nat
    BY <1>0, <1>3, <1>4
  <2>2. k \in U
    BY <1>4
  <2>3. n = Max(U)
    BY DEF LastJoined
  <2>4. n \in U
    <3> HIDE DEF U
    <3> QED
      BY <2>1, <2>2, <2>3, MaxIs
  <2> QED
    BY <2>4
<1> HIDE DEF n
<1>6. map' \in Seq(E) /\ Ordered(map') /\ Cov(map') = Cov(m)
  BY <1>1, <1>3, <1>4, <1>5, JoinCov
<1> QED
  BY <1>0, <1>1, <1>3, <1>6 DEF e

\* salloc preserves the invariant: what it gives was free, and is no longer.
LEMMA sallocInv ==
  ASSUME IInv, NEW p \in Slot, NEW n \in Sizes, salloc(p, n)
  PROVE  IInv'
<1>1. PICK e \in E :
        /\ image[p] = Nowhere /\ image' = [image EXCEPT ![p] = e]
        /\ Run(e) \subseteq Cov(map)
        /\ map' \in Seq(E) /\ Ordered(map') /\ Cov(map') = Cov(map) \ Run(e)
  BY sallocEffect
<1>2. image' \in [Slot -> E \cup {Nowhere}] /\ image'[p] = e /\ \A q \in Slot : q # p => image'[q] = image[q]
  BY <1>1 DEF IInv
<1>3. Cov(map') \subseteq Blocks /\ Run(e) \subseteq Blocks
  BY <1>1 DEF IInv
<1>4. \A q \in Slot : q # p => Run(image[q]) \cap Run(e) = {}
  BY <1>1, NowhereFacts DEF IInv
<1>5. ASSUME NEW q \in Slot, image'[q] # Nowhere
      PROVE  /\ Run(image'[q]) \subseteq Blocks /\ Run(image'[q]) \cap Cov(map') = {}
             /\ \A r \in Slot : r # q => Run(image'[q]) \cap Run(image'[r]) = {}
  <2>1. CASE q = p
    BY <1>1, <1>2, <1>3, <1>4, <2>1
  <2>2. CASE q # p
    <3>1. /\ Run(image[q]) \subseteq Blocks /\ Run(image[q]) \cap Cov(map) = {}
          /\ \A r \in Slot : r # q => Run(image[q]) \cap Run(image[r]) = {}
      BY <1>2, <1>5, <2>2 DEF IInv
    <3> QED
      BY <1>1, <1>2, <1>4, <2>2, <3>1
  <2> QED
    BY <2>1, <2>2
<1> QED
  BY <1>1, <1>2, <1>3, <1>5 DEF IInv

\* sfree preserves the invariant: what it takes back was the image's alone.
LEMMA sfreeInv ==
  ASSUME IInv, NEW p \in Slot, sfree(p)
  PROVE  IInv'
<1> DEFINE e == image[p]
<1>1. /\ e \in E /\ image' = [image EXCEPT ![p] = Nowhere]
      /\ map' \in Seq(E) /\ Ordered(map') /\ Cov(map') = Cov(map) \cup Run(e)
  BY sfreeEffect
<1>2. /\ image' \in [Slot -> E \cup {Nowhere}] /\ image'[p] = Nowhere
      /\ \A q \in Slot : q # p => image'[q] = image[q]
  BY <1>1 DEF IInv
<1>3. Run(e) \subseteq Blocks /\ \A q \in Slot : q # p => Run(e) \cap Run(image[q]) = {}
  BY <1>1, NowhereFacts DEF IInv
<1>4. Cov(map') \subseteq Blocks
  BY <1>1, <1>3 DEF IInv
<1> HIDE DEF e
<1>5. ASSUME NEW q \in Slot, image'[q] # Nowhere
      PROVE  /\ Run(image'[q]) \subseteq Blocks /\ Run(image'[q]) \cap Cov(map') = {}
             /\ \A r \in Slot : r # q => Run(image'[q]) \cap Run(image'[r]) = {}
  <2>1. q # p
    BY <1>2, <1>5
  <2>2. /\ Run(image[q]) \subseteq Blocks /\ Run(image[q]) \cap Cov(map) = {}
        /\ \A r \in Slot : r # q => Run(image[q]) \cap Run(image[r]) = {}
    BY <1>2, <1>5, <2>1 DEF IInv
  <2> QED
    BY <1>1, <1>2, <1>3, <2>1, <2>2, NowhereFacts
<1> QED
  BY <1>1, <1>2, <1>4, <1>5 DEF IInv

\* The map is always in order, and no block of the swap area is free and in
\* an image, or in two images, whatever images come and go (malloc.c:341-412).
THEOREM MapInvariant == Spec => []IInv
<1>1. Init => IInv
  BY InitInv
<1>2. IInv /\ [Next]_vars => IInv'
  <2> SUFFICES ASSUME IInv, [Next]_vars PROVE IInv'
    OBVIOUS
  <2>1. CASE Next
    BY <2>1, sallocInv, sfreeInv DEF Next
  <2>2. CASE UNCHANGED vars
    BY <2>2 DEF vars, IInv, Blocks
  <2> QED
    BY <2>1, <2>2
<1> QED
  BY <1>1, <1>2, PTL DEF Spec

\* "in increasing-address order" (malloc.c:309-310): neither the insertion of
\* sfree nor its joining leaves two runs overlapping, out of order or empty,
\* so salloc's scan, which ends at size 0, sees every free run.
THEOREM MapIsInOrder == Spec => []MapInOrder
<1>1. IInv => MapInOrder
  <2> SUFFICES ASSUME IInv PROVE MapInOrder
    OBVIOUS
  <2>1. map \in Seq(E) /\ Ordered(map) /\ Len(map) \in Nat /\ DOMAIN map = 1 .. Len(map)
    BY DEF IInv
  <2>2. \A j \in DOMAIN map : map[j].size > 0
    BY <2>1, ElementFacts, EntryFacts
  <2>3. \A j \in 1 .. Len(map) - 1 : j \in 1 .. Len(map) /\ j + 1 \in 1 .. Len(map) /\ j < j + 1
    BY <2>1
  <2>4. \A j \in 1 .. Len(map) - 1 : End(map[j]) <= map[j + 1].addr
    BY <2>1, <2>3 DEF Ordered
  <2> QED
    BY <2>2, <2>4 DEF MapInOrder
<1> QED
  BY <1>1, MapInvariant, PTL

\* A run of the abstract allocator is an interval of blocks.
LEMMA SpaceRun == \A a \in Int, n \in Int : Space!Run(a, n) = a .. (a + n) - 1
BY DEF Space!Run

\* The first-fit map implements the allocator: the mapping takes free to the
\* blocks the map covers and held to the runs of the images.
THEOREM MapIsSpace == Spec => Implements
<1> DEFINE held == [p \in Slot |-> Run(image[p])]
<1>0. IInv => Free = Cov(map)
  BY FreeIsCov DEF IInv, Free
<1>1. Init => Space!Init
  <2> SUFFICES ASSUME Init PROVE Space!Init
    OBVIOUS
  <2>1. Free = Blocks
    BY <1>0, InitInv
  <2>2. \A p \in Slot : image[p] = Nowhere
    BY DEF Init
  <2>3. held = [p \in Slot |-> {}]
    BY <2>2, NowhereFacts
  <2> QED
    BY <2>1, <2>3 DEF Space!Init, Space!Blocks, Blocks
<1>2. IInv /\ IInv' /\ [Next]_vars => [Space!Next]_<<Free, held>>
  <2> SUFFICES ASSUME IInv, IInv', [Next]_vars PROVE [Space!Next]_<<Free, held>>
    OBVIOUS
  <2>0. Free = Cov(map) /\ Free' = Cov(map')
    <3>1. map \in Seq(E) /\ map' \in Seq(E)
      BY DEF IInv
    <3> QED
      BY <3>1, FreeIsCov DEF Free
  <2>1. CASE UNCHANGED vars
    BY <2>1 DEF vars, Free
  <2>2. ASSUME NEW p \in Slot, NEW n \in Sizes, salloc(p, n) PROVE Space!Next
    <3>1. PICK e \in E :
            /\ e = Entry(e.addr, n) /\ image[p] = Nowhere /\ image' = [image EXCEPT ![p] = e]
            /\ Run(e) \subseteq Cov(map) /\ Cov(map') = Cov(map) \ Run(e)
      BY <2>2, sallocEffect
    <3>2. Run(e) = Space!Run(e.addr, n)
      <4>1. End(e) = e.addr + n
        BY <3>1 DEF End, Entry
      <4>2. Run(e) = e.addr .. (e.addr + n) - 1
        BY <4>1 DEF Run
      <4>3. Space!Run(e.addr, n) = e.addr .. (e.addr + n) - 1
        <5>1. e.addr \in Int /\ n \in Int
          BY SwapAssumption, EntryFacts
        <5> QED
          BY ONLY <5>1, SpaceRun
      <4> QED
        BY <4>2, <4>3
    <3>3. e.addr \in Space!Blocks
      <4>1. e.addr \in Run(e)
        BY EntryFacts DEF Has
      <4>2. Cov(map) \subseteq Blocks
        BY DEF IInv
      <4> QED
        BY <3>1, <4>1, <4>2 DEF Blocks, Space!Blocks
    <3>4. held[p] = {}
      BY <3>1, NowhereFacts
    <3>5. held' = [held EXCEPT ![p] = Run(e)]
      <4>1. image'[p] = e /\ \A q \in Slot : q # p => image'[q] = image[q]
        BY <3>1 DEF IInv
      <4> QED
        BY <4>1
    <3> HIDE DEF held
    <3>6. Space!Alloc(p, n)
      BY <2>0, <3>1, <3>2, <3>3, <3>4, <3>5 DEF Space!Alloc, held
    <3> QED
      BY <3>6 DEF Space!Next
  <2>3. ASSUME NEW p \in Slot, sfree(p) PROVE Space!Next
    <3>1. /\ image[p] \in E /\ image' = [image EXCEPT ![p] = Nowhere]
          /\ Cov(map') = Cov(map) \cup Run(image[p])
      BY <2>3, sfreeEffect
    <3>2. held[p] = Run(image[p]) /\ held[p] # {}
      <4>1. image[p].addr \in Run(image[p])
        BY <3>1, EntryFacts DEF Has
      <4> QED
        BY <4>1
    <3>3. held' = [held EXCEPT ![p] = {}]
      <4>1. image'[p] = Nowhere /\ \A q \in Slot : q # p => image'[q] = image[q]
        BY <3>1 DEF IInv
      <4> QED
        BY <4>1, NowhereFacts
    <3> HIDE DEF held
    <3>4. Space!Release(p)
      BY <2>0, <3>1, <3>2, <3>3 DEF Space!Release, held
    <3> QED
      BY <3>4 DEF Space!Next
  <2> QED
    BY <2>1, <2>2, <2>3 DEF Next
<1> QED
  BY <1>1, <1>2, MapInvariant, PTL DEF Spec, Implements, Space!Spec
=============================================================================
