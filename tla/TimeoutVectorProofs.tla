------------------------ MODULE TimeoutVectorProofs ------------------------
(***************************************************************************)
(* Lemmas about TimeoutVector and MonotonicTimerfd, on which the proofs    *)
(* about one-shot and periodic timeouts rest: what lower_bound, insertion  *)
(* and erasure do to the order and the contents of a vector of timeouts,   *)
(* and when an armed timer expires.                                        *)
(***************************************************************************)
EXTENDS MonotonicTimerfd, TimeoutVector, SequenceTheorems, NaturalsInduction,
        WellFoundedInduction, TLAPS

\* The elements of S can be ordered by their timeouts.
Timed(S) == \A e \in S : e.timeout \in Nat

Ordered(s) ==
  \A j, k \in 1..Len(s) : j < k => s[j].timeout <= s[k].timeout

\* No two entries have the same handle.
Distinct(s) ==
  \A j, k \in 1..Len(s) : s[j].handle = s[k].handle => j = k

\* r is s with e at place k, behind everything that is due before it.
Inserted(r, s, e, k) ==
  /\ \A j \in 1..(k - 1) : s[j].timeout < e.timeout
  /\ \A j \in k..Len(s) : s[j].timeout >= e.timeout
  /\ \A j \in 1..(Len(s) + 1) :
       r[j] = IF j < k THEN s[j] ELSE IF j = k THEN e ELSE s[j - 1]

\* r is s without some of its entries.
Thinned(r, s) ==
  /\ \A j \in 1..Len(r) : \E m \in 1..Len(s) : m >= j /\ r[j] = s[m]
  /\ \A i1, i2 \in 1..Len(r) :
       i1 < i2 => \E j1, j2 \in 1..Len(s) :
                    j1 < j2 /\ r[i1] = s[j1] /\ r[i2] = s[j2]

-----------------------------------------------------------------------------
(* What inserting and erasing an element does to a sequence.               *)

LEMMA InsertAtProperties ==
  ASSUME NEW S, NEW s \in Seq(S), NEW k \in 1..(Len(s) + 1), NEW e \in S
  PROVE  /\ InsertAt(s, k, e) \in Seq(S)
         /\ Len(InsertAt(s, k, e)) = Len(s) + 1
         /\ \A j \in 1..(Len(s) + 1) :
              InsertAt(s, k, e)[j] =
                IF j < k THEN s[j] ELSE IF j = k THEN e ELSE s[j - 1]
<1> DEFINE a == SubSeq(s, 1, k - 1)
           b == SubSeq(s, k, Len(s))
           c == a \o <<e>>
<1>0. Len(s) \in Nat /\ k \in Nat \ {0}
  BY LenProperties
<1>1. \A j \in 1..Len(s) : s[j] \in S
  BY ElementOfSeq
<1>2. /\ a \in Seq(S) /\ Len(a) = k - 1
      /\ \A j \in 1..(k - 1) : a[j] = s[j]
  BY <1>0, <1>1, SubSeqProperties
<1>3. /\ b \in Seq(S) /\ Len(b) = (Len(s) - k) + 1
      /\ \A j \in 1..((Len(s) - k) + 1) : b[j] = s[(k + j) - 1]
  BY <1>0, <1>1, SubSeqProperties
<1> HIDE DEF a, b
<1>4. <<e>> \in Seq(S) /\ Len(<<e>>) = 1 /\ <<e>>[1] = e
  OBVIOUS
<1>5. /\ c \in Seq(S) /\ Len(c) = k
      /\ \A j \in 1..k : c[j] = IF j < k THEN s[j] ELSE e
  <2>1. /\ c \in Seq(S) /\ Len(c) = Len(a) + 1
        /\ \A j \in 1..(Len(a) + 1) :
             c[j] = IF j <= Len(a) THEN a[j] ELSE <<e>>[j - Len(a)]
    BY <1>2, <1>4, ConcatProperties
  <2> HIDE DEF c
  <2>2. ASSUME NEW j \in 1..k
        PROVE  c[j] = IF j < k THEN s[j] ELSE e
    <3>1. CASE j < k
      BY <1>0, <1>2, <2>1, <3>1
    <3>2. CASE j = k
      <4>1. k - Len(a) = 1 /\ ~ (k <= Len(a))
        BY <1>0, <1>2
      <4> QED
        BY <1>0, <1>2, <1>4, <2>1, <3>2, <4>1
    <3> QED
      BY <1>0, <3>1, <3>2
  <2> QED
    BY <1>0, <1>2, <2>1, <2>2
<1> HIDE DEF c
<1>6. /\ c \o b \in Seq(S) /\ Len(c \o b) = Len(c) + Len(b)
      /\ \A j \in 1..(Len(c) + Len(b)) :
           (c \o b)[j] = IF j <= Len(c) THEN c[j] ELSE b[j - Len(c)]
  BY <1>3, <1>5, ConcatProperties
<1>7. InsertAt(s, k, e) = c \o b
  BY DEF InsertAt, a, b, c
<1>8. Len(c) + Len(b) = Len(s) + 1
  BY <1>0, <1>3, <1>5
<1>9. ASSUME NEW j \in 1..(Len(s) + 1)
      PROVE  (c \o b)[j] = IF j < k THEN s[j] ELSE IF j = k THEN e ELSE s[j - 1]
  <2>1. CASE j <= k
    BY <1>0, <1>5, <1>6, <1>8, <2>1
  <2>2. CASE j > k
    <3>1. j - k \in 1..((Len(s) - k) + 1) /\ (k + (j - k)) - 1 = j - 1
      BY <1>0, <2>2
    <3>2. b[j - k] = s[j - 1]
      BY <1>3, <3>1
    <3> QED
      BY <1>0, <1>5, <1>6, <1>8, <2>2, <3>2
  <2>3. j <= k \/ j > k
    BY <1>0
  <2> QED
    BY <2>1, <2>2, <2>3, Zenon
<1> QED
  BY <1>6, <1>7, <1>8, <1>9

LEMMA RemoveAtProperties ==
  ASSUME NEW S, NEW s \in Seq(S), NEW k \in 1..Len(s)
  PROVE  /\ RemoveAt(s, k) \in Seq(S)
         /\ Len(RemoveAt(s, k)) = Len(s) - 1
         /\ \A j \in 1..(Len(s) - 1) :
              RemoveAt(s, k)[j] = IF j < k THEN s[j] ELSE s[j + 1]
<1> DEFINE a == SubSeq(s, 1, k - 1)
           b == SubSeq(s, k + 1, Len(s))
<1>0. Len(s) \in Nat /\ k \in Nat \ {0}
  BY LenProperties
<1>1. \A j \in 1..Len(s) : s[j] \in S
  BY ElementOfSeq
<1>2. /\ a \in Seq(S) /\ Len(a) = k - 1
      /\ \A j \in 1..(k - 1) : a[j] = s[j]
  BY <1>0, <1>1, SubSeqProperties
<1>3. /\ b \in Seq(S) /\ Len(b) = Len(s) - k
      /\ \A j \in 1..(Len(s) - k) : b[j] = s[k + j]
  <2>1. \A j \in (k + 1)..Len(s) : s[j] \in S
    BY <1>0, <1>1
  <2>2. /\ b \in Seq(S)
        /\ Len(b) = IF k + 1 <= Len(s) THEN (Len(s) - (k + 1)) + 1 ELSE 0
        /\ \A j \in 1..((Len(s) - (k + 1)) + 1) : b[j] = s[((k + 1) + j) - 1]
    BY <1>0, <2>1, SubSeqProperties
  <2> HIDE DEF b
  <2> QED
    BY <1>0, <2>2
<1> HIDE DEF a, b
<1>4. /\ a \o b \in Seq(S) /\ Len(a \o b) = Len(a) + Len(b)
      /\ \A j \in 1..(Len(a) + Len(b)) :
           (a \o b)[j] = IF j <= Len(a) THEN a[j] ELSE b[j - Len(a)]
  BY <1>2, <1>3, ConcatProperties
<1>5. RemoveAt(s, k) = a \o b
  BY DEF RemoveAt, a, b
<1>6. Len(a) + Len(b) = Len(s) - 1
  BY <1>0, <1>2, <1>3
<1>7. ASSUME NEW j \in 1..(Len(s) - 1)
      PROVE  (a \o b)[j] = IF j < k THEN s[j] ELSE s[j + 1]
  <2>1. CASE j < k
    BY <1>0, <1>2, <1>4, <1>6, <2>1
  <2>2. CASE j >= k
    <3>1. j - (k - 1) \in 1..(Len(s) - k) /\ k + (j - (k - 1)) = j + 1
      BY <1>0, <2>2
    <3>2. b[j - (k - 1)] = s[j + 1]
      BY <1>3, <3>1
    <3> QED
      BY <1>0, <1>2, <1>4, <1>6, <2>2, <3>2
  <2>3. j < k \/ j >= k
    BY <1>0
  <2> QED
    BY <2>1, <2>2, <2>3, Zenon
<1> QED
  BY <1>4, <1>5, <1>6, <1>7

-----------------------------------------------------------------------------
(* std::lower_bound finds its position, and inserting there keeps order.   *)

LEMMA LeastElement ==
  ASSUME NEW T, T \subseteq Nat, T # {}
  PROVE  \E x \in T : \A y \in T : x <= y
<1>1. \E x \in T : \A y \in T : ~ (<<y, x>> \in OpToRel(<, Nat))
  BY NatLessThanWellFounded, WFMin
<1>2. \A x, y \in Nat : ~ (<<y, x>> \in OpToRel(<, Nat)) => x <= y
  BY DEF OpToRel
<1> QED
  BY <1>1, <1>2

LEMMA Elements ==
  ASSUME NEW S, Timed(S), NEW s \in Seq(S)
  PROVE  /\ Len(s) \in Nat /\ DOMAIN s = 1..Len(s)
         /\ \A j \in 1..Len(s) : s[j] \in S /\ s[j].timeout \in Nat
<1>1. Len(s) \in Nat /\ DOMAIN s = 1..Len(s)
  BY LenProperties
<1>2. \A j \in 1..Len(s) : s[j] \in S
  BY ElementOfSeq
<1> QED
  BY <1>1, <1>2 DEF Timed

\* The first entry, and where it is.
LEMMA FirstEntry ==
  ASSUME NEW S, NEW s \in Seq(S), s # <<>>
  PROVE  Len(s) \in Nat /\ 1 \in 1..Len(s) /\ Head(s) = s[1] /\ s[1] \in S
<1>1. Len(s) \in Nat /\ Len(s) # 0
  BY LenProperties, EmptySeq
<1>2. 1 \in 1..Len(s)
  BY <1>1
<1>3. Head(s) = s[1]
  OBVIOUS
<1> QED
  BY <1>1, <1>2, <1>3, ElementOfSeq

LEMMA LowerBoundExists ==
  ASSUME NEW S, Timed(S), NEW s \in Seq(S), Ordered(s), NEW t \in Nat
  PROVE  /\ LowerBound(s, t) \in 1..(Len(s) + 1)
         /\ \A j \in 1..(LowerBound(s, t) - 1) : s[j].timeout < t
         /\ \A j \in LowerBound(s, t)..Len(s) : s[j].timeout >= t
<1> DEFINE Splits(k) == /\ \A j \in 1..(k - 1) : s[j].timeout < t
                        /\ \A j \in k..Len(s) : s[j].timeout >= t
           T == {j \in 1..Len(s) : s[j].timeout >= t}
<1>0. /\ Len(s) \in Nat /\ t \in Nat
      /\ \A j \in 1..Len(s) : s[j].timeout \in Nat
  BY Elements
<1>1. \E k \in 1..(Len(s) + 1) : Splits(k)
  <2>1. CASE T = {}
    <3>1. Splits(Len(s) + 1)
      BY <1>0, <2>1
    <3> QED
      BY <1>0, <3>1
  <2>2. CASE T # {}
    <3>0. T \subseteq Nat
      BY <1>0
    <3> HIDE DEF T
    <3>1. PICK k \in T : \A j \in T : k <= j
      BY <2>2, <3>0, LeastElement
    <3> USE DEF T
    <3>2. \A j \in 1..(k - 1) : s[j].timeout < t
      BY <1>0, <3>1
    <3>3. \A j \in k..Len(s) : s[j].timeout >= t
      BY <1>0, <3>1 DEF Ordered
    <3> QED
      BY <1>0, <3>1, <3>2, <3>3
  <2> QED
    BY <2>1, <2>2
<1>2. LowerBound(s, t) = CHOOSE k \in 1..(Len(s) + 1) : Splits(k)
  BY DEF LowerBound
<1> HIDE DEF Splits
<1>3. LowerBound(s, t) \in 1..(Len(s) + 1) /\ Splits(LowerBound(s, t))
  BY <1>1, <1>2, Zenon
<1> QED
  BY <1>3 DEF Splits

\* Where the new entry goes, and where the others are then.
LEMMA InsertedAt ==
  ASSUME NEW S, Timed(S), NEW s \in Seq(S), Ordered(s), NEW e \in S
  PROVE  /\ InsertTimeout(s, e) \in Seq(S)
         /\ Len(InsertTimeout(s, e)) = Len(s) + 1
         /\ \E k \in 1..(Len(s) + 1) :
              Inserted(InsertTimeout(s, e), s, e, k)
<1> DEFINE k == LowerBound(s, e.timeout)
           r == InsertTimeout(s, e)
<1>1. e.timeout \in Nat
  BY DEF Timed
<1>2. /\ k \in 1..(Len(s) + 1)
      /\ \A j \in 1..(k - 1) : s[j].timeout < e.timeout
      /\ \A j \in k..Len(s) : s[j].timeout >= e.timeout
  BY <1>1, LowerBoundExists
<1>3. r = InsertAt(s, k, e)
  BY DEF InsertTimeout
<1> HIDE DEF k, r
<1>4. /\ r \in Seq(S) /\ Len(r) = Len(s) + 1
      /\ \A j \in 1..(Len(s) + 1) :
           r[j] = IF j < k THEN s[j] ELSE IF j = k THEN e ELSE s[j - 1]
  BY <1>2, <1>3, InsertAtProperties
<1> QED
  BY <1>2, <1>4 DEF k, r, Inserted

LEMMA InsertKeepsOrder ==
  ASSUME NEW S, Timed(S), NEW s \in Seq(S), Ordered(s), NEW e \in S
  PROVE  /\ InsertTimeout(s, e) \in Seq(S)
         /\ Ordered(InsertTimeout(s, e))
<1> DEFINE r == InsertTimeout(s, e)
<1>0. /\ Len(s) \in Nat /\ e.timeout \in Nat
      /\ \A j \in 1..Len(s) : s[j].timeout \in Nat
  BY Elements DEF Timed
<1>a. r \in Seq(S) /\ Len(r) = Len(s) + 1
  BY InsertedAt
<1>b. PICK k \in 1..(Len(s) + 1) : Inserted(r, s, e, k)
  BY InsertedAt
<1>1. /\ k \in 1..(Len(s) + 1)
      /\ \A j \in 1..(k - 1) : s[j].timeout < e.timeout
      /\ \A j \in k..Len(s) : s[j].timeout >= e.timeout
      /\ r \in Seq(S) /\ Len(r) = Len(s) + 1
      /\ \A j \in 1..(Len(s) + 1) :
           r[j] = IF j < k THEN s[j] ELSE IF j = k THEN e ELSE s[j - 1]
  BY <1>a, <1>b DEF Inserted
<1> HIDE DEF r
<1>3. ASSUME NEW i1 \in 1..Len(r), NEW i2 \in 1..Len(r), i1 < i2
      PROVE  r[i1].timeout <= r[i2].timeout
  <2>1. CASE i2 < k
    <3>1. /\ r[i1] = s[i1] /\ r[i2] = s[i2]
          /\ i1 \in 1..Len(s) /\ i2 \in 1..Len(s)
      BY <1>0, <1>1, <1>3, <2>1
    <3> QED
      BY <1>3, <3>1 DEF Ordered
  <2>2. CASE i2 = k
    <3>1. r[i2] = e /\ r[i1] = s[i1] /\ i1 \in 1..(k - 1) /\ i1 \in 1..Len(s)
      BY <1>0, <1>1, <1>3, <2>2
    <3>2. s[i1].timeout < e.timeout /\ s[i1].timeout \in Nat
      BY <1>0, <1>1, <3>1
    <3> QED
      BY <1>0, <3>1, <3>2
  <2>3. CASE i2 > k
    <3>1. r[i2] = s[i2 - 1] /\ i2 - 1 \in k..Len(s) /\ i2 - 1 \in 1..Len(s)
      BY <1>0, <1>1, <2>3
    <3>2. s[i2 - 1].timeout >= e.timeout
      BY <1>1, <3>1
    <3>3. CASE i1 < k
      <4>1. r[i1] = s[i1] /\ i1 \in 1..Len(s) /\ i1 < i2 - 1
        BY <1>0, <1>1, <1>3, <2>3, <3>3
      <4> QED
        BY <3>1, <4>1 DEF Ordered
    <3>4. CASE i1 = k
      <4>1. r[i1] = e
        BY <1>0, <1>1, <3>4
      <4> QED
        BY <1>0, <3>1, <3>2, <4>1
    <3>5. CASE i1 > k
      <4>1. r[i1] = s[i1 - 1] /\ i1 - 1 \in 1..Len(s) /\ i1 - 1 < i2 - 1
        BY <1>0, <1>1, <1>3, <3>1, <3>5
      <4> QED
        BY <3>1, <4>1 DEF Ordered
    <3>6. i1 < k \/ i1 = k \/ i1 > k
      BY <1>0, <1>1
    <3> QED
      BY <3>3, <3>4, <3>5, <3>6, Zenon
  <2>4. i2 < k \/ i2 = k \/ i2 > k
    BY <1>0, <1>1
  <2> QED
    BY <2>1, <2>2, <2>3, <2>4, Zenon
<1>4. Ordered(r)
  BY <1>3 DEF Ordered
<1> QED
  BY <1>1, <1>4 DEF r

\* Insertion adds the entry and nothing else, and the new entry comes first
\* exactly if nothing is due before it.
LEMMA InsertContents ==
  ASSUME NEW S, Timed(S), NEW s \in Seq(S), Ordered(s), NEW e \in S
  PROVE  LET r == InsertTimeout(s, e)
         IN  /\ Len(r) = Len(s) + 1
             /\ \A j \in 1..Len(r) : r[j] = e \/ \E m \in 1..Len(s) : r[j] = s[m]
             /\ r[1] = e \/ (s # <<>> /\ r[1] = s[1])
             /\ s = <<>> \/ s[1].timeout > e.timeout => r[1] = e
             /\ s # <<>> /\ s[1].timeout < e.timeout => r[1] = s[1]
             /\ Distinct(s) /\ (\A j \in 1..Len(s) : s[j].handle # e.handle)
                  => Distinct(r)
<1> DEFINE r == InsertTimeout(s, e)
<1>0. /\ Len(s) \in Nat /\ e.timeout \in Nat
      /\ \A j \in 1..Len(s) : s[j].timeout \in Nat
  BY Elements DEF Timed
<1>a. r \in Seq(S) /\ Len(r) = Len(s) + 1
  BY InsertedAt
<1>b. PICK k \in 1..(Len(s) + 1) : Inserted(r, s, e, k)
  BY InsertedAt
<1>1. /\ k \in 1..(Len(s) + 1)
      /\ \A j \in 1..(k - 1) : s[j].timeout < e.timeout
      /\ \A j \in k..Len(s) : s[j].timeout >= e.timeout
      /\ r \in Seq(S) /\ Len(r) = Len(s) + 1
      /\ \A j \in 1..(Len(s) + 1) :
           r[j] = IF j < k THEN s[j] ELSE IF j = k THEN e ELSE s[j - 1]
  BY <1>a, <1>b DEF Inserted
<1> HIDE DEF r
<1>2. s = <<>> <=> Len(s) = 0
  BY EmptySeq
<1>3. \A j \in 1..Len(r) : j # k =>
         /\ j < k \/ j > k
         /\ j < k => j \in 1..Len(s) /\ r[j] = s[j]
         /\ j > k => j - 1 \in 1..Len(s) /\ r[j] = s[j - 1]
  BY <1>0, <1>1
<1>4. \A j \in 1..Len(r) : j = k => r[j] = e
  BY <1>0, <1>1
<1>5. \A j \in 1..Len(r) : r[j] = e \/ \E m \in 1..Len(s) : r[j] = s[m]
  BY <1>3, <1>4, Zenon
<1>6. /\ r[1] = e \/ (s # <<>> /\ r[1] = s[1])
      /\ s = <<>> \/ s[1].timeout > e.timeout => r[1] = e
      /\ s # <<>> /\ s[1].timeout < e.timeout => r[1] = s[1]
  <2>1. CASE k = 1
    <3>1. r[1] = e
      BY <1>0, <1>1, <2>1
    <3>2. ~ (s # <<>> /\ s[1].timeout < e.timeout)
      BY <1>0, <1>1, <1>2, <2>1
    <3> QED
      BY <3>1, <3>2
  <2>2. CASE k > 1
    <3>1. 1 \in 1..Len(r) /\ 1 < k /\ 1 # k /\ 1 \in 1..(k - 1)
      BY <1>0, <1>1, <2>2
    <3>2. r[1] = s[1] /\ 1 \in 1..Len(s)
      BY <1>3, <3>1
    <3>3. s # <<>> /\ s[1].timeout < e.timeout
      BY <1>0, <1>1, <1>2, <3>1, <3>2
    <3>4. ~ (s[1].timeout > e.timeout)
      BY <1>0, <3>2, <3>3
    <3> QED
      BY <3>2, <3>3, <3>4
  <2>3. k = 1 \/ k > 1
    BY <1>0, <1>1
  <2> QED
    BY <2>1, <2>2, <2>3, Zenon
<1>7. ASSUME Distinct(s), \A j \in 1..Len(s) : s[j].handle # e.handle
      PROVE  Distinct(r)
  <2> SUFFICES ASSUME NEW i1 \in 1..Len(r), NEW i2 \in 1..Len(r),
                      r[i1].handle = r[i2].handle
               PROVE  i1 = i2
    BY DEF Distinct
  <2>1. CASE i1 = k \/ i2 = k
    BY <1>3, <1>4, <1>7, <2>1
  <2>2. CASE i1 # k /\ i2 # k
    <3>1. PICK j1 \in 1..Len(s) : /\ r[i1] = s[j1]
                                  /\ j1 = IF i1 < k THEN i1 ELSE i1 - 1
      BY <1>3, <2>2
    <3>2. PICK j2 \in 1..Len(s) : /\ r[i2] = s[j2]
                                  /\ j2 = IF i2 < k THEN i2 ELSE i2 - 1
      BY <1>3, <2>2
    <3>3. j1 = j2
      BY <1>7, <3>1, <3>2 DEF Distinct
    <3> QED
      BY <1>0, <1>1, <2>2, <3>1, <3>2, <3>3
  <2> QED
    BY <2>1, <2>2
<1> QED
  BY <1>1, <1>5, <1>6, <1>7 DEF r

-----------------------------------------------------------------------------
(* Erasing entries keeps order, and what is left was there.                *)

LEMMA ThinnedKeeps ==
  ASSUME NEW S, NEW s \in Seq(S), NEW r \in Seq(S), Thinned(r, s)
  PROVE  /\ Ordered(s) => Ordered(r)
         /\ Distinct(s) => Distinct(r)
<1>0. Len(r) \in Nat /\ Len(s) \in Nat
  BY LenProperties
<1>1. Ordered(s) => Ordered(r)
  BY DEF Ordered, Thinned
<1>2. ASSUME Distinct(s), NEW i1 \in 1..Len(r), NEW i2 \in 1..Len(r), i1 < i2
      PROVE  r[i1].handle # r[i2].handle
  <2>1. PICK j1 \in 1..Len(s), j2 \in 1..Len(s) :
          j1 < j2 /\ r[i1] = s[j1] /\ r[i2] = s[j2]
    BY <1>2 DEF Thinned
  <2>2. j1 # j2
    BY <1>0, <2>1
  <2> QED
    BY <1>2, <2>1, <2>2 DEF Distinct
<1>3. \A i1, i2 \in 1..Len(r) : i1 = i2 \/ i1 < i2 \/ i2 < i1
  BY <1>0
<1>4. Distinct(s) => Distinct(r)
  BY <1>2, <1>3 DEF Distinct
<1> QED
  BY <1>1, <1>4

\* Erasing the entry at a place.
LEMMA RemoveThins ==
  ASSUME NEW S, NEW s \in Seq(S), NEW k \in 1..Len(s)
  PROVE  /\ RemoveAt(s, k) \in Seq(S)
         /\ Len(RemoveAt(s, k)) = Len(s) - 1
         /\ Thinned(RemoveAt(s, k), s)
         /\ \A j \in 1..Len(RemoveAt(s, k)) :
              \E m \in 1..Len(s) : m # k /\ RemoveAt(s, k)[j] = s[m]
<1> DEFINE r == RemoveAt(s, k)
           Old(j) == IF j < k THEN j ELSE j + 1
<1>1. /\ r \in Seq(S) /\ Len(r) = Len(s) - 1 /\ Len(s) \in Nat
      /\ \A j \in 1..(Len(s) - 1) : r[j] = IF j < k THEN s[j] ELSE s[j + 1]
  BY RemoveAtProperties, LenProperties
<1> HIDE DEF r
<1>2. \A j \in 1..Len(r) : r[j] = s[Old(j)]
  BY <1>1
<1>3. \A j \in 1..Len(r) : Old(j) \in 1..Len(s) /\ Old(j) >= j /\ Old(j) # k
  BY <1>1
<1>4. \A i1, i2 \in 1..Len(r) : i1 < i2 => Old(i1) < Old(i2)
  BY <1>1
<1> HIDE DEF Old
<1>5. Thinned(r, s)
  <2>1. \A j \in 1..Len(r) : \E m \in 1..Len(s) : m >= j /\ r[j] = s[m]
    BY <1>2, <1>3
  <2>2. \A i1, i2 \in 1..Len(r) :
          i1 < i2 => \E j1, j2 \in 1..Len(s) :
                       j1 < j2 /\ r[i1] = s[j1] /\ r[i2] = s[j2]
    BY <1>2, <1>3, <1>4
  <2> QED
    BY <2>1, <2>2 DEF Thinned
<1>6. \A j \in 1..Len(r) : \E m \in 1..Len(s) : m # k /\ r[j] = s[m]
  BY <1>2, <1>3
<1> QED
  BY <1>1, <1>5, <1>6 DEF r

\* Erasing the first n entries.
LEMMA CutThins ==
  ASSUME NEW S, NEW s \in Seq(S), NEW n \in 0..Len(s)
  PROVE  /\ SubSeq(s, n + 1, Len(s)) \in Seq(S)
         /\ Len(SubSeq(s, n + 1, Len(s))) = Len(s) - n
         /\ Thinned(SubSeq(s, n + 1, Len(s)), s)
         /\ \A j \in 1..Len(SubSeq(s, n + 1, Len(s))) :
              \E m \in 1..Len(s) : m > n /\ SubSeq(s, n + 1, Len(s))[j] = s[m]
<1> DEFINE r == SubSeq(s, n + 1, Len(s))
<1>0. Len(s) \in Nat
  BY LenProperties
<1>1. \A j \in (n + 1)..Len(s) : s[j] \in S
  BY <1>0, ElementOfSeq
<1>2. /\ r \in Seq(S)
      /\ Len(r) = IF n + 1 <= Len(s) THEN (Len(s) - (n + 1)) + 1 ELSE 0
      /\ \A j \in 1..((Len(s) - (n + 1)) + 1) : r[j] = s[((n + 1) + j) - 1]
  BY <1>0, <1>1, SubSeqProperties
<1> HIDE DEF r
<1>3. Len(r) = Len(s) - n /\ \A j \in 1..Len(r) : r[j] = s[n + j]
  BY <1>0, <1>2
<1>4. \A j \in 1..Len(r) : n + j \in 1..Len(s) /\ n + j >= j /\ n + j > n
  BY <1>0, <1>3
<1>5. \A i1, i2 \in 1..Len(r) : i1 < i2 => n + i1 < n + i2
  BY <1>0, <1>3
<1>6. Thinned(r, s)
  BY <1>3, <1>4, <1>5 DEF Thinned
<1>7. \A j \in 1..Len(r) : \E m \in 1..Len(s) : m > n /\ r[j] = s[m]
  BY <1>3, <1>4
<1> QED
  BY <1>2, <1>3, <1>6, <1>7 DEF r

\* Erasing the first or the last entry.
LEMMA TailThins ==
  ASSUME NEW S, NEW s \in Seq(S), s # <<>>
  PROVE  /\ Tail(s) \in Seq(S) /\ Len(Tail(s)) = Len(s) - 1
         /\ Thinned(Tail(s), s)
         /\ \A j \in 1..Len(Tail(s)) : \E m \in 1..Len(s) : m > 1 /\ Tail(s)[j] = s[m]
<1>1. PICK n \in 0..Len(s) : n = 1
  BY LenProperties, EmptySeq
<1>2. n + 1 = 2
  BY <1>1
<1>3. Tail(s) = SubSeq(s, n + 1, Len(s))
  BY <1>2, TailIsSubSeq
<1> DEFINE r == SubSeq(s, n + 1, Len(s))
<1>4. /\ r \in Seq(S) /\ Len(r) = Len(s) - n
      /\ Thinned(r, s)
      /\ \A j \in 1..Len(r) : \E m \in 1..Len(s) : m > n /\ r[j] = s[m]
  BY CutThins
<1> HIDE DEF r
<1>5. Tail(s) = r
  BY <1>3 DEF r
<1> QED
  BY <1>1, <1>4, <1>5, Zenon

LEMMA FrontThins ==
  ASSUME NEW S, NEW s \in Seq(S), s # <<>>
  PROVE  /\ Front(s) \in Seq(S) /\ Len(Front(s)) = Len(s) - 1
         /\ Thinned(Front(s), s)
         /\ \A j \in 1..Len(Front(s)) : j \in 1..Len(s) /\ Front(s)[j] = s[j]
<1>0. Len(s) \in Nat /\ Len(s) # 0
  BY LenProperties, EmptySeq
<1>1. PICK n \in Nat : n = Len(s) - 1
  BY <1>0
<1> DEFINE r == SubSeq(s, 1, n)
<1>2. \A j \in 1..n : j \in 1..Len(s) /\ (1 + j) - 1 = j /\ j >= j
  BY <1>0, <1>1
<1>3. \A j \in 1..n : s[j] \in S
  BY <1>2, ElementOfSeq
<1>4. /\ r \in Seq(S)
      /\ Len(r) = IF 1 <= n THEN (n - 1) + 1 ELSE 0
      /\ \A j \in 1..((n - 1) + 1) : r[j] = s[(1 + j) - 1]
  BY <1>3, SubSeqProperties
<1> HIDE DEF r
<1>5. Len(r) = n /\ (n - 1) + 1 = n
  BY <1>4
<1>6. \A j \in 1..Len(r) : r[j] = s[j] /\ j \in 1..Len(s) /\ j >= j
  BY <1>2, <1>4, <1>5
<1>7. Thinned(r, s)
  BY <1>6 DEF Thinned
<1>8. r = Front(s)
  BY <1>1 DEF Front, r
<1> QED
  BY <1>1, <1>4, <1>5, <1>6, <1>7, <1>8

\* Erasing never brings the first timeout forward.
LEMMA ThinnedFirst ==
  ASSUME NEW S, Timed(S), NEW s \in Seq(S), NEW r \in Seq(S), Thinned(r, s),
         Ordered(s), r # <<>>
  PROVE  s # <<>> /\ r[1].timeout >= s[1].timeout
<1>1. Len(r) \in Nat /\ 1 \in 1..Len(r)
  BY FirstEntry
<1>2. PICK m \in 1..Len(s) : m >= 1 /\ r[1] = s[m]
  BY <1>1 DEF Thinned
<1>3. Len(s) \in Nat /\ \A j \in 1..Len(s) : s[j].timeout \in Nat
  BY Elements
<1>4. s # <<>> /\ 1 \in 1..Len(s) /\ (m = 1 \/ 1 < m)
  BY <1>2, <1>3, EmptySeq
<1> QED
  BY <1>2, <1>3, <1>4 DEF Ordered

LEMMA IndexInDomain ==
  ASSUME NEW S, NEW s \in Seq(S), NEW h \in HandlesOf(s)
  PROVE  IndexOf(s, h) \in 1..Len(s) /\ s[IndexOf(s, h)].handle = h
<1>1. DOMAIN s = 1..Len(s)
  BY LenProperties
<1> QED
  BY <1>1 DEF IndexOf, HandlesOf

-----------------------------------------------------------------------------
(* An armed timer expires when its timeout has come, at the latest         *)
(* MaxLatency later.                                                       *)

Soon(t, n) == IF t > n THEN t ELSE n + 1

LEMMA UpToBounds ==
  ASSUME TimeAssumption
  PROVE  /\ \A x \in Nat : UpTo(x) \in Instants /\ UpTo(x) \in Nat
         /\ \A x, y \in Nat : x <= y => UpTo(x) <= UpTo(y)
         /\ \A x \in Nat : UpTo(x) <= x
         /\ \A x \in Instants : UpTo(x) = x
BY DEF UpTo, Instants, TimeAssumption

LEMMA OneshotArms ==
  ASSUME TimeAssumption, NEW t \in Instants, NEW n \in Instants
  PROVE  /\ SetOneshot(t, n) \subseteq Instants
         /\ Disarmed \notin SetOneshot(t, n)
         /\ \A x \in SetOneshot(t, n) : x <= UpTo(Soon(t, n) + MaxLatency)
<1>0. t \in Nat /\ n \in Nat /\ MaxLatency \in Nat /\ MaxTime \in Nat
  BY DEF Instants, TimeAssumption
<1>1. ASSUME NEW x \in SetOneshot(t, n)
      PROVE  \E late \in 0..MaxLatency : x = UpTo(Soon(t, n) + late)
  <2>1. CASE t > n
    <3>1. t - n # 0 /\ t - n \in Nat /\ n + (t - n) = t
      BY <1>0, <2>1
    <3>2. SetOneshot(t, n) = {UpTo(n + (t - n) + late) : late \in 0..MaxLatency}
      BY <2>1, <3>1 DEF SetOneshot, Arm
    <3> QED
      BY <1>1, <2>1, <3>1, <3>2 DEF Soon
  <2>2. CASE ~ (t > n)
    <3>1. SetOneshot(t, n) = {UpTo(n + 1 + late) : late \in 0..MaxLatency}
      BY <2>2 DEF SetOneshot, Arm
    <3> QED
      BY <1>1, <2>2, <3>1 DEF Soon
  <2> QED
    BY <2>1, <2>2
<1>2. Soon(t, n) \in Nat
  BY <1>0 DEF Soon
<1>3. \A late \in 0..MaxLatency :
         /\ Soon(t, n) + late \in Nat /\ Soon(t, n) + MaxLatency \in Nat
         /\ Soon(t, n) + late <= Soon(t, n) + MaxLatency
  BY <1>0, <1>2
<1>4. Disarmed \notin Instants
  BY <1>0 DEF Disarmed, Instants
<1> QED
  BY <1>1, <1>3, <1>4, UpToBounds

\* A timer armed in time for a timeout is so for a later one, and later on.
Armed(timer, t, n) == timer <= UpTo(Soon(t, n) + MaxLatency)

LEMMA ArmedStays ==
  ASSUME TimeAssumption, NEW timer \in Instants \cup {Disarmed},
         NEW t1 \in Instants, NEW n1 \in Instants, Armed(timer, t1, n1),
         NEW t2 \in Instants, NEW n2 \in Instants, t1 <= t2, n1 <= n2
  PROVE  Armed(timer, t2, n2)
<1>0. /\ t1 \in Nat /\ n1 \in Nat /\ t2 \in Nat /\ n2 \in Nat /\ timer \in Nat
      /\ MaxLatency \in Nat
  BY DEF Instants, Disarmed, TimeAssumption
<1> DEFINE a == Soon(t1, n1) + MaxLatency
           b == Soon(t2, n2) + MaxLatency
<1>1. a \in Nat /\ b \in Nat /\ a <= b
  BY <1>0 DEF Soon
<1> HIDE DEF a, b
<1>2. UpTo(a) \in Nat /\ UpTo(b) \in Nat /\ UpTo(a) <= UpTo(b)
  BY <1>1, UpToBounds
<1>3. timer <= UpTo(a)
  BY DEF Armed, a
<1>4. timer <= UpTo(b)
  BY <1>0, <1>2, <1>3
<1> QED
  BY <1>4 DEF Armed, b

=============================================================================
