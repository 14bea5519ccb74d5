--------------------------- MODULE AckQueueProofs ---------------------------
(***************************************************************************)
(* The interval queues of AckFrame for every packet number: Add and        *)
(* RemoveUpTo keep the queue canonical and do to its numbers what they say,*)
(* and the walk of an ack frame's ranges over a queue finds the numbers    *)
(* that are not in it.                                                     *)
(***************************************************************************)
EXTENDS AckFrame, SequenceTheorems, NaturalsInduction, WellFoundedInduction, TLAPS

Intervals == [min: Int, max: Int]

IsQueue(q) == q \in Seq(Intervals) /\ Canonical(q)

(***************************************************************************)
(* A set of natural numbers that is not empty has the minimum that Min     *)
(* chooses, a loop a first iteration at which something holds.             *)
(***************************************************************************)
LEMMA MinOfNat ==
  ASSUME NEW S \in SUBSET Nat, S # {}
  PROVE  Min(S) \in S /\ \A y \in S : Min(S) <= y
<1>1. IsWellFoundedOn(OpToRel(<, Nat), Nat)
  BY NatLessThanWellFounded
<1>2. PICK x \in S : \A y \in S : ~(<<y, x>> \in OpToRel(<, Nat))
  BY <1>1, WFMin
<1>3. \A y \in S : <<y, x>> \in OpToRel(<, Nat) <=> y < x
  BY DEF OpToRel
<1>4. ASSUME NEW y \in S PROVE x <= y
  <2>1. ~(y < x)
    BY <1>2, <1>3
  <2>2. QED
    BY <2>1
<1>5. QED
  BY <1>4 DEF Min

(***************************************************************************)
(* Where the last of some intervals is looked for, Max chooses it.         *)
(***************************************************************************)
LEMMA MaxOfBounded ==
  ASSUME NEW n \in Nat, NEW S \in SUBSET (0..n), S # {}
  PROVE  Max(S) \in S /\ \A y \in S : y <= Max(S)
<1> DEFINE R == {n - x : x \in S}
<1>1. R \in SUBSET Nat /\ R # {}
  <2>1. \A x \in S : n - x \in Nat
    OBVIOUS
  <2>2. QED
    BY <2>1
<1>2. PICK r \in R : \A y \in R : r <= y
  BY <1>1, MinOfNat
<1>3. PICK x \in S : r = n - x
  BY <1>2
<1>4. ASSUME NEW y \in S PROVE y <= x
  <2>1. n - y \in R
    OBVIOUS
  <2>2. r <= n - y
    BY <1>2, <2>1
  <2>3. QED
    BY <1>3, <2>2
<1>5. QED
  BY <1>4 DEF Max

(***************************************************************************)
(* The min and the max of two numbers that OnAckRange takes.               *)
(***************************************************************************)
LEMMA OfTwo ==
  ASSUME NEW a \in Int, NEW b \in Int
  PROVE  /\ Max({a, b}) = IF a >= b THEN a ELSE b
         /\ Min({a, b}) = IF a <= b THEN a ELSE b
<1>1. (IF a >= b THEN a ELSE b) \in {a, b} /\ \A y \in {a, b} : (IF a >= b THEN a ELSE b) >= y
  OBVIOUS
<1>2. (IF a <= b THEN a ELSE b) \in {a, b} /\ \A y \in {a, b} : (IF a <= b THEN a ELSE b) <= y
  OBVIOUS
<1>3. \A x, z \in {a, b} : (\A y \in {a, b} : x >= y) /\ (\A y \in {a, b} : z >= y) => x = z
  OBVIOUS
<1>4. \A x, z \in {a, b} : (\A y \in {a, b} : x <= y) /\ (\A y \in {a, b} : z <= y) => x = z
  OBVIOUS
<1>5. Max({a, b}) = IF a >= b THEN a ELSE b
  <2> DEFINE c == IF a >= b THEN a ELSE b
  <2> HIDE DEF c
  <2>1. c \in {a, b} /\ \A y \in {a, b} : c >= y
    BY <1>1 DEF c
  <2>2. QED
    BY <1>3, <2>1 DEF Max, c
<1>6. Min({a, b}) = IF a <= b THEN a ELSE b
  <2> DEFINE c == IF a <= b THEN a ELSE b
  <2> HIDE DEF c
  <2>1. c \in {a, b} /\ \A y \in {a, b} : c <= y
    BY <1>2 DEF c
  <2>2. QED
    BY <1>4, <2>1 DEF Min, c
<1>7. QED
  BY <1>5, <1>6
-----------------------------------------------------------------------------
(***************************************************************************)
(* The intervals of a PacketNumberQueue, one by one.                       *)
(***************************************************************************)
LEMMA QueueTypes ==
  ASSUME NEW q, IsQueue(q)
  PROVE  /\ q \in Seq(Intervals) /\ Len(q) \in Nat /\ DOMAIN q = 1 .. Len(q)
         /\ \A i \in 1 .. Len(q) : /\ q[i] \in Intervals /\ q[i].min \in Int /\ q[i].max \in Int
                                   /\ q[i].min < q[i].max
         /\ \A i \in 1 .. Len(q) - 1 : q[i].max < q[i+1].min
<1>1. q \in Seq(Intervals) /\ Len(q) \in Nat /\ DOMAIN q = 1 .. Len(q)
  BY LenProperties DEF IsQueue
<1>2. \A i \in 1 .. Len(q) : q[i] \in Intervals
  BY <1>1
<1>3. QED
  BY <1>1, <1>2 DEF IsQueue, Canonical, Intervals

(***************************************************************************)
(* The intervals ascend, with a gap between any two.                       *)
(***************************************************************************)
LEMMA QueueAscends ==
  ASSUME NEW q, IsQueue(q)
  PROVE  \A i, j \in 1 .. Len(q) : i < j => q[i].max < q[j].min
<1> SUFFICES ASSUME NEW i \in 1 .. Len(q) PROVE \A j \in 1 .. Len(q) : i < j => q[i].max < q[j].min
  OBVIOUS
<1> DEFINE Bad == {j \in 1 .. Len(q) : i < j /\ ~(q[i].max < q[j].min)}
<1> SUFFICES ASSUME Bad # {} PROVE FALSE
  OBVIOUS
<1>1. Len(q) \in Nat
  BY QueueTypes
<1>2. Bad \in SUBSET Nat
  BY <1>1
<1>3. PICK j \in Bad : \A k \in Bad : j <= k
  BY <1>2, MinOfNat
<1>4. j \in 1 .. Len(q) /\ i < j /\ ~(q[i].max < q[j].min)
  OBVIOUS
<1>5. j - 1 \in 1 .. Len(q) /\ j - 1 \in 1 .. Len(q) - 1 /\ j - 1 \notin Bad
  BY <1>1, <1>3, <1>4
<1>6. q[j-1].max < q[j].min /\ q[j-1].min < q[j-1].max
      /\ q[j-1].max \in Int /\ q[j-1].min \in Int /\ q[i].max \in Int /\ q[j].min \in Int
  BY <1>4, <1>5, QueueTypes
<1>7. CASE j - 1 = i
  BY <1>4, <1>6, <1>7
<1>8. CASE j - 1 # i
  <2>1. q[i].max < q[j-1].min
    BY <1>1, <1>4, <1>5, <1>8
  <2>2. QED
    BY <1>4, <1>6, <2>1
<1>9. QED
  BY <1>7, <1>8

(***************************************************************************)
(* Contains: a number is in the queue when it is in one of its intervals.  *)
(***************************************************************************)
LEMMA InNumbers ==
  ASSUME NEW q, IsQueue(q)
  PROVE  \A x : x \in Numbers(q) <=>
                  x \in Int /\ \E i \in 1 .. Len(q) : q[i].min <= x /\ x < q[i].max
<1>1. Len(q) \in Nat /\ DOMAIN q = 1 .. Len(q)
      /\ \A i \in 1 .. Len(q) : q[i].min \in Int /\ q[i].max \in Int
  BY QueueTypes
<1>2. ASSUME NEW x PROVE x \in Numbers(q) <=> \E i \in 1 .. Len(q) : x \in q[i].min .. q[i].max - 1
  BY <1>1 DEF Numbers
<1>3. ASSUME NEW x, NEW i \in 1 .. Len(q)
      PROVE  x \in q[i].min .. q[i].max - 1 <=> x \in Int /\ q[i].min <= x /\ x < q[i].max
  BY <1>1
<1>4. QED
  BY <1>2, <1>3

(***************************************************************************)
(* Where Add stops on its way down.                                        *)
(***************************************************************************)
LEMMA PlaceFound ==
  ASSUME NEW q, IsQueue(q), NEW p \in Int, NEW i, i = Place(q, p)
  PROVE  /\ i \in 0 .. Len(q)
         /\ i # 0 => q[i].min <= p + 1
         /\ \A j \in 1 .. Len(q) : j > i => q[j].min > p + 1
<1> DEFINE S == {0} \cup {j \in DOMAIN q : q[j].min <= p + 1}
<1>1. Len(q) \in Nat /\ DOMAIN q = 1 .. Len(q) /\ \A j \in 1 .. Len(q) : q[j].min \in Int
  BY QueueTypes
<1>2. S \in SUBSET (0 .. Len(q)) /\ S # {}
  BY <1>1
<1>3. i \in S /\ \A y \in S : y <= i
  BY <1>1, <1>2, MaxOfBounded DEF Place
<1> HIDE DEF S
<1>4. ASSUME NEW j \in 1 .. Len(q), j > i PROVE q[j].min > p + 1
  <2>1. j \notin S
    BY <1>1, <1>2, <1>3, <1>4
  <2>2. ~(q[j].min <= p + 1)
    BY <1>1, <2>1 DEF S
  <2>3. QED
    BY <1>1, <2>2
<1>5. i # 0 => q[i].min <= p + 1
  BY <1>3 DEF S
<1>6. QED
  BY <1>2, <1>3, <1>4, <1>5

(***************************************************************************)
(* What packets or blocks are appended to comes first.                     *)
(***************************************************************************)
LEMMA Joined ==
  ASSUME NEW S, NEW a \in Seq(S), NEW b \in Seq(S), NEW r, r = a \o b
  PROVE  /\ r \in Seq(S) /\ Len(r) = Len(a) + Len(b)
         /\ \A j \in 1 .. Len(a) : r[j] = a[j]
         /\ \A j \in 1 .. Len(b) : r[Len(a) + j] = b[j]
OBVIOUS

\* r has what q has from position m to position n.
IsPart(S, q, m, n, r) ==
  /\ r \in Seq(S) /\ Len(r) = n - m + 1
  /\ \A j \in 1 .. n - m + 1 : r[j] = q[m + j - 1]

(***************************************************************************)
(* A part of a deque.                                                      *)
(***************************************************************************)
LEMMA Part ==
  ASSUME NEW S, NEW q \in Seq(S), NEW m \in 1 .. Len(q) + 1, NEW n \in m - 1 .. Len(q),
         NEW r, r = SubSeq(q, m, n)
  PROVE  IsPart(S, q, m, n, r)
<1>1. Len(q) \in Nat /\ m \in Int /\ n \in Int /\ \A j \in 1 .. Len(q) : q[j] \in S
  BY LenProperties
<1>2. \A j \in m .. n : q[j] \in S
  BY <1>1
<1>3. /\ SubSeq(q, m, n) \in Seq(S)
      /\ Len(SubSeq(q, m, n)) = IF m <= n THEN n - m + 1 ELSE 0
      /\ \A j \in 1 .. n - m + 1 : SubSeq(q, m, n)[j] = q[m + j - 1]
  BY <1>1, <1>2, SubSeqProperties
<1>4. r \in Seq(S) /\ Len(r) = (IF m <= n THEN n - m + 1 ELSE 0)
      /\ \A j \in 1 .. n - m + 1 : r[j] = q[m + j - 1]
  BY <1>3
<1>5. QED
  BY <1>1, <1>4 DEF IsPart

(***************************************************************************)
(* The front of a deque.                                                   *)
(***************************************************************************)
LEMMA FrontPart ==
  ASSUME NEW S, NEW q \in Seq(S), NEW n \in 0 .. Len(q), NEW r, r = SubSeq(q, 1, n)
  PROVE  r \in Seq(S) /\ Len(r) = n /\ \A j \in 1 .. n : r[j] = q[j]
<1>1. Len(q) \in Nat /\ n \in Int
  BY LenProperties
<1>2. 1 \in 1 .. Len(q) + 1 /\ n \in 1 - 1 .. Len(q)
  BY <1>1
<1>3. IsPart(S, q, 1, n, r)
  BY <1>2, Part, Zenon
<1>4. QED
  BY <1>1, <1>3 DEF IsPart

\* r is s with e after the first i elements.
IsInsertion(S, s, i, e, r) ==
  /\ r \in Seq(S) /\ Len(r) = Len(s) + 1
  /\ \A j \in 1 .. i : r[j] = s[j]
  /\ r[i + 1] = e
  /\ \A j \in i + 1 .. Len(s) : r[j + 1] = s[j]

\* r is s without the element i.
IsErasure(S, s, i, r) ==
  /\ r \in Seq(S) /\ Len(r) = Len(s) - 1
  /\ \A j \in 1 .. i - 1 : r[j] = s[j]
  /\ \A j \in i + 1 .. Len(s) : r[j - 1] = s[j]

(***************************************************************************)
(* What inserting an interval in the deque does.                           *)
(***************************************************************************)
LEMMA Inserted ==
  ASSUME NEW S, NEW q \in Seq(S), NEW i \in 0 .. Len(q), NEW e \in S,
         NEW r, r = InsertAt(q, i + 1, e)
  PROVE  IsInsertion(S, q, i, e, r)
<1> DEFINE a == SubSeq(q, 1, (i + 1) - 1)
           b == SubSeq(q, i + 1, Len(q))
           m == <<e>>
           c == a \o m
<1>1. Len(q) \in Nat /\ i \in Nat /\ i <= Len(q)
  BY LenProperties
<1>2. (i + 1) - 1 = i /\ (i + 1) - 1 \in 0 .. Len(q)
  BY <1>1
<1>3. r = c \o b
  BY DEF InsertAt
<1>4. m \in Seq(S) /\ Len(m) = 1 /\ m[1] = e
  OBVIOUS
<1>5. a \in Seq(S) /\ Len(a) = i /\ \A j \in 1 .. i : a[j] = q[j]
  <2>1. a \in Seq(S) /\ Len(a) = (i + 1) - 1 /\ \A j \in 1 .. (i + 1) - 1 : a[j] = q[j]
    BY <1>2, FrontPart
  <2> HIDE DEF a
  <2>2. QED
    BY <1>2, <2>1
<1>6. /\ b \in Seq(S) /\ Len(b) = Len(q) - (i + 1) + 1
      /\ \A j \in 1 .. Len(q) - (i + 1) + 1 : b[j] = q[i + 1 + j - 1]
  <2>1. i + 1 \in 1 .. Len(q) + 1 /\ Len(q) \in (i + 1) - 1 .. Len(q)
    BY <1>1
  <2>2. IsPart(S, q, i + 1, Len(q), b)
    BY <2>1, Part, Zenon
  <2>3. QED
    BY <2>2, Zenon DEF IsPart
<1>7. c = a \o m
  OBVIOUS
<1> HIDE DEF a, b, m, c
<1>8. /\ c \in Seq(S) /\ Len(c) = Len(a) + Len(m)
      /\ \A j \in 1 .. Len(a) : c[j] = a[j]
      /\ \A j \in 1 .. Len(m) : c[Len(a) + j] = m[j]
  <2>1. a \in Seq(S) /\ m \in Seq(S)
    BY <1>4, <1>5
  <2>2. QED
    BY ONLY <1>7, <2>1, Joined
<1>9. /\ r \in Seq(S) /\ Len(r) = Len(c) + Len(b)
      /\ \A j \in 1 .. Len(c) : r[j] = c[j]
      /\ \A j \in 1 .. Len(b) : r[Len(c) + j] = b[j]
  <2>1. c \in Seq(S) /\ b \in Seq(S)
    BY <1>6, <1>8
  <2>2. QED
    BY ONLY <1>3, <2>1, Joined
<1>10. Len(r) = Len(q) + 1
  BY <1>1, <1>4, <1>5, <1>6, <1>8, <1>9
<1>11. ASSUME NEW j \in 1 .. i PROVE r[j] = q[j]
  <2>1. j \in 1 .. Len(a) /\ j \in 1 .. Len(c)
    BY <1>1, <1>4, <1>5, <1>8
  <2>2. QED
    BY <1>5, <1>8, <1>9, <2>1
<1>12. r[i + 1] = e
  <2>1. i + 1 \in 1 .. Len(c) /\ 1 \in 1 .. Len(m) /\ Len(a) + 1 = i + 1
    BY <1>1, <1>4, <1>5, <1>8
  <2>2. QED
    BY <1>4, <1>8, <1>9, <2>1
<1>13. ASSUME NEW j \in i + 1 .. Len(q) PROVE r[j + 1] = q[j]
  <2> DEFINE k == j - i
  <2>1. /\ k \in 1 .. Len(q) - (i + 1) + 1 /\ k \in 1 .. Len(b)
        /\ i + 1 + k - 1 = j /\ Len(c) + k = j + 1
    BY <1>1, <1>4, <1>5, <1>6, <1>8
  <2> HIDE DEF k
  <2>2. r[Len(c) + k] = b[k] /\ b[k] = q[i + 1 + k - 1]
    BY <1>6, <1>9, <2>1
  <2>3. QED
    BY <2>1, <2>2
<1>14. QED
  BY <1>9, <1>10, <1>11, <1>12, <1>13 DEF IsInsertion

(***************************************************************************)
(* What erasing an interval from the deque does.                           *)
(***************************************************************************)
LEMMA Erased ==
  ASSUME NEW S, NEW q \in Seq(S), NEW i \in 1 .. Len(q), NEW r, r = RemoveAt(q, i)
  PROVE  IsErasure(S, q, i, r)
<1> DEFINE a == SubSeq(q, 1, i - 1)
           b == SubSeq(q, i + 1, Len(q))
<1>1. Len(q) \in Nat /\ i \in Nat /\ i >= 1 /\ i <= Len(q)
  BY LenProperties
<1>2. r = a \o b
  BY Zenon DEF RemoveAt
<1>3. a \in Seq(S) /\ Len(a) = i - 1 /\ \A j \in 1 .. i - 1 : a[j] = q[j]
  <2>1. i - 1 \in 0 .. Len(q)
    BY <1>1
  <2>2. QED
    BY <2>1, FrontPart
<1>4. /\ b \in Seq(S) /\ Len(b) = Len(q) - (i + 1) + 1
      /\ \A j \in 1 .. Len(q) - (i + 1) + 1 : b[j] = q[i + 1 + j - 1]
  <2>1. i + 1 \in 1 .. Len(q) + 1 /\ Len(q) \in (i + 1) - 1 .. Len(q)
    BY <1>1
  <2>2. IsPart(S, q, i + 1, Len(q), b)
    BY <2>1, Part, Zenon
  <2>3. QED
    BY <2>2, Zenon DEF IsPart
<1> HIDE DEF a, b
<1>5. /\ r \in Seq(S) /\ Len(r) = Len(a) + Len(b)
      /\ \A j \in 1 .. Len(a) : r[j] = a[j]
      /\ \A j \in 1 .. Len(b) : r[Len(a) + j] = b[j]
  <2>1. a \in Seq(S) /\ b \in Seq(S)
    BY <1>3, <1>4
  <2>2. QED
    BY ONLY <1>2, <2>1, Joined
<1>6. Len(r) = Len(q) - 1
  BY <1>1, <1>3, <1>4, <1>5
<1>7. ASSUME NEW j \in 1 .. i - 1 PROVE r[j] = q[j]
  <2>1. j \in 1 .. Len(a)
    BY <1>1, <1>3
  <2>2. QED
    BY <1>3, <1>5, <2>1
<1>8. ASSUME NEW j \in i + 1 .. Len(q) PROVE r[j - 1] = q[j]
  <2> DEFINE k == j - i
  <2>1. /\ k \in 1 .. Len(q) - (i + 1) + 1 /\ k \in 1 .. Len(b)
        /\ i + 1 + k - 1 = j /\ Len(a) + k = j - 1
    BY <1>1, <1>3, <1>4
  <2> HIDE DEF k
  <2>2. r[Len(a) + k] = b[k] /\ b[k] = q[i + 1 + k - 1]
    BY <1>4, <1>5, <2>1
  <2>3. QED
    BY <2>1, <2>2
<1>9. QED
  BY <1>5, <1>6, <1>7, <1>8 DEF IsErasure

-----------------------------------------------------------------------------
(***************************************************************************)
(* Add where no interval is next to the number: it becomes one of its own. *)
(***************************************************************************)
LEMMA InsertKeeps ==
  ASSUME NEW q, IsQueue(q), NEW p \in Int, NEW i \in 0 .. Len(q),
         i # 0 => q[i].max < p,
         \A j \in 1 .. Len(q) : j > i => q[j].min > p + 1,
         NEW r, r = InsertAt(q, i + 1, [min |-> p, max |-> p + 1])
  PROVE  IsQueue(r) /\ Numbers(r) = Numbers(q) \cup {p}
<1> DEFINE e == [min |-> p, max |-> p + 1]
<1>1. e \in Intervals /\ e.min = p /\ e.max = p + 1
  BY DEF Intervals
<1>2. r = InsertAt(q, i + 1, e)
  OBVIOUS
<1> HIDE DEF e
<1>3. /\ q \in Seq(Intervals) /\ Len(q) \in Nat
      /\ \A j \in 1 .. Len(q) : q[j].min \in Int /\ q[j].max \in Int /\ q[j].min < q[j].max
      /\ \A j \in 1 .. Len(q) - 1 : q[j].max < q[j+1].min
  BY QueueTypes
<1>4. /\ r \in Seq(Intervals) /\ Len(r) = Len(q) + 1
      /\ \A j \in 1 .. i : r[j] = q[j]
      /\ r[i + 1] = e
      /\ \A j \in i + 1 .. Len(q) : r[j + 1] = q[j]
  <2>1. q \in Seq(Intervals) /\ e \in Intervals /\ i \in 0 .. Len(q)
    BY <1>1, <1>3
  <2>2. IsInsertion(Intervals, q, i, e, r)
    BY <2>1, <1>2, Inserted, Zenon
  <2>3. QED
    BY <2>2 DEF IsInsertion
<1>5. DOMAIN r = 1 .. Len(r)
  BY <1>4
<1>6. \A j \in i + 2 .. Len(r) : j - 1 \in i + 1 .. Len(q) /\ r[j] = q[j-1]
  <2> SUFFICES ASSUME NEW j \in i + 2 .. Len(r) PROVE j - 1 \in i + 1 .. Len(q) /\ r[j] = q[j-1]
    OBVIOUS
  <2>1. j - 1 \in i + 1 .. Len(q) /\ (j - 1) + 1 = j
    BY <1>3, <1>4
  <2>2. QED
    BY <1>4, <2>1
<1>7. ASSUME NEW j \in 1 .. Len(r) PROVE r[j].min < r[j].max
  <2>1. CASE j \in 1 .. i
    BY <1>3, <1>4, <2>1
  <2>2. CASE j = i + 1
    BY <1>1, <1>4, <2>2
  <2>3. CASE j \in i + 2 .. Len(r)
    <3>1. j - 1 \in 1 .. Len(q) /\ r[j] = q[j-1]
      BY <1>3, <1>6, <2>3
    <3>2. QED
      BY <1>3, <3>1
  <2>4. QED
    BY <1>3, <1>4, <2>1, <2>2, <2>3
<1>8. ASSUME NEW j \in 1 .. Len(r) - 1 PROVE r[j].max < r[j+1].min
  <2>1. CASE j + 1 \in 1 .. i
    <3>1. j \in 1 .. i /\ j \in 1 .. Len(q) - 1
      BY <1>3, <2>1
    <3>2. r[j] = q[j] /\ r[j+1] = q[j+1]
      BY <1>4, <2>1, <3>1
    <3>3. QED
      BY <1>3, <3>1, <3>2
  <2>2. CASE j = i
    BY <1>1, <1>4, <2>2
  <2>3. CASE j = i + 1
    <3>1. i + 1 \in 1 .. Len(q) /\ j + 1 = i + 2 /\ i + 1 \in i + 1 .. Len(q)
      BY <1>3, <1>4, <2>3
    <3>2. r[j+1] = q[i+1] /\ q[i+1].min > p + 1
      <4>1. r[(i + 1) + 1] = q[i + 1] /\ (i + 1) + 1 = j + 1
        BY <1>4, <2>3, <3>1
      <4>2. QED
        BY <3>1, <4>1
    <3>3. r[j] = e
      BY <1>4, <2>3
    <3>4. QED
      BY <1>1, <1>3, <3>1, <3>2, <3>3
  <2>4. CASE j \in i + 2 .. Len(r)
    <3>1. j - 1 \in 1 .. Len(q) - 1 /\ j + 1 \in i + 2 .. Len(r) /\ (j + 1) - 1 = (j - 1) + 1
      BY <1>3, <1>4, <2>4
    <3>2. r[j] = q[j-1] /\ r[j+1] = q[(j-1)+1]
      BY <1>6, <2>4, <3>1
    <3>3. QED
      BY <1>3, <3>1, <3>2
  <2>5. QED
    BY <1>3, <1>4, <2>1, <2>2, <2>3, <2>4
<1>9. IsQueue(r)
  BY <1>4, <1>5, <1>7, <1>8 DEF IsQueue, Canonical
<1>10. ASSUME NEW x PROVE x \in Numbers(r) <=> x \in Numbers(q) \/ x = p
  <2>1. ASSUME x \in Numbers(r) PROVE x \in Numbers(q) \/ x = p
    <3>1. x \in Int
      BY <1>9, <2>1, InNumbers
    <3>2. PICK j \in 1 .. Len(r) : r[j].min <= x /\ x < r[j].max
      BY <1>9, <2>1, InNumbers
    <3>3. CASE j \in 1 .. i
      <4>1. j \in 1 .. Len(q) /\ r[j] = q[j]
        BY <1>3, <1>4, <3>3
      <4>2. QED
        BY <3>1, <3>2, <4>1, InNumbers
    <3>4. CASE j = i + 1
      BY <1>1, <1>4, <3>1, <3>2, <3>4
    <3>5. CASE j \in i + 2 .. Len(r)
      <4>1. j - 1 \in 1 .. Len(q) /\ r[j] = q[j-1]
        BY <1>3, <1>6, <3>5
      <4>2. QED
        BY <3>1, <3>2, <4>1, InNumbers
    <3>6. QED
      BY <1>3, <1>4, <3>3, <3>4, <3>5
  <2>2. ASSUME x \in Numbers(q) PROVE x \in Numbers(r)
    <3>1. x \in Int
      BY <2>2, InNumbers
    <3>2. PICK j \in 1 .. Len(q) : q[j].min <= x /\ x < q[j].max
      BY <2>2, InNumbers
    <3>3. CASE j \in 1 .. i
      <4>1. j \in 1 .. Len(r) /\ r[j] = q[j]
        BY <1>3, <1>4, <3>3
      <4>2. QED
        BY <1>9, <3>1, <3>2, <4>1, InNumbers
    <3>4. CASE j \in i + 1 .. Len(q)
      <4>1. j + 1 \in 1 .. Len(r) /\ r[j + 1] = q[j]
        BY <1>3, <1>4, <3>4
      <4>2. QED
        BY <1>9, <3>1, <3>2, <4>1, InNumbers
    <3>5. QED
      BY <1>3, <3>3, <3>4
  <2>3. p \in Numbers(r)
    <3>1. i + 1 \in 1 .. Len(r) /\ r[i+1].min <= p /\ p < r[i+1].max
      BY <1>1, <1>3, <1>4
    <3>2. QED
      BY <1>9, <3>1, InNumbers
  <2>4. QED
    BY <2>1, <2>2, <2>3
<1>11. QED
  BY <1>9, <1>10

\* r is s with e for the element i.
IsChange(S, s, i, e, r) ==
  /\ r \in Seq(S) /\ Len(r) = Len(s)
  /\ r[i] = e
  /\ \A j \in 1 .. Len(s) : j # i => r[j] = s[j]

(***************************************************************************)
(* What assigning to an interval of the deque does.                        *)
(***************************************************************************)
LEMMA Changed ==
  ASSUME NEW S, NEW q \in Seq(S), NEW i \in 1 .. Len(q), NEW e \in S,
         NEW r, r = [q EXCEPT ![i] = e]
  PROVE  IsChange(S, q, i, e, r)
BY DEF IsChange

\* The numbers of r are those of q, with the ones in e for those in the interval i.
InChanged(q, i, e, r) ==
  \A x : x \in Numbers(r) <=>
    x \in Int /\ \/ e.min <= x /\ x < e.max
                 \/ \E j \in 1 .. Len(q) : j # i /\ q[j].min <= x /\ x < q[j].max

(***************************************************************************)
(* An interval that is given other bounds, still clear of its neighbours,  *)
(* leaves the queue ascending and stands for the numbers in them.          *)
(***************************************************************************)
LEMMA ChangeKeeps ==
  ASSUME NEW q, IsQueue(q), NEW i \in 1 .. Len(q), NEW e \in Intervals, e.min < e.max,
         i > 1 => q[i-1].max < e.min,
         i < Len(q) => e.max < q[i+1].min,
         NEW r, IsChange(Intervals, q, i, e, r)
  PROVE  IsQueue(r) /\ InChanged(q, i, e, r)
<1>1. /\ Len(q) \in Nat
      /\ \A j \in 1 .. Len(q) : q[j].min \in Int /\ q[j].max \in Int /\ q[j].min < q[j].max
      /\ \A j \in 1 .. Len(q) - 1 : q[j].max < q[j+1].min
  BY QueueTypes
<1>2. /\ r \in Seq(Intervals) /\ Len(r) = Len(q) /\ r[i] = e
      /\ \A j \in 1 .. Len(q) : j # i => r[j] = q[j]
  BY DEF IsChange
<1>3. DOMAIN r = 1 .. Len(r)
  BY <1>2
<1>4. ASSUME NEW j \in 1 .. Len(r) PROVE r[j].min < r[j].max
  BY <1>1, <1>2
<1>5. ASSUME NEW j \in 1 .. Len(r) - 1 PROVE r[j].max < r[j+1].min
  <2>1. j \in 1 .. Len(q) - 1 /\ j \in 1 .. Len(q) /\ j + 1 \in 1 .. Len(q)
    BY <1>1, <1>2
  <2>2. CASE j = i
    BY <1>1, <1>2, <2>1, <2>2
  <2>3. CASE j + 1 = i
    <3>1. j = i - 1 /\ i > 1
      BY <1>1, <2>1, <2>3
    <3>2. QED
      BY <1>1, <1>2, <2>1, <2>3, <3>1
  <2>4. CASE j # i /\ j + 1 # i
    BY <1>1, <1>2, <2>1, <2>4
  <2>5. QED
    BY <2>2, <2>3, <2>4
<1>6. IsQueue(r)
  BY <1>2, <1>3, <1>4, <1>5 DEF IsQueue, Canonical
<1>7. ASSUME NEW x
      PROVE  x \in Numbers(r) <=>
               x \in Int /\ \/ e.min <= x /\ x < e.max
                            \/ \E j \in 1 .. Len(q) : j # i /\ q[j].min <= x /\ x < q[j].max
  <2>1. x \in Numbers(r) <=> x \in Int /\ \E j \in 1 .. Len(q) : r[j].min <= x /\ x < r[j].max
    BY <1>2, <1>6, InNumbers
  <2>2. (\E j \in 1 .. Len(q) : r[j].min <= x /\ x < r[j].max)
          <=> \/ e.min <= x /\ x < e.max
              \/ \E j \in 1 .. Len(q) : j # i /\ q[j].min <= x /\ x < q[j].max
    BY <1>2
  <2>3. QED
    BY <2>1, <2>2
<1>8. QED
  BY <1>6, <1>7 DEF InChanged

(***************************************************************************)
(* An interval with another max, and one with another min.                 *)
(***************************************************************************)
LEMMA Bounds ==
  ASSUME NEW v \in Intervals, NEW n \in Int
  PROVE  /\ [v EXCEPT !.max = n] \in Intervals
         /\ [v EXCEPT !.max = n].min = v.min /\ [v EXCEPT !.max = n].max = n
         /\ [v EXCEPT !.min = n] \in Intervals
         /\ [v EXCEPT !.min = n].min = n /\ [v EXCEPT !.min = n].max = v.max
BY DEF Intervals

(***************************************************************************)
(* Add where the number is next above an interval.                         *)
(***************************************************************************)
LEMMA ExtendUp ==
  ASSUME NEW q, IsQueue(q), NEW i \in 1 .. Len(q), NEW p \in Int, q[i].max = p,
         \A j \in 1 .. Len(q) : j > i => q[j].min > p + 1,
         NEW r, r = [q EXCEPT ![i].max = p + 1]
  PROVE  IsQueue(r) /\ Numbers(r) = Numbers(q) \cup {p}
<1>1. /\ q \in Seq(Intervals) /\ Len(q) \in Nat /\ q[i] \in Intervals
      /\ \A j \in 1 .. Len(q) : q[j].min \in Int /\ q[j].max \in Int /\ q[j].min < q[j].max
      /\ \A j \in 1 .. Len(q) - 1 : q[j].max < q[j+1].min
  BY QueueTypes
<1> DEFINE e == [q[i] EXCEPT !.max = p + 1]
<1>2. e \in Intervals /\ e.min = q[i].min /\ e.max = p + 1
  <2>1. p + 1 \in Int
    OBVIOUS
  <2>2. QED
    BY <1>1, <2>1, Bounds, Zenon
<1>3. r = [q EXCEPT ![i] = e]
  OBVIOUS
<1> HIDE DEF e
<1>4. IsChange(Intervals, q, i, e, r)
  BY <1>1, <1>2, <1>3, Changed, Zenon
<1>5. e.min < e.max
  BY <1>1, <1>2
<1>6. i > 1 => q[i-1].max < e.min
  <2> SUFFICES ASSUME i > 1 PROVE q[i-1].max < e.min
    OBVIOUS
  <2>1. i - 1 \in 1 .. Len(q) - 1 /\ (i - 1) + 1 = i
    BY <1>1
  <2>2. QED
    BY <1>1, <1>2, <2>1
<1>7. i < Len(q) => e.max < q[i+1].min
  <2> SUFFICES ASSUME i < Len(q) PROVE e.max < q[i+1].min
    OBVIOUS
  <2>1. i + 1 \in 1 .. Len(q) /\ i + 1 > i
    BY <1>1
  <2>2. q[i+1].min > p + 1 /\ q[i+1].min \in Int
    BY <1>1, <2>1
  <2>3. QED
    BY <1>2, <2>2
<1>8. IsQueue(r) /\ InChanged(q, i, e, r)
  BY <1>2, <1>4, <1>5, <1>6, <1>7, ChangeKeeps
<1>9. ASSUME NEW x PROVE x \in Numbers(r) <=> x \in Numbers(q) \/ x = p
  <2>1. x \in Int => (e.min <= x /\ x < e.max <=> (q[i].min <= x /\ x < q[i].max) \/ x = p)
    BY <1>1, <1>2
  <2>2. x \in Numbers(q) <=> x \in Int /\ \E j \in 1 .. Len(q) : q[j].min <= x /\ x < q[j].max
    BY InNumbers
  <2>3. QED
    BY <1>8, <2>1, <2>2 DEF InChanged
<1>10. QED
  BY <1>8, <1>9

(***************************************************************************)
(* Add where the number is next below an interval, and not next above one. *)
(***************************************************************************)
LEMMA ExtendDown ==
  ASSUME NEW q, IsQueue(q), NEW i \in 1 .. Len(q), NEW p \in Int, q[i].min = p + 1,
         i > 1 => q[i-1].max # p,
         NEW r, r = [q EXCEPT ![i].min = p]
  PROVE  IsQueue(r) /\ Numbers(r) = Numbers(q) \cup {p}
<1>1. /\ q \in Seq(Intervals) /\ Len(q) \in Nat /\ q[i] \in Intervals
      /\ \A j \in 1 .. Len(q) : q[j].min \in Int /\ q[j].max \in Int /\ q[j].min < q[j].max
      /\ \A j \in 1 .. Len(q) - 1 : q[j].max < q[j+1].min
  BY QueueTypes
<1> DEFINE e == [q[i] EXCEPT !.min = p]
<1>2. e \in Intervals /\ e.min = p /\ e.max = q[i].max
  BY <1>1, Bounds, Zenon
<1>3. r = [q EXCEPT ![i] = e]
  OBVIOUS
<1> HIDE DEF e
<1>4. IsChange(Intervals, q, i, e, r)
  BY <1>1, <1>2, <1>3, Changed, Zenon
<1>5. e.min < e.max
  BY <1>1, <1>2
<1>6. i > 1 => q[i-1].max < e.min
  <2> SUFFICES ASSUME i > 1 PROVE q[i-1].max < e.min
    OBVIOUS
  <2>1. i - 1 \in 1 .. Len(q) - 1 /\ i - 1 \in 1 .. Len(q) /\ (i - 1) + 1 = i
    BY <1>1
  <2>2. q[i-1].max < q[i].min /\ q[i-1].max \in Int
    BY <1>1, <2>1
  <2>3. QED
    BY <1>2, <2>2
<1>7. i < Len(q) => e.max < q[i+1].min
  BY <1>1, <1>2
<1>8. IsQueue(r) /\ InChanged(q, i, e, r)
  BY <1>2, <1>4, <1>5, <1>6, <1>7, ChangeKeeps
<1>9. ASSUME NEW x PROVE x \in Numbers(r) <=> x \in Numbers(q) \/ x = p
  <2>1. x \in Int => (e.min <= x /\ x < e.max <=> (q[i].min <= x /\ x < q[i].max) \/ x = p)
    BY <1>1, <1>2
  <2>2. x \in Numbers(q) <=> x \in Int /\ \E j \in 1 .. Len(q) : q[j].min <= x /\ x < q[j].max
    BY InNumbers
  <2>3. QED
    BY <1>8, <2>1, <2>2 DEF InChanged
<1>10. QED
  BY <1>8, <1>9

\* r is q with e for the elements k and k + 1.
IsMerge(q, k, e, r) ==
  /\ r \in Seq(Intervals) /\ Len(r) = Len(q) - 1
  /\ \A j \in 1 .. k - 1 : r[j] = q[j]
  /\ r[k] = e
  /\ \A j \in k + 1 .. Len(q) - 1 : r[j] = q[j+1]

(***************************************************************************)
(* What assigning to one interval and erasing the next does.               *)
(***************************************************************************)
LEMMA Merged ==
  ASSUME NEW q \in Seq(Intervals), NEW k \in 1 .. Len(q) - 1, NEW e, NEW w, NEW i, i = k + 1,
         IsChange(Intervals, q, k, e, w), NEW r, IsErasure(Intervals, w, i, r)
  PROVE  IsMerge(q, k, e, r)
<1>1. Len(q) \in Nat
  BY LenProperties
<1>2. /\ w \in Seq(Intervals) /\ Len(w) = Len(q) /\ w[k] = e
      /\ \A j \in 1 .. Len(q) : j # k => w[j] = q[j]
  BY DEF IsChange
<1>3. /\ r \in Seq(Intervals) /\ Len(r) = Len(w) - 1
      /\ \A j \in 1 .. i - 1 : r[j] = w[j]
      /\ \A j \in i + 1 .. Len(w) : r[j - 1] = w[j]
  BY DEF IsErasure
<1>4. ASSUME NEW j \in 1 .. k - 1 PROVE r[j] = q[j]
  <2>1. j \in 1 .. i - 1 /\ j \in 1 .. Len(q) /\ j # k
    BY <1>1
  <2>2. r[j] = w[j]
    BY <1>3, <2>1
  <2>3. QED
    BY <1>2, <2>1, <2>2
<1>5. r[k] = e
  <2>1. k \in 1 .. i - 1
    BY <1>1
  <2>2. QED
    BY <1>2, <1>3, <2>1
<1>6. ASSUME NEW j \in k + 1 .. Len(q) - 1 PROVE r[j] = q[j+1]
  <2>1. j + 1 \in i + 1 .. Len(q) /\ j + 1 \in 1 .. Len(q) /\ j + 1 # k /\ (j + 1) - 1 = j
    BY <1>1
  <2>2. r[(j+1)-1] = w[j+1]
    BY <1>2, <1>3, <2>1
  <2>3. w[j+1] = q[j+1]
    BY <1>2, <2>1
  <2>4. QED
    BY <2>1, <2>2, <2>3
<1>7. QED
  BY <1>2, <1>3, <1>4, <1>5, <1>6 DEF IsMerge

(***************************************************************************)
(* Add where the number fills the gap between two intervals: they become   *)
(* one.                                                                    *)
(***************************************************************************)
LEMMA MergeKeeps ==
  ASSUME NEW q, IsQueue(q), NEW k \in 1 .. Len(q) - 1, NEW p \in Int,
         q[k].max = p, q[k+1].min = p + 1,
         NEW e \in Intervals, e.min = q[k].min, e.max = q[k+1].max,
         NEW r, IsMerge(q, k, e, r)
  PROVE  IsQueue(r) /\ Numbers(r) = Numbers(q) \cup {p}
<1>1. /\ q \in Seq(Intervals) /\ Len(q) \in Nat
      /\ \A j \in 1 .. Len(q) : /\ q[j] \in Intervals /\ q[j].min \in Int /\ q[j].max \in Int
                                /\ q[j].min < q[j].max
      /\ \A j \in 1 .. Len(q) - 1 : q[j].max < q[j+1].min
  BY QueueTypes
<1> DEFINE i == k + 1
<1>2. k \in Nat /\ k \in 1 .. Len(q) /\ i \in 1 .. Len(q) /\ i = k + 1
  BY <1>1
<1>3. e.min = q[k].min /\ e.max = q[i].max /\ q[i].min = p + 1
  OBVIOUS
<1>4. q[k].max = p
  OBVIOUS
<1> HIDE DEF i
<1>5. r \in Seq(Intervals) /\ Len(r) = Len(q) - 1
  BY DEF IsMerge
<1>6. /\ \A j \in 1 .. k - 1 : r[j] = q[j]
      /\ r[k] = e
      /\ \A j \in k + 1 .. Len(q) - 1 : r[j] = q[j+1]
  BY DEF IsMerge
<1>7. DOMAIN r = 1 .. Len(r)
  BY <1>5
<1>8. ASSUME NEW j \in 1 .. Len(r) PROVE r[j].min < r[j].max
  <2>1. CASE j \in 1 .. k - 1
    <3>1. j \in 1 .. Len(q) /\ r[j] = q[j]
      BY <1>1, <1>2, <1>6, <2>1
    <3>2. QED
      BY <1>1, <3>1
  <2>2. CASE j = k
    BY <1>1, <1>2, <1>3, <1>4, <1>6, <2>2
  <2>3. CASE j \in k + 1 .. Len(q) - 1
    <3>1. j + 1 \in 1 .. Len(q) /\ r[j] = q[j+1]
      BY <1>1, <1>2, <1>6, <2>3
    <3>2. QED
      BY <1>1, <3>1
  <2>4. QED
    BY <1>1, <1>2, <1>5, <2>1, <2>2, <2>3
<1>9. ASSUME NEW j \in 1 .. Len(r) - 1 PROVE r[j].max < r[j+1].min
  <2>1. CASE j + 1 \in 1 .. k - 1
    <3>1. j \in 1 .. k - 1 /\ j \in 1 .. Len(q) - 1
      BY <1>1, <1>2, <2>1
    <3>2. r[j] = q[j] /\ r[j+1] = q[j+1]
      BY <1>6, <2>1, <3>1
    <3>3. QED
      BY <1>1, <3>1, <3>2
  <2>2. CASE j + 1 = k
    <3>1. j \in 1 .. k - 1 /\ j \in 1 .. Len(q) - 1
      BY <1>1, <1>2, <2>2
    <3>2. r[j] = q[j] /\ r[j+1] = e
      BY <1>6, <2>2, <3>1
    <3>3. q[j].max < q[j+1].min
      BY <1>1, <3>1
    <3>4. QED
      BY <1>3, <2>2, <3>2, <3>3
  <2>3. CASE j = k
    <3>1. k + 1 \in k + 1 .. Len(q) - 1 /\ k + 1 \in 1 .. Len(q) - 1
      BY <1>1, <1>2, <1>5, <2>3
    <3>2. r[j] = e /\ r[j+1] = q[(k+1)+1]
      BY <1>6, <2>3, <3>1
    <3>3. q[k+1].max < q[(k+1)+1].min
      BY <1>1, <3>1
    <3>4. QED
      BY <1>2, <1>3, <3>2, <3>3
  <2>4. CASE j \in k + 1 .. Len(q) - 1
    <3>1. j + 1 \in k + 1 .. Len(q) - 1 /\ j + 1 \in 1 .. Len(q) - 1
      BY <1>1, <1>2, <1>5, <2>4
    <3>2. r[j] = q[j+1] /\ r[j+1] = q[(j+1)+1]
      BY <1>6, <2>4, <3>1
    <3>3. QED
      BY <1>1, <3>1, <3>2
  <2>5. QED
    BY <1>1, <1>2, <1>5, <2>1, <2>2, <2>3, <2>4
<1>10. IsQueue(r)
  BY <1>5, <1>7, <1>8, <1>9 DEF IsQueue, Canonical
<1>11. ASSUME NEW x PROVE x \in Numbers(r) <=> x \in Numbers(q) \/ x = p
  <2>1. x \in Numbers(r) <=> x \in Int /\ \E j \in 1 .. Len(r) : r[j].min <= x /\ x < r[j].max
    BY <1>10, InNumbers
  <2>2. x \in Numbers(q) <=> x \in Int /\ \E j \in 1 .. Len(q) : q[j].min <= x /\ x < q[j].max
    BY InNumbers
  <2>3. q[i].min = p + 1 /\ q[k].min \in Int /\ q[i].max \in Int /\ q[k].min < p /\ p + 1 < q[i].max
    BY <1>1, <1>2, <1>4
  <2>4. ASSUME x \in Int PROVE e.min <= x /\ x < e.max <=>
          (q[k].min <= x /\ x < q[k].max) \/ x = p \/ (q[i].min <= x /\ x < q[i].max)
    BY <1>3, <1>4, <2>3, <2>4
  <2>5. ASSUME x \in Numbers(r) PROVE x \in Numbers(q) \/ x = p
    <3>1. PICK j \in 1 .. Len(r) : r[j].min <= x /\ x < r[j].max
      BY <2>1, <2>5
    <3>2. CASE j \in 1 .. k - 1
      <4>1. j \in 1 .. Len(q) /\ r[j] = q[j]
        BY <1>1, <1>2, <1>6, <3>2
      <4>2. QED
        BY <2>1, <2>2, <2>5, <3>1, <4>1
    <3>3. CASE j = k
      BY <1>2, <1>6, <2>1, <2>2, <2>4, <2>5, <3>1, <3>3
    <3>4. CASE j \in k + 1 .. Len(q) - 1
      <4>1. j + 1 \in 1 .. Len(q) /\ r[j] = q[j+1]
        BY <1>1, <1>2, <1>6, <3>4
      <4>2. QED
        BY <2>1, <2>2, <2>5, <3>1, <4>1
    <3>5. QED
      BY <1>1, <1>2, <1>5, <3>2, <3>3, <3>4
  <2>6. ASSUME x \in Numbers(q) \/ x = p PROVE x \in Numbers(r)
    <3>1. x \in Int
      BY <2>2, <2>6
    <3>2. k \in 1 .. Len(r) /\ r[k] = e
      BY <1>1, <1>2, <1>5, <1>6
    <3>3. CASE x = p \/ (q[k].min <= x /\ x < q[k].max) \/ (q[i].min <= x /\ x < q[i].max)
      BY <2>1, <2>4, <3>1, <3>2, <3>3
    <3>4. CASE ~(x = p \/ (q[k].min <= x /\ x < q[k].max) \/ (q[i].min <= x /\ x < q[i].max))
      <4>1. PICK j \in 1 .. Len(q) : q[j].min <= x /\ x < q[j].max
        BY <2>2, <2>6, <3>4
      <4>2. j # k /\ j # i
        BY <3>4, <4>1
      <4>3. CASE j \in 1 .. k - 1
        <5>1. j \in 1 .. Len(r) /\ r[j] = q[j]
          BY <1>1, <1>2, <1>5, <1>6, <4>3
        <5>2. QED
          BY <2>1, <3>1, <4>1, <5>1
      <4>4. CASE j \in i + 1 .. Len(q)
        <5>1. j - 1 \in k + 1 .. Len(q) - 1 /\ j - 1 \in 1 .. Len(r) /\ (j - 1) + 1 = j
          BY <1>1, <1>2, <1>5, <4>4
        <5>2. r[j-1] = q[j]
          BY <1>6, <5>1
        <5>3. QED
          BY <2>1, <3>1, <4>1, <5>1, <5>2
      <4>5. QED
        BY <1>1, <1>2, <4>2, <4>3, <4>4
    <3>5. QED
      BY <3>3, <3>4
  <2>7. QED
    BY <2>5, <2>6
<1>12. QED
  BY <1>10, <1>11

(***************************************************************************)
(* PacketNumberQueue::Add, whichever of its five cases it takes: the queue *)
(* stays ascending with a gap between any two intervals, and holds the     *)
(* number besides what it held.                                            *)
(***************************************************************************)
LEMMA AddKeeps ==
  ASSUME NEW q, IsQueue(q), NEW p \in Int, NEW r, r = Add(q, p)
  PROVE  IsQueue(r) /\ Numbers(r) = Numbers(q) \cup {p}
<1>1. PICK i : i = Place(q, p)
  OBVIOUS
<1>2. r = IF i = 0 \/ q[i].max < p THEN InsertAt(q, i + 1, [min |-> p, max |-> p + 1])
          ELSE IF q[i].max = p THEN [q EXCEPT ![i].max = p + 1]
          ELSE IF q[i].min # p + 1 THEN q
          ELSE IF i > 1 /\ q[i-1].max = p
            THEN RemoveAt([q EXCEPT ![i-1].max = q[i].max], i)
          ELSE [q EXCEPT ![i].min = p]
  BY <1>1, Zenon DEF Add
<1>3. /\ i \in 0 .. Len(q)
      /\ i # 0 => q[i].min <= p + 1
      /\ \A j \in 1 .. Len(q) : j > i => q[j].min > p + 1
  BY <1>1, PlaceFound
<1>4. /\ q \in Seq(Intervals) /\ Len(q) \in Nat
      /\ \A j \in 1 .. Len(q) : /\ q[j] \in Intervals /\ q[j].min \in Int /\ q[j].max \in Int
                                /\ q[j].min < q[j].max
  BY QueueTypes
<1>5. CASE i = 0 \/ q[i].max < p
  <2>1. r = InsertAt(q, i + 1, [min |-> p, max |-> p + 1])
    BY <1>2, <1>5, Zenon
  <2>2. i # 0 => q[i].max < p
    BY <1>5
  <2>3. QED
    BY <1>3, <2>1, <2>2, InsertKeeps, Zenon
<1>6. CASE ~(i = 0 \/ q[i].max < p)
  <2>1. i \in 1 .. Len(q)
    BY <1>3, <1>4, <1>6
  <2>2. q[i].min \in Int /\ q[i].max \in Int /\ q[i].max >= p /\ q[i].min <= p + 1
    BY <1>3, <1>4, <1>6, <2>1
  <2>3. CASE q[i].max = p
    <3>1. r = [q EXCEPT ![i].max = p + 1]
      BY <1>2, <1>6, <2>3, Zenon
    <3>2. \A j \in 1 .. Len(q) : j > i => q[j].min > p + 1
      BY <1>3
    <3>3. QED
      BY ONLY IsQueue(q), p \in Int, <2>1, <2>3, <3>1, <3>2, ExtendUp
  <2>4. CASE q[i].max # p /\ q[i].min # p + 1
    <3>1. r = q
      BY <1>2, <1>6, <2>4, Zenon
    <3>2. q[i].min <= p /\ p < q[i].max
      BY <2>2, <2>4
    <3>3. p \in Numbers(q)
      BY <2>1, <3>2, InNumbers
    <3>4. QED
      BY <3>1, <3>3
  <2>5. CASE q[i].max # p /\ q[i].min = p + 1 /\ i > 1 /\ q[i-1].max = p
    <3> DEFINE k == i - 1
               e == [q[k] EXCEPT !.max = q[i].max]
               w == [q EXCEPT ![k] = e]
    <3>1. r = RemoveAt(w, i)
      BY <1>2, <1>6, <2>5, Zenon
    <3>2. k \in 1 .. Len(q) - 1 /\ k \in 1 .. Len(q) /\ i = k + 1 /\ q[k].max = p
      BY <1>4, <2>1, <2>5
    <3>3. q[k] \in Intervals /\ q[i].max \in Int
      BY <1>4, <2>1, <3>2
    <3>4. e \in Intervals /\ e.min = q[k].min /\ e.max = q[i].max
      BY <3>3, Bounds, Zenon
    <3> HIDE DEF e
    <3>5. w = [q EXCEPT ![k] = e]
      OBVIOUS
    <3> HIDE DEF w, k
    <3>6. IsChange(Intervals, q, k, e, w)
      BY <1>4, <3>2, <3>4, <3>5, Changed, Zenon
    <3>7. w \in Seq(Intervals) /\ i \in 1 .. Len(w)
      BY <2>1, <3>6 DEF IsChange
    <3>8. IsErasure(Intervals, w, i, r)
      BY <3>1, <3>7, Erased, Zenon
    <3>9. IsMerge(q, k, e, r)
      BY <1>4, <3>2, <3>6, <3>8, Merged, Zenon
    <3>10. q[k+1].min = p + 1 /\ e.max = q[k+1].max
      BY <2>5, <3>2, <3>4, Zenon
    <3>11. QED
      BY ONLY IsQueue(q), p \in Int, <3>2, <3>4, <3>9, <3>10, MergeKeeps
  <2>6. CASE q[i].max # p /\ q[i].min = p + 1 /\ ~(i > 1 /\ q[i-1].max = p)
    <3>1. r = [q EXCEPT ![i].min = p]
      BY <1>2, <1>6, <2>6, Zenon
    <3>2. i > 1 => q[i-1].max # p
      BY <2>6
    <3>3. QED
      BY <2>1, <2>6, <3>1, <3>2, ExtendDown, Zenon
  <2>7. QED
    BY <2>3, <2>4, <2>5, <2>6
<1>7. QED
  BY <1>5, <1>6

(***************************************************************************)
(* The intervals from one on are a queue, and stand for their numbers.     *)
(***************************************************************************)
LEMMA TailKeeps ==
  ASSUME NEW q, IsQueue(q), NEW m \in 1 .. Len(q) + 1, NEW r, r = SubSeq(q, m, Len(q))
  PROVE  /\ IsQueue(r)
         /\ \A x : x \in Numbers(r) <=>
              x \in Int /\ \E j \in m .. Len(q) : q[j].min <= x /\ x < q[j].max
<1>1. /\ q \in Seq(Intervals) /\ Len(q) \in Nat
      /\ \A j \in 1 .. Len(q) : q[j].min \in Int /\ q[j].max \in Int /\ q[j].min < q[j].max
      /\ \A j \in 1 .. Len(q) - 1 : q[j].max < q[j+1].min
  BY QueueTypes
<1>2. Len(q) \in m - 1 .. Len(q) /\ m \in Int
  BY <1>1
<1>3. /\ r \in Seq(Intervals) /\ Len(r) = Len(q) - m + 1
      /\ \A j \in 1 .. Len(q) - m + 1 : r[j] = q[m + j - 1]
  <2>1. IsPart(Intervals, q, m, Len(q), r)
    BY <1>1, <1>2, Part, Zenon
  <2>2. QED
    BY <2>1 DEF IsPart
<1>4. \A j \in 1 .. Len(r) : m + j - 1 \in m .. Len(q) /\ m + j - 1 \in 1 .. Len(q) /\ r[j] = q[m + j - 1]
  <2> SUFFICES ASSUME NEW j \in 1 .. Len(r)
               PROVE  m + j - 1 \in m .. Len(q) /\ m + j - 1 \in 1 .. Len(q) /\ r[j] = q[m + j - 1]
    OBVIOUS
  <2>1. j \in 1 .. Len(q) - m + 1 /\ m + j - 1 \in m .. Len(q) /\ m + j - 1 \in 1 .. Len(q)
    BY <1>1, <1>2, <1>3
  <2>2. QED
    BY <1>3, <2>1
<1>5. ASSUME NEW j \in 1 .. Len(r) PROVE r[j].min < r[j].max
  BY <1>1, <1>4
<1>6. ASSUME NEW j \in 1 .. Len(r) - 1 PROVE r[j].max < r[j+1].min
  <2>1. j \in 1 .. Len(r) /\ j + 1 \in 1 .. Len(r) /\ m + j - 1 \in 1 .. Len(q) - 1
        /\ m + (j + 1) - 1 = (m + j - 1) + 1
    BY <1>1, <1>2, <1>3
  <2>2. r[j] = q[m + j - 1] /\ r[j+1] = q[(m + j - 1) + 1]
    BY <1>4, <2>1
  <2>3. QED
    BY <1>1, <2>1, <2>2
<1>7. IsQueue(r)
  <2>1. DOMAIN r = 1 .. Len(r)
    BY <1>3
  <2>2. QED
    BY <1>3, <1>5, <1>6, <2>1 DEF IsQueue, Canonical
<1>8. ASSUME NEW x
      PROVE  x \in Numbers(r) <=>
               x \in Int /\ \E j \in m .. Len(q) : q[j].min <= x /\ x < q[j].max
  <2>1. x \in Numbers(r) <=> x \in Int /\ \E j \in 1 .. Len(r) : r[j].min <= x /\ x < r[j].max
    BY <1>7, InNumbers
  <2>2. ASSUME NEW j \in m .. Len(q), q[j].min <= x /\ x < q[j].max
        PROVE  \E k \in 1 .. Len(r) : r[k].min <= x /\ x < r[k].max
    <3> DEFINE k == j - m + 1
    <3>1. k \in 1 .. Len(r) /\ m + k - 1 = j
      BY <1>1, <1>2, <1>3
    <3> HIDE DEF k
    <3>2. r[k] = q[j]
      BY <1>4, <3>1
    <3>3. QED
      BY <2>2, <3>1, <3>2
  <2>3. QED
    BY <1>4, <2>1, <2>2
<1>9. QED
  BY <1>7, <1>8

(***************************************************************************)
(* The numbers that are not below one come from the intervals that end     *)
(* above it.                                                               *)
(***************************************************************************)
LEMMA NumbersFrom ==
  ASSUME NEW q, IsQueue(q), NEW h \in Int, NEW i \in 1 .. Len(q) + 1,
         \A j \in 1 .. i - 1 : q[j].max <= h
  PROVE  \A x : x \in {p \in Numbers(q) : p >= h} <=>
           x \in Int /\ x >= h /\ \E j \in i .. Len(q) : q[j].min <= x /\ x < q[j].max
<1>1. /\ Len(q) \in Nat
      /\ \A j \in 1 .. Len(q) : q[j].min \in Int /\ q[j].max \in Int
  BY QueueTypes
<1>2. ASSUME NEW x \in Int, x >= h, NEW j \in 1 .. Len(q), q[j].min <= x, x < q[j].max
      PROVE  j \in i .. Len(q)
  <2>1. CASE j \in 1 .. i - 1
    <3>1. q[j].max <= h /\ q[j].max \in Int
      BY <1>1, <2>1
    <3>2. QED
      BY <1>2, <3>1
  <2>2. QED
    BY <1>1, <2>1
<1>3. i .. Len(q) \subseteq 1 .. Len(q)
  BY <1>1
<1>4. QED
  BY <1>2, <1>3, InNumbers

(***************************************************************************)
(* PacketNumberQueue::RemoveUpTo removes the numbers below the bound,      *)
(* those in the interval that the bound divides included, and no other.    *)
(***************************************************************************)
LEMMA RemoveUpToKeeps ==
  ASSUME NEW q, IsQueue(q), NEW higher \in Int, NEW r, r = RemoveUpTo(q, higher)
  PROVE  IsQueue(r) /\ Numbers(r) = {p \in Numbers(q) : p >= higher}
<1> DEFINE stays == {j \in DOMAIN q : q[j].max >= higher}
<1>1. /\ q \in Seq(Intervals) /\ Len(q) \in Nat /\ DOMAIN q = 1 .. Len(q)
      /\ \A j \in 1 .. Len(q) : /\ q[j] \in Intervals /\ q[j].min \in Int /\ q[j].max \in Int
                                /\ q[j].min < q[j].max
      /\ \A j \in 1 .. Len(q) - 1 : q[j].max < q[j+1].min
  BY QueueTypes
<1>2. PICK i : i = Min(stays)
  OBVIOUS
<1>3. r = IF stays = {} THEN <<>>
          ELSE IF q[i].min >= higher THEN SubSeq(q, i, Len(q))
          ELSE IF q[i].max = higher THEN SubSeq(q, i + 1, Len(q))
          ELSE SubSeq([q EXCEPT ![i].min = higher], i, Len(q))
  BY <1>2, Zenon DEF RemoveUpTo
<1>4. CASE stays = {}
  <2>1. r = <<>>
    BY <1>3, <1>4, Zenon
  <2>2. IsQueue(r) /\ Numbers(r) = {}
    <3>1. r \in Seq(Intervals) /\ Len(r) = 0 /\ DOMAIN r = {}
      BY <2>1
    <3>2. QED
      BY <3>1 DEF IsQueue, Canonical, Numbers
  <2>3. \A j \in 1 .. Len(q) : q[j].max <= higher
    BY <1>1, <1>4
  <2>4. ASSUME NEW p \in Numbers(q) PROVE ~(p >= higher)
    <3>1. p \in Int
      BY InNumbers
    <3>2. PICK j \in 1 .. Len(q) : q[j].min <= p /\ p < q[j].max
      BY InNumbers
    <3>3. QED
      BY <1>1, <2>3, <3>1, <3>2
  <2>5. QED
    BY <2>2, <2>4
<1>5. CASE stays # {}
  <2>1. stays \in SUBSET Nat
    BY <1>1
  <2>2. i \in stays /\ \A j \in stays : i <= j
    BY <1>2, <1>5, <2>1, MinOfNat
  <2>3. i \in 1 .. Len(q) /\ i \in 1 .. Len(q) + 1 /\ i + 1 \in 1 .. Len(q) + 1
        /\ q[i].max >= higher
    BY <1>1, <2>2
  <2>4. \A j \in 1 .. i - 1 : q[j].max < higher
    <3> SUFFICES ASSUME NEW j \in 1 .. i - 1 PROVE q[j].max < higher
      OBVIOUS
    <3>1. j \in 1 .. Len(q) /\ j \notin stays
      BY <1>1, <2>2, <2>3
    <3>2. QED
      BY <1>1, <3>1
  <2>5. q[i].min \in Int /\ q[i].max \in Int /\ q[i] \in Intervals
    BY <1>1, <2>3
  <2>6. \A j \in i + 1 .. Len(q) : j \in 1 .. Len(q) /\ q[j].min > higher
    <3> SUFFICES ASSUME NEW j \in i + 1 .. Len(q) PROVE j \in 1 .. Len(q) /\ q[j].min > higher
      OBVIOUS
    <3>1. j \in 1 .. Len(q) /\ i < j
      BY <1>1, <2>3
    <3>2. q[i].max < q[j].min /\ q[j].min \in Int
      BY <1>1, <2>3, <3>1, QueueAscends
    <3>3. QED
      BY <2>3, <2>5, <3>1, <3>2
  <2>7. \A x : x \in {p \in Numbers(q) : p >= higher} <=>
          x \in Int /\ x >= higher /\ \E j \in i .. Len(q) : q[j].min <= x /\ x < q[j].max
    <3>1. \A j \in 1 .. i - 1 : j \in 1 .. Len(q)
      BY <1>1, <2>3
    <3>2. \A j \in 1 .. i - 1 : q[j].max <= higher
      BY <1>1, <2>4, <3>1
    <3>3. QED
      BY <2>3, <3>2, NumbersFrom
  <2> HIDE DEF stays
  <2>8. CASE q[i].min >= higher
    <3>1. r = SubSeq(q, i, Len(q))
      BY <1>3, <1>5, <2>8, Zenon
    <3>2. /\ IsQueue(r)
          /\ \A x : x \in Numbers(r) <=>
               x \in Int /\ \E j \in i .. Len(q) : q[j].min <= x /\ x < q[j].max
      BY <2>3, <3>1, TailKeeps
    <3>3. ASSUME NEW x \in Int, NEW j \in i .. Len(q), q[j].min <= x PROVE x >= higher
      <4>1. j = i \/ j \in i + 1 .. Len(q)
        BY <1>1, <2>3
      <4>2. QED
        BY <1>1, <2>3, <2>6, <2>8, <3>3, <4>1
    <3>4. QED
      BY <2>7, <3>2, <3>3
  <2>9. CASE ~(q[i].min >= higher) /\ q[i].max = higher
    <3>1. r = SubSeq(q, i + 1, Len(q))
      BY <1>3, <1>5, <2>9, Zenon
    <3>2. /\ IsQueue(r)
          /\ \A x : x \in Numbers(r) <=>
               x \in Int /\ \E j \in i + 1 .. Len(q) : q[j].min <= x /\ x < q[j].max
      BY <2>3, <3>1, TailKeeps
    <3>3. ASSUME NEW x \in Int, NEW j \in i + 1 .. Len(q), q[j].min <= x
          PROVE  x >= higher /\ j \in i .. Len(q)
      BY <1>1, <2>3, <2>6, <3>3
    <3>4. ASSUME NEW x \in Int, x >= higher, NEW j \in i .. Len(q), x < q[j].max
          PROVE  j \in i + 1 .. Len(q)
      BY <1>1, <2>3, <2>9, <3>4
    <3>5. QED
      BY <2>7, <3>2, <3>3, <3>4
  <2>10. CASE ~(q[i].min >= higher) /\ q[i].max # higher
    <3> DEFINE e == [q[i] EXCEPT !.min = higher]
               w == [q EXCEPT ![i] = e]
    <3>1. r = SubSeq(w, i, Len(q))
      BY <1>3, <1>5, <2>10, Zenon
    <3>2. e \in Intervals /\ e.min = higher /\ e.max = q[i].max
      BY <2>5, Bounds, Zenon
    <3> HIDE DEF e
    <3>3. w = [q EXCEPT ![i] = e]
      OBVIOUS
    <3> HIDE DEF w
    <3>4. IsChange(Intervals, q, i, e, w)
      BY <1>1, <2>3, <3>2, <3>3, Changed, Zenon
    <3>5. e.min < e.max
      BY <2>3, <2>5, <2>10, <3>2
    <3>6. i > 1 => q[i-1].max < e.min
      <4> SUFFICES ASSUME i > 1 PROVE q[i-1].max < e.min
        OBVIOUS
      <4>1. i - 1 \in 1 .. i - 1
        BY <2>3
      <4>2. QED
        BY <2>4, <3>2, <4>1
    <3>7. i < Len(q) => e.max < q[i+1].min
      BY <1>1, <2>3, <3>2
    <3>8. IsQueue(w) /\ InChanged(q, i, e, w)
      BY <2>3, <3>2, <3>4, <3>5, <3>6, <3>7, ChangeKeeps
    <3>9. /\ Len(w) = Len(q) /\ w[i] = e
          /\ \A j \in 1 .. Len(q) : j # i => w[j] = q[j]
      BY <3>4 DEF IsChange
    <3>10. r = SubSeq(w, i, Len(w)) /\ i \in 1 .. Len(w) + 1
      BY <2>3, <3>1, <3>9
    <3>11. /\ IsQueue(r)
           /\ \A x : x \in Numbers(r) <=>
                x \in Int /\ \E j \in i .. Len(w) : w[j].min <= x /\ x < w[j].max
      BY <3>8, <3>10, TailKeeps
    <3>12. ASSUME NEW x \in Int
           PROVE  (\E j \in i .. Len(w) : w[j].min <= x /\ x < w[j].max) <=>
                  x >= higher /\ \E j \in i .. Len(q) : q[j].min <= x /\ x < q[j].max
      <4>1. i .. Len(w) = {i} \cup (i + 1 .. Len(q)) /\ i .. Len(q) = {i} \cup (i + 1 .. Len(q))
        BY <1>1, <2>3, <3>9
      <4>2. \A j \in i + 1 .. Len(q) : w[j] = q[j] /\ (q[j].min <= x => x >= higher)
        <5> SUFFICES ASSUME NEW j \in i + 1 .. Len(q)
                     PROVE  w[j] = q[j] /\ (q[j].min <= x => x >= higher)
          OBVIOUS
        <5>1. j # i /\ j \in 1 .. Len(q) /\ q[j].min > higher
          BY <1>1, <2>3, <2>6
        <5>2. QED
          BY <1>1, <3>9, <5>1
      <4>3. e.min <= x /\ x < e.max <=> x >= higher /\ q[i].min <= x /\ x < q[i].max
        BY <2>5, <2>10, <3>2
      <4>4. QED
        BY <3>9, <4>1, <4>2, <4>3
    <3>13. QED
      BY <2>7, <3>11, <3>12
  <2>11. QED
    BY <2>8, <2>9, <2>10
<1>6. QED
  BY <1>4, <1>5

-----------------------------------------------------------------------------
(***************************************************************************)
(* What holds before a loop and after each pass that it held before, holds *)
(* after every pass.                                                       *)
(***************************************************************************)
LEMMA Upwards ==
  ASSUME NEW N \in Nat, NEW G, 0 \in G, \A n \in 1..N : n - 1 \in G => n \in G
  PROVE  \A n \in 0..N : n \in G
<1> DEFINE Bad == {n \in 0..N : n \notin G}
<1> SUFFICES ASSUME Bad # {} PROVE FALSE
  OBVIOUS
<1>1. Bad \in SUBSET Nat
  OBVIOUS
<1>2. PICK n \in Bad : \A k \in Bad : n <= k
  BY <1>1, MinOfNat
<1>3. n \in 0..N /\ n \notin G
  OBVIOUS
<1>4. n # 0
  BY <1>3
<1>5. n \in 1..N /\ n - 1 \in 0..N /\ ~(n <= n - 1)
  BY <1>3, <1>4
<1>6. n - 1 \notin Bad
  BY <1>2, <1>5
<1>7. n - 1 \in G
  BY <1>5, <1>6
<1>8. QED
  BY <1>3, <1>5, <1>7

\* g has the states of a loop that starts in a and whose pass n is F[<<n, s>>].
Runs(m, a, F, g) == g[0] = a /\ \A n \in 1..m : g[n] = F[<<n, g[n-1]>>]

\* F leads from a state of S to one.
Steps(m, S, F) == \A n \in 1..m, s \in S : F[<<n, s>>] \in S

(***************************************************************************)
(* A loop whose passes lead from states to states has a state after every  *)
(* pass.                                                                   *)
(***************************************************************************)
LEMMA Loop ==
  ASSUME NEW N \in Nat, NEW S, NEW a \in S, NEW F, Steps(N, S, F)
  PROVE  \E g \in [0..N -> S] : Runs(N, a, F, g)
<1> DEFINE G == {m \in 0..N : \E g \in [0..m -> S] : Runs(m, a, F, g)}
<1>1. 0 \in G
  <2> DEFINE g == [n \in 0..0 |-> a]
  <2>1. g \in [0..0 -> S] /\ Runs(0, a, F, g)
    BY DEF Runs
  <2> HIDE DEF g
  <2>2. QED
    BY <2>1
<1>2. ASSUME NEW m \in 1..N, m - 1 \in G PROVE m \in G
  <2>1. PICK g \in [0..m-1 -> S] : Runs(m - 1, a, F, g)
    BY <1>2
  <2> DEFINE h == [n \in 0..m |-> IF n = m THEN F[<<m, g[m-1]>>] ELSE g[n]]
  <2>2. g[m-1] \in S
    OBVIOUS
  <2>3. F[<<m, g[m-1]>>] \in S
    BY <2>2 DEF Steps
  <2>4. h \in [0..m -> S]
    <3> SUFFICES ASSUME NEW n \in 0..m PROVE (IF n = m THEN F[<<m, g[m-1]>>] ELSE g[n]) \in S
      OBVIOUS
    <3>1. n # m => n \in 0..m-1
      OBVIOUS
    <3>2. QED
      BY <2>3, <3>1
  <2>5. \A n \in 0..m-1 : h[n] = g[n]
    OBVIOUS
  <2>6. h[m] = F[<<m, g[m-1]>>]
    OBVIOUS
  <2> HIDE DEF h
  <2>7. h[0] = a
    BY <2>1, <2>5 DEF Runs
  <2>8. ASSUME NEW n \in 1..m PROVE h[n] = F[<<n, h[n-1]>>]
    <3>1. n - 1 \in 0..m-1 /\ h[n-1] = g[n-1]
      BY <2>5
    <3>2. CASE n = m
      BY <2>6, <3>1, <3>2
    <3>3. CASE n # m
      <4>1. n \in 1..m-1 /\ n \in 0..m-1
        BY <3>3
      <4>2. QED
        BY <2>1, <2>5, <3>1, <4>1 DEF Runs
    <3>4. QED
      BY <3>2, <3>3
  <2>9. m \in 0..N /\ Runs(m, a, F, h)
    BY <2>7, <2>8 DEF Runs
  <2>10. QED
    BY <2>4, <2>9
<1> HIDE DEF G
<1>3. N \in G
  BY <1>1, <1>2, Upwards
<1>4. QED
  BY <1>3 DEF G

Queues == {q \in Seq(Intervals) : IsQueue(q)}

(***************************************************************************)
(* OnAckFrameEnd adds all packets to last_ack_frame_.packets.              *)
(***************************************************************************)
LEMMA AddAllKeeps ==
  ASSUME NEW q, IsQueue(q), NEW packets, NEW r, r = AddAll(q, packets)
  PROVE  IsQueue(r) /\ Numbers(r) = Numbers(q) \cup (packets \cap 1..MaxSeq)
<1> DEFINE F(f) == [n \in 0..MaxSeq |->
                      IF n = 0 THEN q ELSE IF n \in packets THEN Add(f[n-1], n) ELSE f[n-1]]
           added == CHOOSE f : f = F(f)
           Step == [x \in (1..MaxSeq) \X Queues |-> IF x[1] \in packets THEN Add(x[2], x[1]) ELSE x[2]]
<1>1. MaxSeq \in Nat
  BY AckFrameAssumption
<1>2. r = added[MaxSeq]
  BY DEF AddAll
<1>3. ASSUME NEW n \in 1..MaxSeq, NEW s \in Queues
      PROVE  /\ Step[<<n, s>>] = IF n \in packets THEN Add(s, n) ELSE s
             /\ Step[<<n, s>>] \in Queues
  <2>1. Step[<<n, s>>] = IF n \in packets THEN Add(s, n) ELSE s
    OBVIOUS
  <2>2. IsQueue(Add(s, n))
    <3>1. IsQueue(s) /\ n \in Int
      BY DEF Queues
    <3>2. QED
      BY <3>1, AddKeeps
  <2>3. Add(s, n) \in Queues
    BY <2>2 DEF Queues, IsQueue
  <2>4. QED
    BY <2>1, <2>3
<1> HIDE DEF Step
<1>4. q \in Queues
  BY DEF Queues, IsQueue
<1>5. PICK g \in [0..MaxSeq -> Queues] : Runs(MaxSeq, q, Step, g)
  <2>1. Steps(MaxSeq, Queues, Step)
    BY <1>3 DEF Steps
  <2>2. QED
    BY <1>1, <1>4, <2>1, Loop, Zenon
<1>6. g = F(g)
  <2>1. ASSUME NEW n \in 0..MaxSeq
        PROVE  g[n] = IF n = 0 THEN q ELSE IF n \in packets THEN Add(g[n-1], n) ELSE g[n-1]
    <3>1. CASE n = 0
      BY <1>5, <3>1 DEF Runs
    <3>2. CASE n # 0
      <4>1. n \in 1..MaxSeq /\ n - 1 \in 0..MaxSeq
        BY <1>1, <3>2
      <4>2. g[n-1] \in Queues
        BY <4>1
      <4>3. g[n] = IF n \in packets THEN Add(g[n-1], n) ELSE g[n-1]
        BY <1>3, <1>5, <4>1, <4>2 DEF Runs
      <4>4. QED
        BY <3>2, <4>3
    <3>3. QED
      BY <3>1, <3>2
  <2>2. g = [n \in 0..MaxSeq |-> g[n]]
    OBVIOUS
  <2>3. QED
    BY <2>1, <2>2
<1>7. added = F(added)
  BY <1>6, Zenon
<1> HIDE DEF added
<1>8. ASSUME NEW n \in 0..MaxSeq
      PROVE  added[n] = IF n = 0 THEN q ELSE IF n \in packets THEN Add(added[n-1], n) ELSE added[n-1]
  BY <1>7
<1> DEFINE G == {n \in 0..MaxSeq : /\ IsQueue(added[n])
                                   /\ Numbers(added[n]) = Numbers(q) \cup (packets \cap 1..n)}
<1>9. 0 \in G
  <2>1. 0 \in 0..MaxSeq /\ added[0] = q
    BY <1>1, <1>8
  <2>2. QED
    BY <2>1
<1>10. ASSUME NEW n \in 1..MaxSeq, n - 1 \in G PROVE n \in G
  <2>1. n \in 0..MaxSeq /\ n # 0 /\ n \in Int
    BY <1>1
  <2>2. IsQueue(added[n-1]) /\ Numbers(added[n-1]) = Numbers(q) \cup (packets \cap 1..(n-1))
    BY <1>10
  <2>3. 1..n = (1..(n-1)) \cup {n}
    OBVIOUS
  <2>4. CASE n \in packets
    <3>1. added[n] = Add(added[n-1], n)
      BY <1>8, <2>1, <2>4
    <3>2. IsQueue(added[n]) /\ Numbers(added[n]) = Numbers(added[n-1]) \cup {n}
      BY <2>1, <2>2, <3>1, AddKeeps
    <3>3. QED
      BY <2>1, <2>2, <2>3, <2>4, <3>2
  <2>5. CASE n \notin packets
    <3>1. added[n] = added[n-1]
      BY <1>8, <2>1, <2>5
    <3>2. packets \cap 1..n = packets \cap 1..(n-1)
      BY <2>3, <2>5
    <3>3. QED
      BY <2>1, <2>2, <3>1, <3>2
  <2>6. QED
    BY <2>4, <2>5
<1> HIDE DEF G
<1>11. MaxSeq \in G
  BY <1>1, <1>9, <1>10, Upwards
<1>12. QED
  BY <1>2, <1>11 DEF G

-----------------------------------------------------------------------------
\* The bounds that Add and RemoveUpTo are given are numbers, and what was read
\* from old frames leaves the queues as they have to be.
QueueInv ==
  /\ IsQueue(queue) /\ IsQueue(prior) /\ Numbers(queue) = received
  /\ least \in Int

(***************************************************************************)
(* RecordPacketReceived.                                                   *)
(***************************************************************************)
LEMMA ReceiveQueue ==
  ASSUME QueueInv, NEW p \in 1..MaxSeq, Receive(p)
  PROVE  QueueInv'
<1>1. queue' = Add(queue, p) /\ received' = received \cup {p} /\ prior' = prior /\ least' = least
  BY DEF Receive, sender
<1>2. IsQueue(queue) /\ p \in Int
  BY DEF QueueInv
<1>3. IsQueue(queue') /\ Numbers(queue') = Numbers(queue) \cup {p}
  BY <1>1, <1>2, AddKeeps
<1>4. QED
  BY <1>1, <1>3 DEF QueueInv

(***************************************************************************)
(* DontWaitForPacketsBefore.                                               *)
(***************************************************************************)
LEMMA StopWaitingQueue ==
  ASSUME QueueInv, NEW n \in Int, StopWaiting(n)
  PROVE  QueueInv'
<1>1. /\ queue' = RemoveUpTo(queue, n) /\ received' = {p \in received : p >= n}
      /\ prior' = prior /\ least' = least
  BY DEF StopWaiting, sender
<1>2. IsQueue(queue') /\ Numbers(queue') = {p \in Numbers(queue) : p >= n}
  BY <1>1, RemoveUpToKeeps DEF QueueInv
<1>3. QED
  BY <1>1, <1>2 DEF QueueInv

(***************************************************************************)
(* A frame is read, with or without its last range.                        *)
(***************************************************************************)
LEMMA ReadFrameQueue ==
  ASSUME QueueInv, NEW f, NEW n \in Int, ReadFrame(f, n)
  PROVE  QueueInv'
<1> DEFINE packets == pending \cup Range(NewlyAcked(prior, least, f))
<1>1. queue' = queue /\ received' = received
  BY DEF ReadFrame, receiver
<1>2. CASE LastRangeSeen(f)
  <2>1. least' = n /\ prior' = RemoveUpTo(AddAll(prior, packets), n)
    BY <1>2 DEF ReadFrame
  <2> HIDE DEF packets
  <2>2. IsQueue(AddAll(prior, packets))
    BY AddAllKeeps DEF QueueInv
  <2>3. IsQueue(prior')
    BY <2>1, <2>2, RemoveUpToKeeps
  <2>4. QED
    BY <1>1, <2>1, <2>3 DEF QueueInv
<1>3. CASE ~LastRangeSeen(f)
  <2>1. least' = least /\ prior' = prior
    BY <1>3 DEF ReadFrame
  <2>2. QED
    BY <1>1, <2>1 DEF QueueInv
<1>4. QED
  BY <1>2, <1>3

(***************************************************************************)
(* The queues are empty at first.                                          *)
(***************************************************************************)
LEMMA QueueInit ==
  ASSUME Init
  PROVE  QueueInv
<1>1. <<>> \in Seq(Intervals) /\ Len(<<>>) = 0 /\ DOMAIN <<>> = {}
  OBVIOUS
<1>2. IsQueue(<<>>) /\ Numbers(<<>>) = {}
  BY <1>1 DEF IsQueue, Canonical, Numbers
<1>3. QED
  BY <1>2 DEF Init, QueueInv

(***************************************************************************)
(* No step of the receiver or the sender breaks the queues.                *)
(***************************************************************************)
LEMMA QueueStep ==
  ASSUME QueueInv, [Next]_vars
  PROVE  QueueInv'
<1>1. least \in Int /\ MaxSeq \in Nat
  BY AckFrameAssumption DEF QueueInv
<1>2. ASSUME NEW p \in 1..MaxSeq, Receive(p) PROVE QueueInv'
  BY <1>2, ReceiveQueue
<1>3. ASSUME NEW n \in 1..least, StopWaiting(n) PROVE QueueInv'
  BY <1>1, <1>3, StopWaitingQueue
<1>4. ASSUME SendAck PROVE QueueInv'
  BY <1>4 DEF SendAck, receiver, sender, QueueInv
<1>5. ASSUME NEW f \in frames, NEW n \in least .. MaxSeq+1, ReadFrame(f, n) PROVE QueueInv'
  BY <1>1, <1>5, ReadFrameQueue
<1>6. ASSUME NEW n \in least .. MaxSeq+1, Retransmit(n) PROVE QueueInv'
  BY <1>1, <1>6 DEF Retransmit, receiver, QueueInv
<1>7. ASSUME UNCHANGED vars PROVE QueueInv'
  BY <1>7 DEF vars, receiver, sender, QueueInv
<1>8. QED
  BY <1>2, <1>3, <1>4, <1>5, <1>6, <1>7 DEF Next

(***************************************************************************)
(* The receiver's and the sender's queue of packet numbers stay ascending  *)
(* with a gap between any two intervals, and the receiver's holds exactly  *)
(* the numbers added to it and not removed, in whatever order packets,     *)
(* STOP_WAITING frames and ack frames come.                                *)
(***************************************************************************)
THEOREM QueuesCorrect == Spec => []QueueExact
<1>1. Init => QueueInv
  BY QueueInit
<1>2. QueueInv /\ [Next]_vars => QueueInv'
  BY QueueStep
<1>3. QueueInv => QueueExact
  BY DEF QueueInv, QueueExact, IsQueue
<1>4. QED
  BY <1>1, <1>2, <1>3, PTL DEF Spec

-----------------------------------------------------------------------------
Descends(a) == \A i, j \in DOMAIN a : i < j => a[i] > a[j]

Above(a, e) == \A i \in DOMAIN a : a[i] >= e

\* The intervals the iterator has passed do not begin below e.
Beyond(q, iter, e) == \A i \in 1 .. Len(q) : i > iter => q[i].min >= e

\* d lists the numbers from end - 1 down to from.
IsDescending(from, end, d) ==
  /\ d \in Seq(Int) /\ \A i \in 1 .. Len(d) : d[i] = end - i
  /\ Len(d) = IF end > from THEN end - from ELSE 0

(***************************************************************************)
(* The numbers one call of the inner loop appends.                         *)
(***************************************************************************)
LEMMA DescendingExact ==
  ASSUME NEW from \in Int, NEW end \in Int, NEW d, d = Descending(from, end)
  PROVE  IsDescending(from, end, d)
<1> DEFINE n == Max({0, end - from})
<1>1. n = IF end > from THEN end - from ELSE 0
  <2>1. end - from \in Int
    OBVIOUS
  <2>2. n = IF 0 >= end - from THEN 0 ELSE end - from
    BY <2>1, OfTwo
  <2>3. QED
    BY <2>2
<1>2. d = [i \in 1 .. n |-> end - i]
  BY DEF Descending
<1> HIDE DEF n
<1>3. n \in Nat
  BY <1>1
<1>4. d \in Seq(Int) /\ Len(d) = n
  BY <1>2, <1>3
<1>5. QED
  BY <1>1, <1>2, <1>3, <1>4 DEF IsDescending

\* r is a and then the numbers from e - 1 down to from.
ContinuesDown(a, from, e, r) ==
  /\ r \in Seq(Int) /\ Descends(r)
  /\ Range(r) = Range(a) \cup (from .. e - 1)
  /\ \A b \in Int : b <= e /\ b <= from => Above(r, b)

(***************************************************************************)
(* Numbers appended below the ones that are there keep packets_acked_      *)
(* descending.                                                             *)
(***************************************************************************)
LEMMA AppendDown ==
  ASSUME NEW a \in Seq(Int), NEW from \in Int, NEW e \in Int, Descends(a), Above(a, e),
         NEW r, r = a \o Descending(from, e)
  PROVE  ContinuesDown(a, from, e, r)
<1>1. PICK d : d = Descending(from, e)
  OBVIOUS
<1>2. /\ d \in Seq(Int) /\ \A i \in 1 .. Len(d) : d[i] = e - i
      /\ Len(d) = IF e > from THEN e - from ELSE 0
  <2>1. IsDescending(from, e, d)
    BY <1>1, DescendingExact, Zenon
  <2>2. QED
    BY <2>1 DEF IsDescending
<1>3. r = a \o d
  BY <1>1
<1>4. a \in Seq(Int) /\ d \in Seq(Int)
  BY <1>2
<1>5. /\ r \in Seq(Int) /\ Len(r) = Len(a) + Len(d)
      /\ \A j \in 1 .. Len(a) : r[j] = a[j]
      /\ \A j \in 1 .. Len(d) : r[Len(a) + j] = d[j]
  BY ONLY <1>3, <1>4, Joined
<1>6. /\ Len(a) \in Nat /\ Len(d) \in Nat
      /\ DOMAIN a = 1 .. Len(a) /\ DOMAIN r = 1 .. Len(r)
      /\ \A j \in 1 .. Len(a) : a[j] \in Int
  BY <1>2, <1>5, LenProperties
<1>7. \A j \in 1 .. Len(r) : j > Len(a) => j - Len(a) \in 1 .. Len(d) /\ r[j] = e - (j - Len(a))
  <2> SUFFICES ASSUME NEW j \in 1 .. Len(r), j > Len(a)
               PROVE  j - Len(a) \in 1 .. Len(d) /\ r[j] = e - (j - Len(a))
    OBVIOUS
  <2> DEFINE k == j - Len(a)
  <2>1. k \in 1 .. Len(d) /\ Len(a) + k = j
    BY <1>5, <1>6
  <2> HIDE DEF k
  <2>2. r[Len(a) + k] = d[k] /\ d[k] = e - k
    BY <1>2, <1>5, <2>1
  <2>3. r[j] = e - k /\ k \in 1 .. Len(d)
    BY <2>1, <2>2
  <2>4. QED
    BY <2>3 DEF k
<1>8. \A j \in 1 .. Len(r) : j <= Len(a) => j \in 1 .. Len(a) /\ r[j] = a[j] /\ a[j] >= e
  <2>1. \A j \in 1 .. Len(r) : j <= Len(a) => j \in 1 .. Len(a)
    BY <1>5, <1>6
  <2>2. \A j \in 1 .. Len(a) : a[j] >= e
    BY <1>6 DEF Above
  <2>3. QED
    BY <1>5, <2>1, <2>2
<1>9. Descends(r)
  <2> SUFFICES ASSUME NEW i \in 1 .. Len(r), NEW j \in 1 .. Len(r), i < j PROVE r[i] > r[j]
    BY <1>6 DEF Descends
  <2>1. CASE j <= Len(a)
    <3>1. i <= Len(a)
      BY <1>5, <1>6, <2>1
    <3>2. i \in 1 .. Len(a) /\ j \in 1 .. Len(a) /\ r[i] = a[i] /\ r[j] = a[j]
      BY <1>8, <2>1, <3>1
    <3>3. a[i] > a[j]
      BY <1>6, <3>2 DEF Descends
    <3>4. QED
      BY <3>2, <3>3
  <2>2. CASE i <= Len(a) /\ j > Len(a)
    <3>1. i \in 1 .. Len(a) /\ r[i] = a[i] /\ a[i] >= e /\ a[i] \in Int
      BY <1>6, <1>8, <2>2
    <3>2. r[j] = e - (j - Len(a)) /\ j - Len(a) \in 1 .. Len(d)
      BY <1>7, <2>2
    <3>3. QED
      BY <1>6, <3>1, <3>2
  <2>3. CASE i > Len(a)
    <3>1. r[i] = e - (i - Len(a)) /\ j > Len(a)
      BY <1>5, <1>6, <1>7, <2>3
    <3>2. r[j] = e - (j - Len(a))
      BY <1>7, <3>1
    <3>3. QED
      BY <1>5, <1>6, <3>1, <3>2
  <2>4. i <= Len(a) \/ i > Len(a)
    BY <1>5, <1>6
  <2>5. j <= Len(a) \/ j > Len(a)
    BY <1>5, <1>6
  <2>6. QED
    BY <2>1, <2>2, <2>3, <2>4, <2>5, Zenon
<1>10. ASSUME NEW b \in Int, b <= e /\ b <= from PROVE Above(r, b)
  <2> SUFFICES ASSUME NEW j \in 1 .. Len(r) PROVE r[j] >= b
    BY <1>6 DEF Above
  <2>1. CASE j <= Len(a)
    BY <1>6, <1>8, <1>10, <2>1
  <2>2. CASE j > Len(a)
    <3>1. j - Len(a) \in 1 .. Len(d) /\ r[j] = e - (j - Len(a))
      BY <1>7, <2>2
    <3>2. j - Len(a) <= e - from
      BY <1>2, <1>6, <3>1
    <3>3. QED
      BY <1>6, <1>10, <3>1, <3>2
  <2>3. QED
    BY <1>5, <1>6, <2>1, <2>2
<1>11. ASSUME NEW x PROVE x \in Range(r) <=> x \in Range(a) \/ x \in from .. e - 1
  <2>1. /\ x \in Range(r) <=> \E j \in 1 .. Len(r) : x = r[j]
        /\ x \in Range(a) <=> \E j \in 1 .. Len(a) : x = a[j]
    BY <1>6 DEF Range
  <2>2. ASSUME x \in Range(r) PROVE x \in Range(a) \/ x \in from .. e - 1
    <3>1. PICK j \in 1 .. Len(r) : x = r[j]
      BY <2>1, <2>2
    <3>2. CASE j <= Len(a)
      BY <1>8, <2>1, <3>1, <3>2
    <3>3. CASE j > Len(a)
      BY <1>2, <1>6, <1>7, <3>1, <3>3
    <3>4. QED
      BY <1>5, <1>6, <3>2, <3>3
  <2>3. ASSUME x \in Range(a) PROVE x \in Range(r)
    <3>1. PICK j \in 1 .. Len(a) : x = a[j]
      BY <2>1, <2>3
    <3>2. j \in 1 .. Len(r) /\ r[j] = a[j]
      BY <1>5, <1>6
    <3>3. QED
      BY <2>1, <3>1, <3>2
  <2>4. ASSUME x \in from .. e - 1 PROVE x \in Range(r)
    <3> DEFINE k == e - x
    <3>1. k \in 1 .. Len(d) /\ Len(a) + k \in 1 .. Len(r) /\ e - k = x
      BY <1>2, <1>5, <1>6, <2>4
    <3> HIDE DEF k
    <3>2. r[Len(a) + k] = d[k] /\ d[k] = e - k
      BY <1>2, <1>5, <3>1
    <3>3. QED
      BY <2>1, <3>1, <3>2
  <2>5. QED
    BY <2>2, <2>3, <2>4
<1>12. QED
  BY <1>5, <1>9, <1>10, <1>11 DEF ContinuesDown

Passes(q) == [iter: 0 .. Len(q), end: Int, acked: Seq(Int), more: BOOLEAN]

\* The numbers from here up have been looked at.
Reached(start, s) == IF s.more THEN s.end ELSE start

\* The loop for a range that ends at e0, with A in packets_acked_ before it, has
\* found what is not in q from the number it has reached.
Walking(q, start, e0, A, s) ==
  LET lo == Reached(start, s)
  IN  /\ s \in Passes(q)
      /\ (s.more => start < s.end) /\ lo <= e0
      /\ Descends(s.acked) /\ Above(s.acked, lo) /\ Beyond(q, s.iter, lo)
      /\ Range(s.acked) = Range(A) \cup ((lo .. e0 - 1) \ Numbers(q))

(***************************************************************************)
(* Between the interval at the iterator and the ones it has passed no      *)
(* number is in the queue.                                                 *)
(***************************************************************************)
LEMMA Uncovered ==
  ASSUME NEW q, IsQueue(q), NEW iter \in 0 .. Len(q), NEW e \in Int, Beyond(q, iter, e),
         NEW x \in Int, x < e
  PROVE  /\ iter = 0 => x \notin Numbers(q)
         /\ iter # 0 /\ x >= q[iter].max => x \notin Numbers(q)
         /\ iter # 0 /\ x >= q[iter].min /\ x < q[iter].max => x \in Numbers(q)
<1>1. /\ Len(q) \in Nat
      /\ \A j \in 1 .. Len(q) : q[j].min \in Int /\ q[j].max \in Int /\ q[j].min < q[j].max
  BY QueueTypes
<1>2. ASSUME NEW j \in 1 .. Len(q), j > iter PROVE ~(q[j].min <= x)
  <2>1. q[j].min >= e /\ q[j].min \in Int
    BY <1>1, <1>2 DEF Beyond
  <2>2. QED
    BY <2>1
<1>3. ASSUME NEW j \in 1 .. Len(q), j <= iter, iter # 0, x >= q[iter].max PROVE ~(x < q[j].max)
  <2>1. iter \in 1 .. Len(q)
    BY <1>1, <1>3
  <2>2. q[j].max <= q[iter].max
    <3>1. CASE j = iter
      BY <1>1, <3>1
    <3>2. CASE j < iter
      <4>1. q[j].max < q[iter].min
        BY <2>1, <3>2, QueueAscends
      <4>2. QED
        BY <1>1, <2>1, <4>1
    <3>3. QED
      BY <1>1, <1>3, <2>1, <3>1, <3>2
  <2>3. QED
    BY <1>1, <1>3, <2>1, <2>2
<1>4. ASSUME iter = 0 PROVE x \notin Numbers(q)
  <2>1. \A j \in 1 .. Len(q) : j > iter
    BY <1>1, <1>4
  <2>2. QED
    BY <1>2, <2>1, InNumbers
<1>5. ASSUME iter # 0, x >= q[iter].max PROVE x \notin Numbers(q)
  <2>1. \A j \in 1 .. Len(q) : j > iter \/ j <= iter
    BY <1>1
  <2>2. QED
    BY <1>2, <1>3, <1>5, <2>1, InNumbers
<1>6. ASSUME iter # 0, x >= q[iter].min, x < q[iter].max PROVE x \in Numbers(q)
  <2>1. iter \in 1 .. Len(q) /\ q[iter].min <= x
    BY <1>1, <1>6
  <2>2. QED
    BY <1>6, <2>1, InNumbers
<1>7. QED
  BY <1>4, <1>5, <1>6

\* Of the numbers from lo to below e, those in N are the ones below from.
Separates(N, lo, e, from) == \A x \in Int : lo <= x /\ x < e => (x \notin N <=> x >= from)

\* D has, with what is in B, the numbers from lo to below e that are not in N.
HasFrom(D, B, N, lo, e) == D = B \cup ((lo .. e - 1) \ N)

(***************************************************************************)
(* What a pass appends completes what was found above it.                  *)
(***************************************************************************)
LEMMA Completes ==
  ASSUME NEW N, NEW B, NEW lo \in Int, NEW e \in Int, NEW e0 \in Int, NEW from \in Int,
         lo <= e, e <= e0, Separates(N, lo, e, from), lo <= from \/ e <= from,
         NEW C, HasFrom(C, B, N, e, e0), NEW D, D = C \cup (from .. e - 1)
  PROVE  HasFrom(D, B, N, lo, e0)
<1>1. ASSUME NEW x PROVE x \in D <=> x \in B \cup ((lo .. e0 - 1) \ N)
  <2>1. x \in D <=> x \in B \/ (x \in e .. e0 - 1 /\ x \notin N) \/ x \in from .. e - 1
    BY DEF HasFrom
  <2>2. x \in from .. e - 1 <=> x \in lo .. e - 1 /\ x \notin N
    <3>1. x \in from .. e - 1 <=> x \in Int /\ x < e /\ x >= from
      OBVIOUS
    <3>2. x \in lo .. e - 1 <=> x \in Int /\ x < e /\ x >= lo
      OBVIOUS
    <3>3. x \in Int /\ x < e /\ x >= from => x >= lo
      OBVIOUS
    <3>4. x \in Int /\ x < e /\ lo <= x => (x \notin N <=> x >= from)
      BY Zenon DEF Separates
    <3>5. x \in Int => (x >= lo <=> lo <= x)
      OBVIOUS
    <3>6. QED
      BY ONLY <3>1, <3>2, <3>3, <3>4, <3>5
  <2>3. x \in lo .. e0 - 1 <=> x \in lo .. e - 1 \/ x \in e .. e0 - 1
    OBVIOUS
  <2>4. QED
    BY <2>1, <2>2, <2>3
<1>2. QED
  BY <1>1 DEF HasFrom

\* r is what the pass leaves when the loop ends with it.
Stops(q, start, s, from, acked, r) ==
  /\ s.iter = 0 \/ start > q[s.iter].min
  /\ from \in Int /\ (s.iter = 0 => from = start)
  /\ s.iter # 0 => from = IF start >= q[s.iter].max THEN start ELSE q[s.iter].max
  /\ acked = s.acked \o Descending(from, s.end)
  /\ r = [s EXCEPT !.acked = acked, !.more = FALSE]

\* r is what the pass leaves when it moves the iterator.
Moves(q, start, s, from, acked, end, r) ==
  /\ s.iter # 0 /\ start <= q[s.iter].min
  /\ from = IF start >= q[s.iter].max THEN start ELSE q[s.iter].max
  /\ acked = s.acked \o Descending(from, s.end)
  /\ end = IF s.end <= q[s.iter].min THEN s.end ELSE q[s.iter].min
  /\ r = [iter |-> s.iter - 1, end |-> end, acked |-> acked, more |-> start < end]

(***************************************************************************)
(* The intervals passed begin above a smaller number too.                  *)
(***************************************************************************)
LEMMA BeyondLess ==
  ASSUME NEW q, IsQueue(q), NEW iter, NEW e \in Int, NEW d \in Int, d <= e, Beyond(q, iter, e)
  PROVE  Beyond(q, iter, d)
<1>1. \A i \in 1 .. Len(q) : q[i].min \in Int
  BY QueueTypes
<1>2. SUFFICES ASSUME NEW i \in 1 .. Len(q), i > iter PROVE q[i].min >= d
  BY DEF Beyond
<1>3. q[i].min >= e
  BY <1>2, Zenon DEF Beyond
<1>4. QED
  BY <1>1, <1>3

(***************************************************************************)
(* The loop ends at the interval that begins below the range, or at rend.  *)
(***************************************************************************)
LEMMA PassEnds ==
  ASSUME NEW q, IsQueue(q), NEW start \in Int, NEW e0 \in Int, NEW A,
         NEW s, Walking(q, start, e0, A, s), s.more,
         NEW from, NEW acked, NEW r, Stops(q, start, s, from, acked, r)
  PROVE  Walking(q, start, e0, A, r) /\ ~r.more
<1>1. /\ s.iter = 0 \/ start > q[s.iter].min
      /\ from \in Int /\ (s.iter = 0 => from = start)
      /\ s.iter # 0 => from = IF start >= q[s.iter].max THEN start ELSE q[s.iter].max
      /\ acked = s.acked \o Descending(from, s.end)
      /\ r = [s EXCEPT !.acked = acked, !.more = FALSE]
  BY DEF Stops
<1>2. /\ Len(q) \in Nat
      /\ \A j \in 1 .. Len(q) : q[j].min \in Int /\ q[j].max \in Int /\ q[j].min < q[j].max
  BY QueueTypes
<1>3. /\ s \in Passes(q) /\ start < s.end /\ s.end <= e0
      /\ Descends(s.acked) /\ Above(s.acked, s.end) /\ Beyond(q, s.iter, s.end)
      /\ Range(s.acked) = Range(A) \cup ((s.end .. e0 - 1) \ Numbers(q))
  BY DEF Walking, Reached
<1>4. s.iter \in 0 .. Len(q) /\ s.end \in Int /\ s.acked \in Seq(Int)
  BY <1>3 DEF Passes
<1>5. start <= from /\ (s.iter # 0 => s.iter \in 1 .. Len(q))
  BY <1>1, <1>2, <1>4
<1>6. /\ acked \in Seq(Int) /\ Descends(acked)
      /\ Range(acked) = Range(s.acked) \cup (from .. s.end - 1)
      /\ Above(acked, start)
  <2>1. /\ acked \in Seq(Int) /\ Descends(acked)
        /\ Range(acked) = Range(s.acked) \cup (from .. s.end - 1)
        /\ \A b \in Int : b <= s.end /\ b <= from => Above(acked, b)
    <3>1. ContinuesDown(s.acked, from, s.end, acked)
      BY <1>1, <1>3, <1>4, AppendDown, Zenon
    <3>2. QED
      BY <3>1 DEF ContinuesDown
  <2>2. start <= s.end
    BY <1>3, <1>4
  <2>3. QED
    BY <1>1, <1>5, <2>1, <2>2
<1>7. r \in Passes(q) /\ r.iter = s.iter /\ r.acked = acked /\ r.more = FALSE
  BY <1>1, <1>3, <1>6 DEF Passes
<1>8. Beyond(q, s.iter, start)
  <2>1. PICK end \in Int : end = s.end
    BY <1>4, Zenon
  <2>2. start < end
    BY <1>3, <2>1, Zenon
  <2>3. start <= end
    BY ONLY <2>1, <2>2, start \in Int
  <2>4. Beyond(q, s.iter, end)
    BY <1>3, <2>1, Zenon
  <2>5. QED
    BY <2>3, <2>4, BeyondLess, Zenon
<1>9. ASSUME NEW x \in Int, start <= x, x < s.end PROVE x \notin Numbers(q) <=> x >= from
  <2>1. /\ s.iter = 0 => x \notin Numbers(q)
        /\ s.iter # 0 /\ x >= q[s.iter].max => x \notin Numbers(q)
        /\ s.iter # 0 /\ x >= q[s.iter].min /\ x < q[s.iter].max => x \in Numbers(q)
    BY <1>3, <1>4, <1>9, Uncovered
  <2>2. CASE s.iter = 0
    BY <1>1, <1>9, <2>1, <2>2
  <2>3. CASE s.iter # 0
    <3>1. q[s.iter].min \in Int /\ q[s.iter].max \in Int /\ start > q[s.iter].min
      BY <1>1, <1>2, <1>5, <2>3
    <3>2. QED
      BY <1>1, <1>9, <2>1, <2>3, <3>1
  <2>4. QED
    BY <2>2, <2>3
<1>10. Range(acked) = Range(A) \cup ((start .. e0 - 1) \ Numbers(q))
  <2>1. start <= s.end /\ s.end <= e0 /\ (start <= from \/ s.end <= from)
    BY <1>3, <1>4, <1>5
  <2>2. Separates(Numbers(q), start, s.end, from)
    BY <1>9 DEF Separates
  <2>3. start \in Int /\ e0 \in Int /\ s.end \in Int /\ from \in Int
    BY <1>1, <1>4
  <2>4. /\ HasFrom(Range(s.acked), Range(A), Numbers(q), s.end, e0)
        /\ Range(acked) = Range(s.acked) \cup (from .. s.end - 1)
    BY <1>3, <1>6 DEF HasFrom
  <2>5. HasFrom(Range(acked), Range(A), Numbers(q), start, e0)
    BY ONLY <2>1, <2>2, <2>3, <2>4, Completes, Zenon
  <2>6. QED
    BY <2>5, Zenon DEF HasFrom
<1>11. start <= e0
  BY <1>3, <1>4
<1>12. Reached(start, r) = start
  BY <1>7 DEF Reached
<1>13. QED
  BY <1>6, <1>7, <1>8, <1>10, <1>11, <1>12 DEF Walking

(***************************************************************************)
(* Otherwise the iterator moves on to the interval below, and the end of   *)
(* the range to where the interval it was at begins.                       *)
(***************************************************************************)
LEMMA PassMoves ==
  ASSUME NEW q, IsQueue(q), NEW start \in Int, NEW e0 \in Int, NEW A,
         NEW s, Walking(q, start, e0, A, s), s.more,
         NEW from, NEW acked, NEW end, NEW r, Moves(q, start, s, from, acked, end, r)
  PROVE  Walking(q, start, e0, A, r)
<1>1. /\ s.iter # 0 /\ start <= q[s.iter].min
      /\ from = IF start >= q[s.iter].max THEN start ELSE q[s.iter].max
      /\ end = IF s.end <= q[s.iter].min THEN s.end ELSE q[s.iter].min
  BY DEF Moves
<1>2. /\ acked = s.acked \o Descending(from, s.end)
     /\ r = [iter |-> s.iter - 1, end |-> end, acked |-> acked, more |-> start < end]
  BY DEF Moves
<1>3. /\ Len(q) \in Nat
      /\ \A j \in 1 .. Len(q) : q[j].min \in Int /\ q[j].max \in Int /\ q[j].min < q[j].max
  BY QueueTypes
<1>4. /\ s \in Passes(q) /\ start < s.end /\ s.end <= e0
      /\ Descends(s.acked) /\ Above(s.acked, s.end) /\ Beyond(q, s.iter, s.end)
      /\ Range(s.acked) = Range(A) \cup ((s.end .. e0 - 1) \ Numbers(q))
  BY DEF Walking, Reached
<1>5. s.iter \in 1 .. Len(q) /\ s.iter \in 0 .. Len(q) /\ s.end \in Int /\ s.acked \in Seq(Int)
  <2>1. s \in Passes(q) /\ s.iter # 0 /\ Len(q) \in Nat
    BY <1>1, <1>3, <1>4
  <2>2. s.iter \in 0 .. Len(q) /\ s.end \in Int /\ s.acked \in Seq(Int)
    BY ONLY <2>1 DEF Passes
  <2>3. QED
    BY ONLY <2>1, <2>2
<1>6. q[s.iter].min \in Int /\ q[s.iter].max \in Int /\ q[s.iter].min < q[s.iter].max
  BY <1>3, <1>5
<1>7. /\ from \in Int /\ end \in Int /\ from = q[s.iter].max
      /\ start <= end /\ end <= s.end /\ end <= q[s.iter].min /\ end <= from
  <2>1. PICK low, high, e : low = q[s.iter].min /\ high = q[s.iter].max /\ e = s.end
    OBVIOUS
  <2>2. low \in Int /\ high \in Int /\ low < high /\ e \in Int /\ start \in Int /\ start < e
    BY <1>4, <1>5, <1>6, <2>1
  <2>3. /\ start <= low /\ from = IF start >= high THEN start ELSE high
        /\ end = IF e <= low THEN e ELSE low
    BY <1>1, <2>1
  <2>4. /\ from \in Int /\ end \in Int /\ from = high
        /\ start <= end /\ end <= e /\ end <= low /\ end <= from
    BY ONLY <2>2, <2>3
  <2>5. QED
    BY <2>1, <2>4, Zenon
<1>8. /\ acked \in Seq(Int) /\ Descends(acked)
      /\ Range(acked) = Range(s.acked) \cup (from .. s.end - 1)
      /\ Above(acked, end)
  <2>1. ContinuesDown(s.acked, from, s.end, acked)
    BY <1>2, <1>4, <1>5, <1>7, AppendDown, Zenon
  <2>2. QED
    BY <1>7, <2>1 DEF ContinuesDown
<1>9. /\ r \in Passes(q) /\ r.iter = s.iter - 1 /\ r.acked = acked /\ r.end = end
      /\ r.more <=> start < end
  <2>1. s.iter - 1 \in 0 .. Len(q) /\ (start < end) \in BOOLEAN
    BY <1>3, <1>5
  <2>2. QED
    BY <1>2, <1>7, <1>8, <2>1 DEF Passes
<1>10. Beyond(q, s.iter - 1, end)
  <2> SUFFICES ASSUME NEW i \in 1 .. Len(q), i > s.iter - 1 PROVE q[i].min >= end
    BY DEF Beyond
  <2>1. CASE i = s.iter
    BY <1>6, <1>7, <2>1
  <2>2. CASE i > s.iter
    <3>1. q[i].min >= s.end /\ q[i].min \in Int
      BY <1>3, <1>4, <2>2 DEF Beyond
    <3>2. QED
      BY <1>5, <1>7, <3>1
  <2>3. QED
    BY <1>3, <1>5, <2>1, <2>2
<1>11. ASSUME NEW x \in Int, end <= x, x < s.end PROVE x \notin Numbers(q) <=> x >= from
  <2>1. /\ s.iter # 0 /\ x >= q[s.iter].max => x \notin Numbers(q)
        /\ s.iter # 0 /\ x >= q[s.iter].min /\ x < q[s.iter].max => x \in Numbers(q)
    BY <1>4, <1>5, <1>11, Uncovered
  <2>2. PICK low, high : low = q[s.iter].min /\ high = q[s.iter].max
    OBVIOUS
  <2>3. /\ low \in Int /\ high \in Int /\ from = high /\ s.end \in Int
        /\ end = IF s.end <= low THEN s.end ELSE low
    BY <1>1, <1>5, <1>6, <1>7, <2>2
  <2>4. x \in Int /\ end <= x /\ x < s.end
    BY <1>11
  <2>5. x >= low /\ (x >= high \/ x < high)
    BY ONLY <2>3, <2>4
  <2>6. /\ x >= high => x \notin Numbers(q)
        /\ x < high => x \in Numbers(q)
    BY <1>1, <2>1, <2>2, <2>5, Zenon
  <2>7. x < high <=> ~(x >= high)
    BY ONLY <2>3, <2>4
  <2>8. QED
    BY ONLY <2>3, <2>6, <2>7
<1>12. Range(acked) = Range(A) \cup ((end .. e0 - 1) \ Numbers(q))
  <2>1. end <= s.end /\ s.end <= e0 /\ (end <= from \/ s.end <= from)
    BY <1>4, <1>7
  <2>2. Separates(Numbers(q), end, s.end, from)
    BY <1>11 DEF Separates
  <2>3. e0 \in Int /\ s.end \in Int /\ end \in Int /\ from \in Int
    BY <1>5, <1>7
  <2>4. /\ HasFrom(Range(s.acked), Range(A), Numbers(q), s.end, e0)
        /\ Range(acked) = Range(s.acked) \cup (from .. s.end - 1)
    BY <1>4, <1>8 DEF HasFrom
  <2>5. HasFrom(Range(acked), Range(A), Numbers(q), end, e0)
    BY ONLY <2>1, <2>2, <2>3, <2>4, Completes, Zenon
  <2>6. QED
    BY <2>5, Zenon DEF HasFrom
<1>13. end <= e0
  <2>1. s.end \in Int /\ end \in Int /\ end <= s.end /\ s.end <= e0
    BY <1>4, <1>5, <1>7
  <2>2. QED
    BY ONLY <2>1, e0 \in Int
<1>14. Reached(start, r) = end
  <2>1. ~(start < end) => start = end
    BY <1>7
  <2>2. QED
    BY <1>9, <2>1, Zenon DEF Reached
<1>15. QED
  BY <1>8, <1>9, <1>10, <1>12, <1>13, <1>14 DEF Walking

\* The walk goes on from s to r, one interval down unless it has ended.
WalksOn(q, start, e0, A, s, r) ==
  Walking(q, start, e0, A, r) /\ (r.more => r.iter = s.iter - 1)

(***************************************************************************)
(* The body of the loop of OnAckRange.                                     *)
(***************************************************************************)
LEMMA PassKeeps ==
  ASSUME NEW q, IsQueue(q), NEW start \in Int, NEW e0 \in Int, NEW A,
         NEW s, Walking(q, start, e0, A, s), s.more, NEW r, r = Pass(q, start, s)
  PROVE  WalksOn(q, start, e0, A, s, r)
<1>1. s.iter \in 0 .. Len(q) /\ s.end \in Int /\ Len(q) \in Nat
  BY QueueTypes DEF Walking, Passes
<1>2. s.iter # 0 => s.iter \in 1 .. Len(q)
  BY <1>1
<1>3. s.iter # 0 => q[s.iter].min \in Int /\ q[s.iter].max \in Int
  BY <1>2, QueueTypes
<1> DEFINE from == IF s.iter = 0 THEN start ELSE Max({start, q[s.iter].max})
           acked == s.acked \o Descending(from, s.end)
           end == Min({s.end, q[s.iter].min})
<1>4. r = IF s.iter = 0 \/ start > q[s.iter].min THEN [s EXCEPT !.acked = acked, !.more = FALSE]
          ELSE [iter |-> s.iter - 1, end |-> end, acked |-> acked, more |-> start < end]
  BY Zenon DEF Pass
<1>5. s.iter # 0 =>
        /\ from = IF start >= q[s.iter].max THEN start ELSE q[s.iter].max
        /\ end = IF s.end <= q[s.iter].min THEN s.end ELSE q[s.iter].min
  BY <1>1, <1>3, OfTwo
<1>6. from \in Int /\ (s.iter = 0 => from = start)
  BY <1>3, <1>5
<1>7. acked = s.acked \o Descending(from, s.end)
  OBVIOUS
<1> HIDE DEF from, acked, end
<1>8. CASE s.iter = 0 \/ start > q[s.iter].min
  <2>1. r = [s EXCEPT !.acked = acked, !.more = FALSE]
    BY <1>4, <1>8, Zenon
  <2>2. s.iter # 0 => from = IF start >= q[s.iter].max THEN start ELSE q[s.iter].max
    BY <1>5
  <2>3. Walking(q, start, e0, A, r) /\ ~r.more
    <3>1. Stops(q, start, s, from, acked, r)
      BY <1>6, <1>7, <1>8, <2>1, <2>2, Zenon DEF Stops
    <3>2. QED
      BY <3>1, PassEnds, Zenon
  <2>4. QED
    BY <2>3, Zenon DEF WalksOn
<1>9. CASE ~(s.iter = 0 \/ start > q[s.iter].min)
  <2>1. r = [iter |-> s.iter - 1, end |-> end, acked |-> acked, more |-> start < end]
    BY <1>4, <1>9, Zenon
  <2>2. s.iter # 0 /\ start <= q[s.iter].min /\ end \in Int
    BY <1>1, <1>3, <1>5, <1>9
  <2>3. /\ from = IF start >= q[s.iter].max THEN start ELSE q[s.iter].max
        /\ end = IF s.end <= q[s.iter].min THEN s.end ELSE q[s.iter].min
    BY <1>5, <2>2
  <2>4. Walking(q, start, e0, A, r)
    <3>1. Moves(q, start, s, from, acked, end, r)
      BY <1>7, <2>1, <2>2, <2>3, Zenon DEF Moves
    <3>2. QED
      BY <3>1, PassMoves, Zenon
  <2>5. r.iter = s.iter - 1
    BY <2>1
  <2>6. QED
    BY <2>4, <2>5, Zenon DEF WalksOn
<1>10. QED
  BY <1>8, <1>9

\* What holds before OnAckRange is called for a range that ends at e.
Ready(q, s, e) ==
  /\ s.iter \in 0 .. Len(q) /\ s.acked \in Seq(Int)
  /\ Descends(s.acked) /\ Above(s.acked, e) /\ Beyond(q, s.iter, e)

(***************************************************************************)
(* The loop of OnAckRange comes to its end, and has then found what is in  *)
(* the range and not in the queue.                                         *)
(***************************************************************************)
LEMMA WalkKeeps ==
  ASSUME NEW q, IsQueue(q), NEW s, NEW start \in Int, NEW end \in Int, start < end,
         Ready(q, s, end), NEW r, r = Walk(q, s.iter, start, end, s.acked)
  PROVE  Walking(q, start, end, s.acked, r) /\ ~r.more
<1> DEFINE iter == s.iter
           init == [iter |-> s.iter, end |-> end, acked |-> s.acked, more |-> TRUE]
           F(f) == [n \in 0 .. iter + 1 |->
                      IF n = 0 THEN init
                      ELSE IF f[n-1].more THEN Pass(q, start, f[n-1]) ELSE f[n-1]]
           pass == CHOOSE f : f = F(f)
           S == {t \in Passes(q) : Walking(q, start, end, s.acked, t)}
           Step == [x \in (1 .. iter + 1) \X S |-> IF x[2].more THEN Pass(q, start, x[2]) ELSE x[2]]
<1>1. r = pass[iter + 1]
  BY DEF Walk
<1>2. iter \in Nat /\ iter + 1 \in Nat /\ iter \in 0 .. Len(q) /\ Len(q) \in Nat /\ s.acked \in Seq(Int)
  BY QueueTypes DEF Ready
<1>3. init \in Passes(q) /\ init.more /\ init.iter = iter /\ init.end = end /\ init.acked = s.acked
  BY <1>2 DEF Passes
<1> HIDE DEF init
<1>4. Walking(q, start, end, s.acked, init)
  <2>1. Reached(start, init) = end
    BY <1>3 DEF Reached
  <2>2. Range(s.acked) = Range(s.acked) \cup ((end .. end - 1) \ Numbers(q))
    <3>1. end .. end - 1 = {}
      OBVIOUS
    <3>2. QED
      BY ONLY <3>1
  <2>3. end <= end
    OBVIOUS
  <2>4. Descends(s.acked) /\ Above(s.acked, end) /\ Beyond(q, iter, end)
    BY Zenon DEF Ready
  <2>5. QED
    BY <1>3, <2>1, <2>2, <2>3, <2>4, Zenon DEF Walking
<1>5. ASSUME NEW t, Walking(q, start, end, s.acked, t), t.more
      PROVE  /\ Walking(q, start, end, s.acked, Pass(q, start, t))
             /\ Pass(q, start, t).more => Pass(q, start, t).iter = t.iter - 1
  <2>1. WalksOn(q, start, end, s.acked, t, Pass(q, start, t))
    BY <1>5, PassKeeps, Zenon
  <2>2. QED
    BY <2>1, Zenon DEF WalksOn
<1>6. \A t : Walking(q, start, end, s.acked, t) => t \in Passes(q)
  BY DEF Walking
<1>7. ASSUME NEW n \in 1 .. iter + 1, NEW t \in S
      PROVE  /\ Step[<<n, t>>] = IF t.more THEN Pass(q, start, t) ELSE t
             /\ Step[<<n, t>>] \in S
  <2>1. Step[<<n, t>>] = IF t.more THEN Pass(q, start, t) ELSE t
    OBVIOUS
  <2>2. CASE t.more
    <3>1. Walking(q, start, end, s.acked, Pass(q, start, t))
      BY <1>5, <2>2
    <3>2. Pass(q, start, t) \in S
      BY <1>6, <3>1
    <3>3. QED
      BY <2>1, <2>2, <3>2
  <2>3. QED
    BY <2>1, <2>2
<1>8. init \in S
  BY <1>3, <1>4
<1> HIDE DEF Step, S
<1>9. PICK g \in [0 .. iter + 1 -> S] : Runs(iter + 1, init, Step, g)
  <2>1. Steps(iter + 1, S, Step)
    BY <1>7 DEF Steps
  <2>2. QED
    BY <1>2, <1>8, <2>1, Loop, Zenon
<1>10. g = F(g)
  <2>1. ASSUME NEW n \in 0 .. iter + 1
        PROVE  g[n] = IF n = 0 THEN init
                      ELSE IF g[n-1].more THEN Pass(q, start, g[n-1]) ELSE g[n-1]
    <3>1. CASE n = 0
      BY <1>9, <3>1 DEF Runs
    <3>2. CASE n # 0
      <4>1. n \in 1 .. iter + 1 /\ n - 1 \in 0 .. iter + 1
        BY <1>2, <3>2
      <4>2. g[n-1] \in S
        BY <4>1
      <4>3. g[n] = IF g[n-1].more THEN Pass(q, start, g[n-1]) ELSE g[n-1]
        BY <1>7, <1>9, <4>1, <4>2 DEF Runs
      <4>4. QED
        BY <3>2, <4>3
    <3>3. QED
      BY <3>1, <3>2
  <2>2. g = [n \in 0 .. iter + 1 |-> g[n]]
    OBVIOUS
  <2>3. QED
    BY <2>1, <2>2
<1>11. pass = F(pass)
  BY <1>10, Zenon
<1> HIDE DEF pass
<1>12. ASSUME NEW n \in 0 .. iter + 1
       PROVE  pass[n] = IF n = 0 THEN init
                        ELSE IF pass[n-1].more THEN Pass(q, start, pass[n-1]) ELSE pass[n-1]
  BY <1>11
<1> DEFINE G == {n \in 0 .. iter + 1 : /\ Walking(q, start, end, s.acked, pass[n])
                                       /\ pass[n].more => pass[n].iter <= iter - n}
<1> HIDE DEF iter
<1>13. 0 \in G
  <2>1. 0 \in 0 .. iter + 1 /\ pass[0] = init /\ iter <= iter - 0
    BY <1>2, <1>12
  <2>2. QED
    BY <1>3, <1>4, <2>1
<1>14. ASSUME NEW n \in 1 .. iter + 1, n - 1 \in G PROVE n \in G
  <2>1. n \in 0 .. iter + 1 /\ n # 0 /\ n \in Int
    BY <1>2
  <2>2. /\ Walking(q, start, end, s.acked, pass[n-1])
        /\ pass[n-1].more => pass[n-1].iter <= iter - (n - 1)
    BY <1>14
  <2>3. pass[n] = IF pass[n-1].more THEN Pass(q, start, pass[n-1]) ELSE pass[n-1]
    BY <1>12, <2>1
  <2>4. CASE pass[n-1].more
    <3>1. /\ Walking(q, start, end, s.acked, pass[n])
          /\ pass[n].more => pass[n].iter = pass[n-1].iter - 1
      BY <1>5, <2>2, <2>3, <2>4
    <3>2. PICK t, k : t = pass[n-1] /\ k = t.iter
      OBVIOUS
    <3>3. t \in Passes(q)
      BY <2>2, <3>2, Zenon DEF Walking
    <3>4. k \in Int
      BY ONLY <1>2, <3>2, <3>3 DEF Passes
    <3>5. k <= iter - (n - 1)
      BY <2>2, <2>4, <3>2, Zenon
    <3>6. k - 1 <= iter - n
      BY ONLY <1>2, <2>1, <3>4, <3>5
    <3>7. pass[n].more => pass[n].iter <= iter - n
      BY <3>1, <3>2, <3>6, Zenon
    <3>8. QED
      BY <2>1, <3>1, <3>7
  <2>5. CASE ~pass[n-1].more
    BY <2>1, <2>2, <2>3, <2>5
  <2>6. QED
    BY <2>4, <2>5
<1> HIDE DEF G
<1>15. iter + 1 \in G
  <2>1. \A n \in 0 .. iter + 1 : n \in G
    BY <1>2, <1>13, <1>14, Upwards
  <2>2. iter + 1 \in 0 .. iter + 1
    BY <1>2
  <2>3. QED
    BY <2>1, <2>2
<1>16. Walking(q, start, end, s.acked, r) /\ (r.more => r.iter <= iter - (iter + 1))
  BY <1>1, <1>15 DEF G
<1>17. r.iter \in Nat
  BY <1>2, <1>16 DEF Walking, Passes
<1>18. QED
  BY <1>2, <1>16, <1>17

(***************************************************************************)
(* What is above a number is above a smaller one.                          *)
(***************************************************************************)
LEMMA AboveLess ==
  ASSUME NEW a \in Seq(Int), NEW e \in Int, NEW d \in Int, d <= e, Above(a, e)
  PROVE  Above(a, d)
<1>1. \A i \in DOMAIN a : a[i] \in Int /\ a[i] >= e
  BY DEF Above
<1>2. QED
  BY <1>1 DEF Above

\* What OnAckRange adds for a range.
Found(q, least_unacked, start, end) == {p \in start .. end - 1 : p >= least_unacked} \ Numbers(q)

(***************************************************************************)
(* OnAckRange finds what the range has that is not below least_unacked and *)
(* not in the queue, and is ready for a range below.                       *)
(***************************************************************************)
LEMMA RangeKeeps ==
  ASSUME NEW q, IsQueue(q), NEW s, NEW start \in Int, NEW end \in Int, start <= end,
         NEW least_unacked \in Int, Ready(q, s, end),
         NEW r, r = OnAckRange(q, least_unacked, s, start, end)
  PROVE  /\ Ready(q, r, start)
         /\ Range(r.acked) = Range(s.acked) \cup Found(q, least_unacked, start, end)
         /\ r = s \/ r \in Passes(q)
<1>1. /\ Len(q) \in Nat /\ s.iter \in 0 .. Len(q) /\ s.acked \in Seq(Int)
      /\ Descends(s.acked) /\ Above(s.acked, end) /\ Beyond(q, s.iter, end)
      /\ \A i \in 1 .. Len(q) : q[i].min \in Int
  BY QueueTypes DEF Ready
<1>2. CASE start = end \/ end <= least_unacked
  <2>1. r = s
    BY <1>2 DEF OnAckRange
  <2>2. Found(q, least_unacked, start, end) = {}
    BY <1>2 DEF Found
  <2>3. Above(s.acked, start)
    BY <1>1, AboveLess, Zenon
  <2>4. Beyond(q, s.iter, start)
    BY <1>1, BeyondLess, Zenon
  <2>5. QED
    BY <1>1, <2>1, <2>2, <2>3, <2>4 DEF Ready
<1>3. CASE ~(start = end \/ end <= least_unacked)
  <2> DEFINE lo == Max({start, least_unacked})
  <2>1. r = Walk(q, s.iter, lo, end, s.acked)
    BY <1>3 DEF OnAckRange
  <2>2. lo = IF start >= least_unacked THEN start ELSE least_unacked
    BY OfTwo
  <2> HIDE DEF lo
  <2>3. lo \in Int /\ start <= lo /\ least_unacked <= lo /\ lo < end
    BY <1>3, <2>2
  <2>4. Walking(q, lo, end, s.acked, r) /\ ~r.more
    BY <2>1, <2>3, WalkKeeps
  <2>5. /\ r \in Passes(q) /\ Descends(r.acked) /\ Above(r.acked, lo) /\ Beyond(q, r.iter, lo)
        /\ Range(r.acked) = Range(s.acked) \cup ((lo .. end - 1) \ Numbers(q))
    BY <2>4 DEF Walking, Reached
  <2>6. r.iter \in 0 .. Len(q) /\ r.acked \in Seq(Int)
    BY <2>5 DEF Passes
  <2>7. Above(r.acked, start)
    BY <2>3, <2>5, <2>6, AboveLess, Zenon
  <2>8. Beyond(q, r.iter, start)
    BY <2>3, <2>5, BeyondLess, Zenon
  <2>9. Found(q, least_unacked, start, end) = (lo .. end - 1) \ Numbers(q)
    <3>1. \A p \in Int : p >= start /\ p >= least_unacked <=> p >= lo
      BY <2>2, <2>3
    <3>2. {p \in start .. end - 1 : p >= least_unacked} = lo .. end - 1
      BY <2>3, <3>1
    <3>3. QED
      BY <3>2 DEF Found
  <2>10. QED
    BY <2>5, <2>6, <2>7, <2>8, <2>9 DEF Ready
<1>4. QED
  BY <1>2, <1>3
-----------------------------------------------------------------------------
Blocks == [gap: Nat, length: Nat]

Frames == [largest_acked: Int, first_block_length: Nat, blocks: Seq(Blocks)]

\* fr has first_received after each block of f.
IsFirst(f, fr) ==
  /\ fr \in [0 .. Len(f.blocks) -> Int]
  /\ fr[0] = f.largest_acked + 1 - f.first_block_length
  /\ \A n \in 1 .. Len(f.blocks) : fr[n] = fr[n-1] - (f.blocks[n].gap + f.blocks[n].length)

(***************************************************************************)
(* first_received of ProcessAckFrame, block by block.                      *)
(***************************************************************************)
LEMMA FirstReceivedExact ==
  ASSUME NEW f \in Frames, NEW fr, fr = FirstReceived(f)
  PROVE  IsFirst(f, fr)
<1> DEFINE N == Len(f.blocks)
           a == f.largest_acked + 1 - f.first_block_length
           F(h) == [n \in 0 .. N |->
                      IF n = 0 THEN a ELSE h[n-1] - (f.blocks[n].gap + f.blocks[n].length)]
           first_received == CHOOSE h : h = F(h)
           Step == [x \in (1 .. N) \X Int |-> x[2] - (f.blocks[x[1]].gap + f.blocks[x[1]].length)]
<1>1. fr = first_received
  BY DEF FirstReceived
<1>2. f.blocks \in Seq(Blocks) /\ f.largest_acked \in Int /\ f.first_block_length \in Nat
  BY DEF Frames
<1>3. N \in Nat /\ \A n \in 1 .. N : f.blocks[n] \in Blocks
  BY <1>2, LenProperties
<1>4. a \in Int
  BY <1>2
<1>5. \A n \in 1 .. N : f.blocks[n].gap \in Nat /\ f.blocks[n].length \in Nat
  BY <1>3 DEF Blocks
<1>6. ASSUME NEW n \in 1 .. N, NEW t \in Int
      PROVE  /\ Step[<<n, t>>] = t - (f.blocks[n].gap + f.blocks[n].length)
             /\ Step[<<n, t>>] \in Int
  <2>1. Step[<<n, t>>] = t - (f.blocks[n].gap + f.blocks[n].length)
    OBVIOUS
  <2>2. f.blocks[n].gap \in Nat /\ f.blocks[n].length \in Nat
    BY <1>5
  <2> HIDE DEF Step
  <2>3. QED
    BY <2>1, <2>2
<1> HIDE DEF Step, a
<1>7. PICK g \in [0 .. N -> Int] : Runs(N, a, Step, g)
  <2>1. Steps(N, Int, Step)
    BY <1>6 DEF Steps
  <2>2. QED
    BY <1>3, <1>4, <2>1, Loop, Zenon
<1>8. g = F(g)
  <2>1. ASSUME NEW n \in 0 .. N
        PROVE  g[n] = IF n = 0 THEN a ELSE g[n-1] - (f.blocks[n].gap + f.blocks[n].length)
    <3>1. CASE n = 0
      BY <1>7, <3>1 DEF Runs
    <3>2. CASE n # 0
      <4>1. n \in 1 .. N /\ n - 1 \in 0 .. N
        BY <1>3, <3>2
      <4>2. g[n-1] \in Int
        BY <4>1
      <4>3. g[n] = g[n-1] - (f.blocks[n].gap + f.blocks[n].length)
        BY <1>6, <1>7, <4>1, <4>2 DEF Runs
      <4>4. QED
        BY <3>2, <4>3
    <3>3. QED
      BY <3>1, <3>2
  <2>2. g = [n \in 0 .. N |-> g[n]]
    OBVIOUS
  <2>3. QED
    BY <2>1, <2>2
<1>9. first_received = F(first_received)
  BY <1>8, Zenon
<1> HIDE DEF first_received
<1>10. /\ DOMAIN fr = 0 .. N /\ fr[0] = a
       /\ \A n \in 1 .. N : fr[n] = fr[n-1] - (f.blocks[n].gap + f.blocks[n].length)
  <2>1. fr = F(fr)
    BY <1>1, <1>9, Zenon
  <2>2. DOMAIN fr = 0 .. N
    BY <2>1, Zenon
  <2>3. \A n \in 0 .. N : fr[n] = IF n = 0 THEN a ELSE fr[n-1] - (f.blocks[n].gap + f.blocks[n].length)
    BY <2>1, Zenon
  <2>4. 0 \in 0 .. N
    BY <1>3
  <2>5. \A n \in 1 .. N : n \in 0 .. N /\ n # 0
    BY <1>3
  <2>6. QED
    BY <2>2, <2>3, <2>4, <2>5, Zenon
<1>11. fr = [n \in 0 .. N |-> fr[n]]
  BY <1>1, <1>9
<1> DEFINE G == {n \in 0 .. N : fr[n] \in Int}
<1>12. 0 \in G
  BY <1>3, <1>4, <1>10
<1>13. ASSUME NEW n \in 1 .. N, n - 1 \in G PROVE n \in G
  <2>1. n \in 0 .. N /\ fr[n-1] \in Int /\ f.blocks[n].gap \in Nat /\ f.blocks[n].length \in Nat
    BY <1>3, <1>5, <1>13
  <2>2. fr[n] = fr[n-1] - (f.blocks[n].gap + f.blocks[n].length)
    BY <1>10
  <2>3. QED
    BY <2>1, <2>2
<1>14. \A n \in 0 .. N : fr[n] \in Int
  <2>1. \A n \in 0 .. N : n \in G
    <3> HIDE DEF G
    <3>1. QED
      BY <1>3, <1>12, <1>13, Upwards
  <2>2. QED
    BY <2>1
<1>15. fr \in [0 .. N -> Int]
  BY <1>11, <1>14
<1>16. QED
  BY <1>10, <1>15 DEF IsFirst, a

\* The ranges of a frame come in descending order and do not overlap.
RangesDescend(f, R) ==
  /\ DOMAIN R = 0 .. Len(f.blocks)
  /\ \A n \in 0 .. Len(f.blocks) : R[n].start \in Int /\ R[n].end \in Int /\ R[n].start <= R[n].end
  /\ \A n \in 1 .. Len(f.blocks) : R[n].end <= R[n-1].start

(***************************************************************************)
(* ProcessAckFrame calls OnAckRange with descending ranges.                *)
(***************************************************************************)
LEMMA ProcessDescends ==
  ASSUME NEW f \in Frames, NEW R, R = ProcessAckFrame(f)
  PROVE  RangesDescend(f, R)
<1> DEFINE N == Len(f.blocks)
           fr == FirstReceived(f)
<1>1. R = [n \in 0 .. N |-> [start |-> fr[n], end |-> fr[n] + BlockLength(f, n)]]
  BY DEF ProcessAckFrame
<1>2. IsFirst(f, fr)
  BY FirstReceivedExact
<1> HIDE DEF fr
<1>3. /\ fr \in [0 .. N -> Int]
      /\ \A n \in 1 .. N : fr[n] = fr[n-1] - (f.blocks[n].gap + f.blocks[n].length)
  BY <1>2 DEF IsFirst
<1>4. f.blocks \in Seq(Blocks) /\ f.first_block_length \in Nat
  BY DEF Frames
<1>5. N \in Nat /\ \A n \in 1 .. N : f.blocks[n] \in Blocks
  BY <1>4, LenProperties
<1>6. \A n \in 1 .. N : /\ f.blocks[n].gap \in Nat /\ f.blocks[n].length \in Nat
                        /\ BlockLength(f, n) = f.blocks[n].length
  BY <1>5 DEF Blocks, BlockLength
<1>7. BlockLength(f, 0) \in Nat
  BY <1>4 DEF BlockLength
<1>8. \A n \in 0 .. N : BlockLength(f, n) \in Nat
  <2>1. \A n \in 0 .. N : n = 0 \/ n \in 1 .. N
    BY <1>5
  <2>2. QED
    BY <1>6, <1>7, <2>1
<1>9. \A n \in 0 .. N : R[n].start = fr[n] /\ R[n].end = fr[n] + BlockLength(f, n)
  BY <1>1
<1>10. DOMAIN R = 0 .. N
  BY <1>1
<1>11. ASSUME NEW n \in 0 .. N
       PROVE  R[n].start \in Int /\ R[n].end \in Int /\ R[n].start <= R[n].end
  <2>1. fr[n] \in Int /\ BlockLength(f, n) \in Nat
    BY <1>3, <1>8
  <2>2. QED
    BY <1>9, <2>1
<1>12. ASSUME NEW n \in 1 .. N PROVE R[n].end <= R[n-1].start
  <2>1. n \in 0 .. N /\ n - 1 \in 0 .. N
    BY <1>5
  <2>2. fr[n] \in Int /\ fr[n-1] \in Int
    BY <1>3, <2>1
  <2>3. R[n].end = fr[n] + f.blocks[n].length /\ R[n-1].start = fr[n-1]
    BY <1>6, <1>9, <2>1
  <2>4. fr[n] = fr[n-1] - (f.blocks[n].gap + f.blocks[n].length)
    BY <1>3
  <2>5. f.blocks[n].gap \in Nat /\ f.blocks[n].length \in Nat
    BY <1>6
  <2>6. PICK upper, lower, gap, length : /\ upper = fr[n-1] /\ lower = fr[n]
                                         /\ gap = f.blocks[n].gap /\ length = f.blocks[n].length
    OBVIOUS
  <2>7. /\ upper \in Int /\ lower \in Int /\ gap \in Nat /\ length \in Nat
        /\ lower = upper - (gap + length)
    BY <2>2, <2>4, <2>5, <2>6, Zenon
  <2>8. lower + length <= upper
    BY ONLY <2>7
  <2>9. QED
    BY <2>3, <2>6, <2>8, Zenon
<1>13. QED
  BY <1>10, <1>11, <1>12 DEF RangesDescend

(***************************************************************************)
(* What is ready for a range is ready for one below it.                    *)
(***************************************************************************)
LEMMA ReadyBelow ==
  ASSUME NEW q, IsQueue(q), NEW s, NEW e \in Int, NEW d \in Int, d <= e, Ready(q, s, e)
  PROVE  Ready(q, s, d)
<1>1. \A i \in 1 .. Len(q) : q[i].min \in Int
  BY QueueTypes
<1>2. \A i \in DOMAIN s.acked : s.acked[i] \in Int
  BY DEF Ready
<1>3. Above(s.acked, d)
  BY <1>2 DEF Ready, Above
<1>4. Beyond(q, s.iter, d)
  BY <1>1 DEF Ready, Beyond
<1>5. QED
  BY <1>3, <1>4 DEF Ready

ReadUpTo(R, n) == UNION {R[m].start .. R[m].end - 1 : m \in 0 .. n}

Wanted(q, least_unacked, R, n) == {p \in ReadUpTo(R, n) : p >= least_unacked} \ Numbers(q)

\* s has found what the ranges up to n have.
HasFound(q, least_unacked, R, n, s) ==
  /\ Ready(q, s, R[n].start)
  /\ Range(s.acked) = Wanted(q, least_unacked, R, n)

(***************************************************************************)
(* What is wanted of the first range.                                      *)
(***************************************************************************)
LEMMA ReadFirst ==
  ASSUME NEW q, NEW least_unacked, NEW R
  PROVE  Wanted(q, least_unacked, R, 0) = Found(q, least_unacked, R[0].start, R[0].end)
<1>1. 0 .. 0 = {0}
  OBVIOUS
<1>2. ReadUpTo(R, 0) = R[0].start .. R[0].end - 1
  BY <1>1 DEF ReadUpTo
<1>3. QED
  BY <1>2 DEF Found, Wanted

\* The range n adds what OnAckRange finds in it.
WantedNext(q, least_unacked, R, n) ==
  Wanted(q, least_unacked, R, n)
    = Wanted(q, least_unacked, R, n - 1) \cup Found(q, least_unacked, R[n].start, R[n].end)

(***************************************************************************)
(* What is wanted of the ranges up to one.                                 *)
(***************************************************************************)
LEMMA ReadNext ==
  ASSUME NEW q, NEW least_unacked, NEW R, NEW n \in Nat, n # 0
  PROVE  WantedNext(q, least_unacked, R, n)
<1>1. 0 .. n = (0 .. n - 1) \cup {n}
  OBVIOUS
<1>2. ReadUpTo(R, n) = ReadUpTo(R, n - 1) \cup (R[n].start .. R[n].end - 1)
  BY <1>1 DEF ReadUpTo
<1>3. QED
  BY <1>2 DEF Found, Wanted, WantedNext

(***************************************************************************)
(* The OnAckRange calls for a frame find every number it names that is not *)
(* below least_unacked and not in the queue, in descending order.          *)
(***************************************************************************)
LEMMA NewlyAckedExact ==
  ASSUME NEW q, IsQueue(q), NEW f \in Frames, NEW least_unacked \in Int,
         NEW acked, acked = NewlyAcked(q, least_unacked, f)
  PROVE  /\ acked \in Seq(Int) /\ Descends(acked)
         /\ Range(acked) = {p \in ReadNumbers(f) : p >= least_unacked} \ Numbers(q)
<1> DEFINE R == ProcessAckFrame(f)
           N == Len(f.blocks)
           init == [iter |-> Len(q), acked |-> <<>>]
           On(n, s) == OnAckRange(q, least_unacked, s, R[n].start, R[n].end)
           F(h) == [n \in 0 .. N |->
                      OnAckRange(q, least_unacked, IF n = 0 THEN init ELSE h[n-1],
                                 R[n].start, R[n].end)]
           walked == CHOOSE h : h = F(h)
           S == [iter: 0 .. Len(q), acked: Seq(Int)] \cup Passes(q)
           Step == [x \in (1 .. N) \X S |-> IF Ready(q, x[2], R[x[1]].end) THEN On(x[1], x[2]) ELSE x[2]]
           Good(n, s) == HasFound(q, least_unacked, R, n, s)
<1>1. acked = walked[N].acked
  BY Zenon DEF NewlyAcked
<1>2. RangesDescend(f, R)
  BY ProcessDescends
<1>3. ReadNumbers(f) = ReadUpTo(R, N)
  BY <1>2 DEF ReadNumbers, ReadUpTo, RangesDescend
<1>4. N \in Nat
  <2>1. f.blocks \in Seq(Blocks)
    BY DEF Frames
  <2>2. QED
    BY <2>1, LenProperties
<1> HIDE DEF R
<1>5. /\ \A n \in 0 .. N : R[n].start \in Int /\ R[n].end \in Int /\ R[n].start <= R[n].end
      /\ \A n \in 1 .. N : R[n].end <= R[n-1].start
  BY <1>2 DEF RangesDescend
<1>6. init \in S /\ init.acked = <<>> /\ init.iter = Len(q)
  <2>1. Len(q) \in 0 .. Len(q)
    BY QueueTypes
  <2>2. <<>> \in Seq(Int)
    OBVIOUS
  <2>3. QED
    BY <2>1, <2>2
<1>7. ASSUME NEW e \in Int PROVE Ready(q, init, e)
  <2>1. Len(q) \in Nat /\ <<>> \in Seq(Int) /\ DOMAIN <<>> = {}
    BY QueueTypes
  <2>2. Descends(<<>>) /\ Above(<<>>, e)
    BY <2>1 DEF Descends, Above
  <2>3. Beyond(q, Len(q), e)
    BY <2>1 DEF Beyond
  <2>4. QED
    BY <1>6, <2>1, <2>2, <2>3 DEF Ready
<1>8. Range(init.acked) = {}
  BY <1>6 DEF Range
<1> HIDE DEF init
<1>9. ASSUME NEW n \in 0 .. N, NEW s, Ready(q, s, R[n].end)
      PROVE  /\ Ready(q, On(n, s), R[n].start)
             /\ Range(On(n, s).acked) = Range(s.acked) \cup Found(q, least_unacked, R[n].start, R[n].end)
             /\ On(n, s) = s \/ On(n, s) \in Passes(q)
  BY <1>5, <1>9, RangeKeeps
<1> HIDE DEF On
<1>10. 0 \in 0 .. N /\ Good(0, On(0, init)) /\ On(0, init) \in S
  <2>1. 0 \in 0 .. N /\ Ready(q, init, R[0].end)
    <3>1. 0 \in 0 .. N
      BY ONLY <1>4
    <3>2. R[0].end \in Int
      BY <1>5, <3>1, Zenon
    <3>3. QED
      BY <1>7, <3>1, <3>2, Zenon
  <2>2. /\ Ready(q, On(0, init), R[0].start)
        /\ Range(On(0, init).acked)
             = Range(init.acked) \cup Found(q, least_unacked, R[0].start, R[0].end)
        /\ On(0, init) = init \/ On(0, init) \in Passes(q)
    BY <1>9, <2>1, Zenon
  <2>3. Wanted(q, least_unacked, R, 0) = Found(q, least_unacked, R[0].start, R[0].end)
    BY ReadFirst, Zenon
  <2>4. Range(On(0, init).acked) = Wanted(q, least_unacked, R, 0)
    BY <1>8, <2>2, <2>3
  <2>5. Good(0, On(0, init))
    BY <2>2, <2>4 DEF HasFound
  <2>6. On(0, init) \in S
    BY <1>6, <2>2
  <2>7. QED
    BY <2>1, <2>5, <2>6
<1>11. ASSUME NEW n \in 1 .. N, NEW s, Good(n - 1, s)
       PROVE  Ready(q, s, R[n].end) /\ Good(n, On(n, s))
  <2>1. n \in 0 .. N /\ n - 1 \in 0 .. N /\ n \in Nat \ {0}
    BY <1>4
  <2>2. Ready(q, s, R[n-1].start)
    BY <1>11 DEF HasFound
  <2>3. Ready(q, s, R[n].end)
    BY <1>5, <2>1, <2>2, ReadyBelow
  <2>4. Range(s.acked) = Wanted(q, least_unacked, R, n - 1)
    BY <1>11 DEF HasFound
  <2>5. /\ Ready(q, On(n, s), R[n].start)
        /\ Range(On(n, s).acked) = Range(s.acked) \cup Found(q, least_unacked, R[n].start, R[n].end)
    BY <1>9, <2>1, <2>3, Zenon
  <2>6. Wanted(q, least_unacked, R, n)
          = Wanted(q, least_unacked, R, n - 1) \cup Found(q, least_unacked, R[n].start, R[n].end)
    <3>1. n \in Nat /\ n # 0
      BY <2>1
    <3>2. WantedNext(q, least_unacked, R, n)
      BY <3>1, ReadNext, Zenon
    <3>3. QED
      BY <3>2 DEF WantedNext
  <2>7. Range(On(n, s).acked) = Wanted(q, least_unacked, R, n)
    BY <2>4, <2>5, <2>6, Zenon
  <2>8. QED
    BY <2>3, <2>5, <2>7, Zenon DEF HasFound
<1>12. ASSUME NEW n \in 1 .. N, NEW s \in S
       PROVE  /\ Step[<<n, s>>] = IF Ready(q, s, R[n].end) THEN On(n, s) ELSE s
              /\ Step[<<n, s>>] \in S
  <2>1. Step[<<n, s>>] = IF Ready(q, s, R[n].end) THEN On(n, s) ELSE s
    OBVIOUS
  <2>2. n \in 0 .. N
    BY <1>4
  <2>3. Ready(q, s, R[n].end) => On(n, s) \in S
    BY <1>9, <2>2
  <2> HIDE DEF Step, S
  <2>4. QED
    BY <2>1, <2>3
<1> HIDE DEF Step, S
<1>13. PICK g \in [0 .. N -> S] : Runs(N, On(0, init), Step, g)
  <2>1. Steps(N, S, Step)
    BY <1>12 DEF Steps
  <2>2. QED
    BY <1>4, <1>10, <2>1, Loop, Zenon
<1>14. ASSUME NEW n \in 0 .. N PROVE Good(n, g[n])
  <2> DEFINE G == {m \in 0 .. N : Good(m, g[m])}
  <2> HIDE DEF Good
  <2>1. 0 \in G
    BY <1>10, <1>13 DEF Runs
  <2>2. ASSUME NEW m \in 1 .. N, m - 1 \in G PROVE m \in G
    <3>1. m \in 0 .. N /\ m - 1 \in 0 .. N /\ Good(m - 1, g[m-1])
      BY <1>4, <2>2
    <3>2. g[m-1] \in S
      BY <3>1
    <3>3. g[m] = Step[<<m, g[m-1]>>]
      BY <1>13 DEF Runs
    <3>4. g[m] = On(m, g[m-1])
      BY <1>11, <1>12, <3>1, <3>2, <3>3
    <3>5. QED
      BY <1>11, <3>1, <3>4
  <2> HIDE DEF G
  <2>3. \A m \in 0 .. N : m \in G
    BY <1>4, <2>1, <2>2, Upwards
  <2>4. QED
    BY <2>3 DEF G
<1>15. g = F(g)
  <2>1. ASSUME NEW n \in 0 .. N PROVE g[n] = On(n, IF n = 0 THEN init ELSE g[n-1])
    <3>1. CASE n = 0
      BY <1>13, <3>1 DEF Runs
    <3>2. CASE n # 0
      <4>1. n \in 1 .. N /\ n - 1 \in 0 .. N
        BY <1>4, <3>2
      <4>2. g[n-1] \in S /\ Good(n - 1, g[n-1])
        BY <1>14, <4>1
      <4>3. g[n] = Step[<<n, g[n-1]>>]
        BY <1>13, <4>1 DEF Runs
      <4>4. Ready(q, g[n-1], R[n].end)
        BY <1>11, <4>1, <4>2
      <4>5. g[n] = On(n, g[n-1])
        BY <1>12, <4>1, <4>2, <4>3, <4>4
      <4>6. QED
        BY <3>2, <4>5
    <3>3. QED
      BY <3>1, <3>2
  <2>2. g = [n \in 0 .. N |-> g[n]]
    OBVIOUS
  <2>3. QED
    BY <2>1, <2>2 DEF On
<1>16. walked = F(walked)
  BY <1>15, Zenon
<1> HIDE DEF walked
<1>17. ASSUME NEW n \in 0 .. N PROVE walked[n] = On(n, IF n = 0 THEN init ELSE walked[n-1])
  BY <1>16 DEF On
<1> DEFINE G == {n \in 0 .. N : Good(n, walked[n])}
<1> HIDE DEF Good
<1>18. 0 \in G
  BY <1>10, <1>17
<1>19. ASSUME NEW n \in 1 .. N, n - 1 \in G PROVE n \in G
  <2>1. n \in 0 .. N /\ n # 0 /\ Good(n - 1, walked[n-1])
    BY <1>4, <1>19
  <2>2. walked[n] = On(n, walked[n-1])
    BY <1>17, <2>1
  <2>3. QED
    BY <1>11, <2>1, <2>2
<1>20. Good(N, walked[N])
  <2> HIDE DEF G
  <2>1. \A n \in 0 .. N : n \in G
    BY <1>4, <1>18, <1>19, Upwards
  <2>2. N \in 0 .. N
    BY <1>4
  <2>3. QED
    BY <2>1, <2>2 DEF G
<1>21. QED
  BY <1>1, <1>3, <1>20 DEF Good, HasFound, Ready, Wanted
=============================================================================
