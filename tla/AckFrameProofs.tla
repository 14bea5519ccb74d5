--------------------------- MODULE AckFrameProofs ---------------------------
(***************************************************************************)
(* AckFrame for every gap limit, number of blocks and packet number: the   *)
(* walk over a frame finds what was not acked before, a frame reads back as*)
(* the intervals it was written from, and the steps are those that         *)
(* NsQuicReceiver and SentPackets take on sets of numbers.                 *)
(***************************************************************************)
EXTENDS AckQueueProofs

(***************************************************************************)
(* num_encoded_gaps blocks are just enough for the gap.                    *)
(***************************************************************************)
LEMMA EncodedGaps ==
  ASSUME NEW t \in Nat \ {0}, NEW d \in Nat \ {0}, NEW g, g = (t + d - 1) \div d
  PROVE  g \in Nat /\ g >= 1 /\ (g - 1) * d < t /\ t <= g * d
<1> DEFINE x == t + d - 1
<1>1. x \in Nat /\ x = t + d - 1
  OBVIOUS
<1>2. g = x \div d
  OBVIOUS
<1> HIDE DEF x
<1>3. g \in Int
  BY <1>1, <1>2
<1>4. g * d <= x /\ x < g * d + d
  BY <1>1, <1>2, <1>3
<1>5. g >= 1 /\ (g - 1) * d < t /\ t <= g * d
  BY <1>1, <1>3, <1>4
<1>6. QED
  BY <1>3, <1>5

\* b has the blocks for the interval q[i] and the gap above it.
IsGap(q, i, b) ==
  LET g == Len(b)
  IN  /\ b \in Seq(Blocks) /\ g \in Nat /\ g >= 1
      /\ \A n \in 1 .. g - 1 : b[n].gap = MaxGap /\ b[n].length = 0
      /\ b[g].gap = (q[i+1].min - q[i].max) - (g - 1) * MaxGap
      /\ b[g].length = q[i].max - q[i].min
      /\ (g - 1) * MaxGap < q[i+1].min - q[i].max

(***************************************************************************)
(* The blocks that AppendAckFrameAndTypeByte writes for an interval.       *)
(***************************************************************************)
LEMMA GapBlocksExact ==
  ASSUME NEW q, IsQueue(q), NEW i \in 1 .. Len(q) - 1, NEW b, b = GapBlocks(q, i)
  PROVE  IsGap(q, i, b)
<1> DEFINE t == q[i+1].min - q[i].max
           g == (t + MaxGap - 1) \div MaxGap
           e == [gap |-> MaxGap, length |-> 0]
           l == [gap |-> t - (g - 1) * MaxGap, length |-> q[i].max - q[i].min]
<1>1. i \in 1 .. Len(q) /\ i + 1 \in 1 .. Len(q)
  BY QueueTypes
<1>2. /\ q[i].min \in Int /\ q[i].max \in Int /\ q[i+1].min \in Int
      /\ q[i].min < q[i].max /\ q[i].max < q[i+1].min
  BY <1>1, QueueTypes
<1>3. t \in Nat \ {0} /\ MaxGap \in Nat \ {0} /\ q[i].max - q[i].min \in Nat
  BY <1>2, AckFrameAssumption
<1>4. b = [n \in 1 .. g |-> IF n < g THEN e ELSE l]
  BY DEF GapBlocks
<1> HIDE DEF t
<1>5. g \in Nat /\ g >= 1 /\ (g - 1) * MaxGap < t
  BY <1>3, EncodedGaps
<1> HIDE DEF g
<1>6. t - (g - 1) * MaxGap \in Nat
  BY <1>3, <1>5
<1>7. /\ e \in Blocks /\ e.gap = MaxGap /\ e.length = 0
      /\ l \in Blocks /\ l.gap = t - (g - 1) * MaxGap /\ l.length = q[i].max - q[i].min
  BY <1>3, <1>6 DEF Blocks
<1> HIDE DEF e, l
<1>8. b \in Seq(Blocks) /\ Len(b) = g
  BY <1>4, <1>5, <1>7
<1>9. b[g] = l /\ \A n \in 1 .. g - 1 : b[n] = e
  BY <1>4, <1>5
<1>10. QED
  BY <1>5, <1>7, <1>8, <1>9 DEF IsGap, t

\* w has the blocks written after each interval, the last interval first.
IsWritten(q, w) ==
  /\ w \in [1 .. Len(q) -> Seq(Blocks)]
  /\ w[Len(q)] = <<>>
  /\ \A i \in 1 .. Len(q) - 1 : w[i] = w[i+1] \o GapBlocks(q, i)

(***************************************************************************)
(* The blocks of a frame, interval by interval.                            *)
(***************************************************************************)
LEMMA AckBlocksExact ==
  ASSUME NEW q, IsQueue(q), q # <<>>
  PROVE  \E w : IsWritten(q, w) /\ AckBlocks(q) = w[1]
<1> DEFINE L == Len(q)
           N == L - 1
           F(h) == [i \in 1 .. L |-> IF i = L THEN <<>> ELSE h[i+1] \o GapBlocks(q, i)]
           written == CHOOSE h : h = F(h)
           Step == [x \in (1 .. N) \X Seq(Blocks) |-> x[2] \o GapBlocks(q, L - x[1])]
<1>1. AckBlocks(q) = written[1]
  BY DEF AckBlocks
<1>2. L \in Nat /\ L >= 1 /\ N \in Nat
  <2>1. q \in Seq(Intervals) /\ Len(q) \in Nat
    BY QueueTypes
  <2>2. Len(q) # 0
    BY <2>1, EmptySeq
  <2>3. QED
    BY <2>1, <2>2
<1>3. ASSUME NEW i \in 1 .. N PROVE GapBlocks(q, i) \in Seq(Blocks)
  BY GapBlocksExact DEF IsGap
<1>4. ASSUME NEW n \in 1 .. N, NEW s \in Seq(Blocks)
      PROVE  Step[<<n, s>>] = s \o GapBlocks(q, L - n) /\ Step[<<n, s>>] \in Seq(Blocks)
  <2>1. Step[<<n, s>>] = s \o GapBlocks(q, L - n)
    OBVIOUS
  <2>2. L - n \in 1 .. N
    BY <1>2
  <2>3. GapBlocks(q, L - n) \in Seq(Blocks)
    BY <1>3, <2>2
  <2> HIDE DEF Step
  <2>4. QED
    BY <2>1, <2>3
<1>5. <<>> \in Seq(Blocks)
  OBVIOUS
<1> HIDE DEF Step
<1>6. PICK g \in [0 .. N -> Seq(Blocks)] : Runs(N, <<>>, Step, g)
  <2>1. Steps(N, Seq(Blocks), Step)
    BY <1>4 DEF Steps
  <2>2. QED
    BY <1>2, <1>5, <2>1, Loop, Zenon
<1> DEFINE w == [i \in 1 .. L |-> g[L - i]]
<1>7. \A i \in 1 .. L : w[i] = g[L - i] /\ L - i \in 0 .. N
  BY <1>2
<1>8. w = F(w)
  <2>1. ASSUME NEW i \in 1 .. L PROVE w[i] = IF i = L THEN <<>> ELSE w[i+1] \o GapBlocks(q, i)
    <3>1. CASE i = L
      <4>1. L - i = 0
        BY <1>2, <3>1
      <4>2. w[i] = g[0]
        BY <1>7, <4>1
      <4>3. QED
        BY <1>6, <3>1, <4>2 DEF Runs
    <3>2. CASE i # L
      <4> DEFINE n == L - i
      <4>1. n \in 1 .. N /\ n - 1 \in 0 .. N /\ i + 1 \in 1 .. L /\ L - (i + 1) = n - 1 /\ L - n = i
        BY <1>2, <3>2
      <4>2. w[i] = g[n] /\ w[i+1] = g[n-1]
        BY <1>7, <4>1
      <4> HIDE DEF n, w
      <4>3. g[n] = Step[<<n, g[n-1]>>] /\ g[n-1] \in Seq(Blocks)
        BY <1>6, <4>1 DEF Runs
      <4>4. Step[<<n, g[n-1]>>] = g[n-1] \o GapBlocks(q, L - n)
        BY <1>4, <4>1, <4>3
      <4>5. QED
        BY <3>2, <4>1, <4>2, <4>3, <4>4
    <3>3. QED
      BY <3>1, <3>2
  <2>2. w = [i \in 1 .. L |-> w[i]]
    OBVIOUS
  <2> HIDE DEF w
  <2>3. QED
    BY <2>1, <2>2
<1>9. written = F(written)
  BY <1>8, Zenon
<1> HIDE DEF written, w
<1>10. /\ DOMAIN written = 1 .. L /\ written[L] = <<>>
       /\ \A i \in 1 .. N : written[i] = written[i+1] \o GapBlocks(q, i)
  <2>1. \A i \in 1 .. L : written[i] = IF i = L THEN <<>> ELSE written[i+1] \o GapBlocks(q, i)
    BY <1>9
  <2>2. L \in 1 .. L /\ \A i \in 1 .. N : i \in 1 .. L /\ i # L
    BY <1>2
  <2>3. QED
    BY <1>9, <2>1, <2>2
<1> DEFINE G == {n \in 0 .. N : written[L - n] \in Seq(Blocks)}
<1>11. 0 \in G
  <2>1. L - 0 = L
    BY <1>2
  <2>2. QED
    BY <1>2, <1>5, <1>10, <2>1
<1>12. ASSUME NEW n \in 1 .. N, n - 1 \in G PROVE n \in G
  <2> DEFINE i == L - n
  <2>1. n \in 0 .. N /\ i \in 1 .. N /\ L - (n - 1) = i + 1
    BY <1>2
  <2>2. written[i+1] \in Seq(Blocks)
    BY <1>12, <2>1
  <2>3. written[i] = written[i+1] \o GapBlocks(q, i) /\ GapBlocks(q, i) \in Seq(Blocks)
    BY <1>3, <1>10, <2>1
  <2>4. written[i] \in Seq(Blocks)
    BY ONLY <2>2, <2>3
  <2>5. QED
    BY <2>1, <2>4
<1>13. \A n \in 0 .. N : written[L - n] \in Seq(Blocks)
  <2>1. \A n \in 0 .. N : n \in G
    <3> HIDE DEF G
    <3>1. QED
      BY <1>2, <1>11, <1>12, Upwards
  <2>2. QED
    BY <2>1
<1>14. ASSUME NEW i \in 1 .. L PROVE written[i] \in Seq(Blocks)
  <2>1. L - i \in 0 .. N /\ L - (L - i) = i
    BY <1>2
  <2>2. written[L - (L - i)] \in Seq(Blocks)
    BY <1>13, <2>1
  <2>3. QED
    BY <2>1, <2>2
<1>15. written = [i \in 1 .. L |-> written[i]]
  BY <1>9
<1>16. written \in [1 .. L -> Seq(Blocks)]
  BY <1>14, <1>15
<1>17. QED
  BY <1>1, <1>10, <1>16 DEF IsWritten

\* f is a frame for q with as many of the blocks as there is space for.
IsAppended(q, largest_acked, blocks, f) ==
  /\ f \in Frames /\ f.largest_acked = largest_acked
  /\ f.first_block_length = q[Len(q)].max - q[Len(q)].min
  /\ Len(f.blocks) = IF Len(blocks) > MaxBlocks THEN MaxBlocks ELSE Len(blocks)
  /\ \A n \in 1 .. Len(f.blocks) : f.blocks[n] = blocks[n]

(***************************************************************************)
(* The frame that AppendAckFrameAndTypeByte writes.                        *)
(***************************************************************************)
LEMMA AppendExact ==
  ASSUME NEW q, IsQueue(q), q # <<>>, NEW largest_acked \in Int,
         NEW f, f = AppendAckFrame(q, largest_acked)
  PROVE  IsAppended(q, largest_acked, AckBlocks(q), f)
<1> DEFINE B == AckBlocks(q)
           fbl == q[Len(q)].max - q[Len(q)].min
           bl == IF Len(B) > MaxBlocks THEN SubSeq(B, 1, MaxBlocks) ELSE B
<1>1. PICK w : IsWritten(q, w) /\ B = w[1]
  BY AckBlocksExact
<1>2. Len(q) \in 1 .. Len(q) /\ 1 \in 1 .. Len(q)
  <2>1. q \in Seq(Intervals) /\ Len(q) \in Nat
    BY QueueTypes
  <2>2. Len(q) # 0
    BY <2>1, EmptySeq
  <2>3. QED
    BY <2>1, <2>2
<1>3. B \in Seq(Blocks)
  BY <1>1, <1>2 DEF IsWritten
<1>4. f = [largest_acked |-> largest_acked, first_block_length |-> fbl, blocks |-> bl]
  BY DEF AppendAckFrame
<1> HIDE DEF B
<1>5. fbl \in Nat
  <2>1. q[Len(q)].min \in Int /\ q[Len(q)].max \in Int /\ q[Len(q)].min < q[Len(q)].max
    BY <1>2, QueueTypes
  <2>2. QED
    BY <2>1
<1> HIDE DEF fbl
<1>6. /\ bl \in Seq(Blocks) /\ Len(bl) = IF Len(B) > MaxBlocks THEN MaxBlocks ELSE Len(B)
      /\ \A n \in 1 .. Len(bl) : bl[n] = B[n]
  <2>1. MaxBlocks \in Nat /\ Len(B) \in Nat
    BY <1>3, AckFrameAssumption, LenProperties
  <2>2. CASE Len(B) > MaxBlocks
    <3>1. MaxBlocks \in 0 .. Len(B) /\ bl = SubSeq(B, 1, MaxBlocks)
      BY <2>1, <2>2
    <3> HIDE DEF bl
    <3>2. bl \in Seq(Blocks) /\ Len(bl) = MaxBlocks /\ \A n \in 1 .. MaxBlocks : bl[n] = B[n]
      BY <1>3, <3>1, FrontPart
    <3>3. QED
      BY <2>2, <3>2
  <2>3. CASE ~(Len(B) > MaxBlocks)
    <3>1. bl = B
      BY <2>3
    <3> HIDE DEF bl
    <3>2. QED
      BY <1>3, <2>3, <3>1
  <2>4. QED
    BY <2>2, <2>3
<1> HIDE DEF bl
<1>7. /\ f \in Frames /\ f.largest_acked = largest_acked /\ f.first_block_length = fbl
      /\ f.blocks = bl
  BY <1>4, <1>5, <1>6 DEF Frames
<1>8. QED
  BY <1>6, <1>7 DEF IsAppended, B, fbl

\* The queues are right, and what is on its way was written by the framer.
WalkInv == QueueInv /\ largest \in Int /\ frames \subseteq Frames

(***************************************************************************)
(* A step keeps the queues, and sends only frames the framer wrote.        *)
(***************************************************************************)
LEMMA WalkInvKept ==
  ASSUME WalkInv, [Next]_vars
  PROVE  WalkInv'
<1>1. QueueInv'
  BY QueueStep DEF WalkInv
<1>2. QueueInv /\ largest \in Int /\ frames \subseteq Frames
  BY DEF WalkInv
<1>3. largest' \in Int /\ frames' \subseteq Frames
  <2>1. ASSUME NEW p \in 1..MaxSeq, Receive(p) PROVE largest' \in Int /\ frames' \subseteq Frames
    <3>1. largest' = Max({largest, p}) /\ frames' = frames /\ p \in Int
      BY <2>1 DEF Receive
    <3>2. Max({largest, p}) = IF largest >= p THEN largest ELSE p
      BY <1>2, <3>1, OfTwo
    <3>3. QED
      BY <1>2, <3>1, <3>2
  <2>2. ASSUME NEW n \in 1..least, StopWaiting(n) PROVE largest' \in Int /\ frames' \subseteq Frames
    BY <1>2, <2>2 DEF StopWaiting
  <2>3. ASSUME SendAck PROVE largest' \in Int /\ frames' \subseteq Frames
    <3>1. queue # <<>> /\ frames' = frames \cup {AppendAckFrame(queue, largest)} /\ largest' = largest
      BY <2>3 DEF SendAck, receiver
    <3>2. IsQueue(queue)
      BY <1>2 DEF QueueInv
    <3>3. AppendAckFrame(queue, largest) \in Frames
      BY <1>2, <3>1, <3>2, AppendExact DEF IsAppended
    <3>4. QED
      BY <1>2, <3>1, <3>3
  <2>4. ASSUME NEW f \in frames, NEW n \in least .. MaxSeq+1, ReadFrame(f, n)
        PROVE  largest' \in Int /\ frames' \subseteq Frames
    <3>1. largest' = largest /\ frames' = frames \ {f}
      BY <2>4 DEF ReadFrame, receiver
    <3>2. QED
      BY <1>2, <3>1
  <2>5. ASSUME NEW n \in least .. MaxSeq+1, Retransmit(n)
        PROVE  largest' \in Int /\ frames' \subseteq Frames
    BY <1>2, <2>5 DEF Retransmit, receiver
  <2>6. ASSUME UNCHANGED vars PROVE largest' \in Int /\ frames' \subseteq Frames
    BY <1>2, <2>6 DEF vars, receiver
  <2>7. QED
    BY <2>1, <2>2, <2>3, <2>4, <2>5, <2>6 DEF Next
<1>4. QED
  BY <1>1, <1>3 DEF WalkInv

(***************************************************************************)
(* A frame, however old, adds to packets_acked_ each number it names that  *)
(* is not below least_unacked and not in last_ack_frame_, once and in      *)
(* descending order, whatever was acked since it was sent.                 *)
(***************************************************************************)
THEOREM WalkCorrect == Spec => []WalkExact
<1>1. Init => WalkInv
  BY QueueInit DEF Init, WalkInv
<1>2. WalkInv /\ [Next]_vars => WalkInv'
  BY WalkInvKept
<1>3. WalkInv => WalkExact
  <2> SUFFICES ASSUME WalkInv, NEW f \in frames
               PROVE  LET acked == NewlyAcked(prior, least, f)
                      IN  /\ Range(acked) = {p \in ReadNumbers(f) : p >= least} \ Numbers(prior)
                          /\ \A i, j \in DOMAIN acked : i < j => acked[i] > acked[j]
    BY DEF WalkExact
  <2>1. IsQueue(prior) /\ least \in Int /\ f \in Frames
    BY DEF WalkInv, QueueInv
  <2>2. PICK acked : acked = NewlyAcked(prior, least, f)
    OBVIOUS
  <2>3. /\ Descends(acked)
        /\ Range(acked) = {p \in ReadNumbers(f) : p >= least} \ Numbers(prior)
    BY <2>1, <2>2, NewlyAckedExact
  <2>4. QED
    BY <2>2, <2>3 DEF Descends
<1>4. QED
  BY <1>1, <1>2, <1>3, PTL DEF Spec

-----------------------------------------------------------------------------
\* b begins with a.
Begins(a, b) == Len(a) <= Len(b) /\ \A n \in 1 .. Len(a) : b[n] = a[n]

\* The blocks b come after the first c ones.
Follow(w, i, b, c) ==
  /\ c \in Nat /\ Len(b) \in Nat /\ Len(w[i]) = c + Len(b)
  /\ Begins(w[i+1], w[i])
  /\ \A k \in 1 .. Len(b) : w[i][c + k] = b[k]

\* The same in the whole frame.
FollowInAll(w, i, b, c) ==
  /\ c \in Nat /\ Len(b) \in Nat /\ Len(w[i]) = c + Len(b)
  /\ c + Len(b) <= Len(w[1])
  /\ \A k \in 1 .. Len(b) : w[1][c + k] = b[k]

(***************************************************************************)
(* The blocks for an interval follow those for the intervals above it.     *)
(***************************************************************************)
LEMMA WrittenNext ==
  ASSUME NEW q, IsQueue(q), NEW w, IsWritten(q, w), NEW i \in 1 .. Len(q) - 1,
         NEW b, b = GapBlocks(q, i), NEW c, c = Len(w[i+1])
  PROVE  Follow(w, i, b, c)
<1>1. Len(q) \in Nat /\ i \in 1 .. Len(q) /\ i + 1 \in 1 .. Len(q)
  BY QueueTypes
<1>2. PICK u, v : u = w[i+1] /\ v = w[i]
  OBVIOUS
<1>3. u \in Seq(Blocks) /\ v = u \o b
  BY <1>1, <1>2 DEF IsWritten
<1>4. b \in Seq(Blocks)
  BY GapBlocksExact DEF IsGap
<1>5. /\ Len(v) = Len(u) + Len(b)
      /\ \A j \in 1 .. Len(u) : v[j] = u[j]
      /\ \A j \in 1 .. Len(b) : v[Len(u) + j] = b[j]
  BY ONLY <1>3, <1>4, Joined
<1>6. Len(u) \in Nat /\ Len(b) \in Nat
  BY <1>3, <1>4, LenProperties
<1>7. Len(u) <= Len(v)
  BY <1>5, <1>6
<1>8. QED
  BY <1>2, <1>5, <1>6, <1>7 DEF Begins, Follow

(***************************************************************************)
(* All the blocks begin with those for the last intervals.                 *)
(***************************************************************************)
LEMMA WrittenBegins ==
  ASSUME NEW q, IsQueue(q), NEW w, IsWritten(q, w), NEW i \in 1 .. Len(q)
  PROVE  Begins(w[i], w[1])
<1> DEFINE G == {m \in 0 .. i - 1 : Begins(w[i], w[i - m])}
<1>1. Len(q) \in Nat /\ i - 1 \in Nat /\ \A j \in 1 .. Len(q) : Len(w[j]) \in Nat
  <2>1. Len(q) \in Nat
    BY QueueTypes
  <2>2. \A j \in 1 .. Len(q) : w[j] \in Seq(Blocks)
    BY DEF IsWritten
  <2>3. QED
    BY <2>1, <2>2, LenProperties
<1>2. 0 \in G
  <2>1. i - 0 = i /\ 0 \in 0 .. i - 1
    BY <1>1
  <2>2. QED
    BY <1>1, <2>1 DEF Begins
<1>3. ASSUME NEW m \in 1 .. i - 1, m - 1 \in G PROVE m \in G
  <2> DEFINE j == i - m
  <2>1. m \in 0 .. i - 1 /\ j \in 1 .. Len(q) - 1 /\ j \in 1 .. Len(q) /\ j + 1 \in 1 .. Len(q)
        /\ i - (m - 1) = j + 1
    BY <1>1
  <2>2. Begins(w[i], w[j+1])
    BY <1>3, <2>1
  <2>3. Begins(w[j+1], w[j])
    BY <2>1, WrittenNext DEF Follow
  <2> HIDE DEF j
  <2>4. Begins(w[i], w[j])
    <3>1. Len(w[i]) <= Len(w[j+1]) /\ Len(w[j+1]) <= Len(w[j])
      BY <2>2, <2>3 DEF Begins
    <3>2. Len(w[i]) \in Nat /\ Len(w[j+1]) \in Nat /\ Len(w[j]) \in Nat
      BY <1>1, <2>1
    <3>3. Len(w[i]) <= Len(w[j]) /\ \A n \in 1 .. Len(w[i]) : n \in 1 .. Len(w[j+1])
      BY <3>1, <3>2
    <3>4. QED
      BY <2>2, <2>3, <3>3 DEF Begins
  <2>5. QED
    BY <2>1, <2>4 DEF j
<1>4. i - 1 \in G
  <2> HIDE DEF G
  <2>1. \A m \in 0 .. i - 1 : m \in G
    BY <1>1, <1>2, <1>3, Upwards
  <2>2. i - 1 \in 0 .. i - 1
    BY <1>1
  <2>3. QED
    BY <2>1, <2>2
<1>5. i - (i - 1) = 1
  BY <1>1
<1>6. QED
  BY <1>4, <1>5

(***************************************************************************)
(* Where the blocks for an interval are.                                   *)
(***************************************************************************)
LEMMA BlockAt ==
  ASSUME NEW q, IsQueue(q), NEW w, IsWritten(q, w), NEW i \in 1 .. Len(q) - 1,
         NEW b, b = GapBlocks(q, i), NEW c, c = Len(w[i+1])
  PROVE  FollowInAll(w, i, b, c)
<1>1. /\ c \in Nat /\ Len(b) \in Nat /\ Len(w[i]) = c + Len(b)
      /\ \A k \in 1 .. Len(b) : w[i][c + k] = b[k]
  <2>1. Follow(w, i, b, c)
    BY WrittenNext, Zenon
  <2>2. QED
    BY <2>1 DEF Follow
<1>2. i \in 1 .. Len(q)
  BY QueueTypes
<1>3. Begins(w[i], w[1])
  BY <1>2, WrittenBegins
<1>4. Len(w[i]) <= Len(w[1]) /\ \A n \in 1 .. Len(w[i]) : w[1][n] = w[i][n]
  BY <1>3 DEF Begins
<1>5. \A k \in 1 .. Len(b) : c + k \in 1 .. Len(w[i])
  BY <1>1
<1>6. QED
  BY <1>1, <1>4, <1>5 DEF FollowInAll
-----------------------------------------------------------------------------
\* The numbers of the intervals from i up, each higher by off.
Shifted(q, off, i) == {x + off : x \in {y \in Numbers(q) : y >= q[i].min}}

(***************************************************************************)
(* Shifted numbers, as ranges read from a frame.                           *)
(***************************************************************************)
LEMMA ShiftedRanges ==
  ASSUME NEW q, IsQueue(q), NEW off \in Int, NEW i \in 1 .. Len(q)
  PROVE  /\ i = Len(q) => Shifted(q, off, i) = (q[i].min + off) .. (q[i].max + off) - 1
         /\ i < Len(q) => Shifted(q, off, i) =
              Shifted(q, off, i + 1) \cup ((q[i].min + off) .. (q[i].max + off) - 1)
<1>1. /\ Len(q) \in Nat /\ q[i].min \in Int /\ q[i].max \in Int /\ q[i].min < q[i].max
      /\ \A j \in 1 .. Len(q) : q[j].min \in Int /\ q[j].max \in Int /\ q[j].min < q[j].max
  BY QueueTypes
<1>2. ASSUME NEW x \in Int
      PROVE  x \in Numbers(q) /\ x >= q[i].min <=>
               \/ q[i].min <= x /\ x < q[i].max
               \/ i < Len(q) /\ x \in Numbers(q) /\ x >= q[i+1].min
  <2>1. ASSUME q[i].min <= x, x < q[i].max PROVE x \in Numbers(q) /\ x >= q[i].min
    BY <1>1, <2>1, InNumbers
  <2>2. ASSUME i < Len(q), x >= q[i+1].min PROVE x >= q[i].min
    <3>1. i + 1 \in 1 .. Len(q) /\ i < i + 1
      BY <1>1, <2>2
    <3>2. q[i].max < q[i+1].min /\ q[i+1].min \in Int
      BY <1>1, <3>1, QueueAscends
    <3>3. QED
      BY <1>1, <2>2, <3>2
  <2>3. ASSUME x \in Numbers(q), x >= q[i].min, ~(x < q[i].max)
        PROVE  i < Len(q) /\ x >= q[i+1].min
    <3>1. PICK j \in 1 .. Len(q) : q[j].min <= x /\ x < q[j].max
      BY <2>3, InNumbers
    <3>2. j > i
      <4>1. CASE j < i
        <5>1. q[j].max < q[i].min
          BY <4>1, QueueAscends
        <5>2. QED
          BY <1>1, <2>3, <3>1, <5>1
      <4>2. CASE j = i
        BY <2>3, <3>1, <4>2
      <4>3. QED
        BY <1>1, <4>1, <4>2
    <3>3. i + 1 \in 1 .. Len(q) /\ i < Len(q)
      BY <1>1, <3>2
    <3>4. q[i+1].min <= q[j].min
      <4>1. CASE j = i + 1
        BY <1>1, <3>3, <4>1
      <4>2. CASE i + 1 < j
        <5>1. q[i+1].max < q[j].min
          BY <3>3, <4>2, QueueAscends
        <5>2. QED
          BY <1>1, <3>3, <5>1
      <4>3. QED
        BY <1>1, <3>2, <4>1, <4>2
    <3>5. QED
      BY <1>1, <3>1, <3>3, <3>4
  <2>4. QED
    BY <2>1, <2>2, <2>3
<1>3. Numbers(q) \subseteq Int
  BY InNumbers
<1>4. ASSUME NEW z, NEW j PROVE z \in Shifted(q, off, j) <=>
          z \in Int /\ z - off \in Numbers(q) /\ z - off >= q[j].min
  <2>1. z \in Shifted(q, off, j) <=> \E x \in Numbers(q) : x >= q[j].min /\ z = x + off
    BY DEF Shifted
  <2>2. ASSUME z \in Int PROVE z - off \in Int /\ z = (z - off) + off
    BY <2>2
  <2>3. \A x \in Numbers(q) : z = x + off => z \in Int /\ x = z - off
    BY <1>3
  <2>4. QED
    BY <2>1, <2>2, <2>3
<1>5. ASSUME NEW z PROVE z \in (q[i].min + off) .. (q[i].max + off) - 1 <=>
          z \in Int /\ z - off >= q[i].min /\ z - off < q[i].max
  BY <1>1
<1>6. ASSUME i = Len(q), NEW z
      PROVE  z \in Shifted(q, off, i) <=> z \in (q[i].min + off) .. (q[i].max + off) - 1
  <2>1. ~(i < Len(q))
    BY <1>1, <1>6
  <2>2. z \in Int => z - off \in Int
    OBVIOUS
  <2>3. QED
    BY <1>1, <1>2, <1>4, <1>5, <2>1, <2>2
<1>7. ASSUME i < Len(q), NEW z
      PROVE  z \in Shifted(q, off, i) <=>
               z \in Shifted(q, off, i + 1) \/ z \in (q[i].min + off) .. (q[i].max + off) - 1
  <2>1. z \in Int => z - off \in Int
    OBVIOUS
  <2>2. QED
    BY <1>1, <1>2, <1>4, <1>5, <1>7, <2>1
<1>8. QED
  BY <1>6, <1>7

-----------------------------------------------------------------------------
\* f is a frame for q, written with the blocks w and largest_acked higher by off
\* than the last number of q; fr and R are what is read from it.
Reading(q, off, w, f, fr, R) ==
  /\ IsQueue(q) /\ q # <<>> /\ off \in Int
  /\ IsWritten(q, w) /\ IsAppended(q, (q[Len(q)].max - 1) + off, w[1], f)
  /\ IsFirst(f, fr)
  /\ \A n \in 0 .. Len(f.blocks) : R[n].start = fr[n] /\ R[n].end = fr[n] + BlockLength(f, n)

\* After the block n the reader is k blocks below the interval i.
At(q, off, w, f, fr, R, n, i, k) ==
  /\ i \in 1 .. Len(q) /\ k \in Nat /\ n = Len(w[i]) + k
  /\ i = 1 => k = 0
  /\ i > 1 => k < Len(GapBlocks(q, i - 1))
  /\ fr[n] = (q[i].min + off) - k * MaxGap
  /\ k = 0 => BlockLength(f, n) # 0
  /\ ReadUpTo(R, n) = Shifted(q, off, i)

(***************************************************************************)
(* What was read up to a block.                                            *)
(***************************************************************************)
LEMMA ReadUpToNext ==
  ASSUME NEW R
  PROVE  /\ ReadUpTo(R, 0) = R[0].start .. R[0].end - 1
         /\ \A n \in Nat \ {0} : ReadUpTo(R, n) = ReadUpTo(R, n - 1) \cup (R[n].start .. R[n].end - 1)
<1>1. ReadUpTo(R, 0) = R[0].start .. R[0].end - 1
  <2>1. 0 .. 0 = {0}
    OBVIOUS
  <2>2. QED
    BY <2>1 DEF ReadUpTo
<1>2. ASSUME NEW n \in Nat \ {0}
      PROVE  ReadUpTo(R, n) = ReadUpTo(R, n - 1) \cup (R[n].start .. R[n].end - 1)
  <2>1. 0 .. n = (0 .. n - 1) \cup {n}
    OBVIOUS
  <2>2. QED
    BY <2>1 DEF ReadUpTo
<1>3. QED
  BY <1>1, <1>2

(***************************************************************************)
(* The types of a frame that is read.                                      *)
(***************************************************************************)
LEMMA ReadingTypes ==
  ASSUME NEW q, NEW off, NEW w, NEW f, NEW fr, NEW R, Reading(q, off, w, f, fr, R)
  PROVE  /\ Len(q) \in Nat \ {0} /\ Len(q) \in 1 .. Len(q) /\ 1 \in 1 .. Len(q)
         /\ off \in Int /\ MaxGap \in Nat \ {0}
         /\ \A i \in 1 .. Len(q) : /\ q[i].min \in Int /\ q[i].max \in Int /\ q[i].min < q[i].max
                                   /\ Len(w[i]) \in Nat
         /\ Len(f.blocks) \in Nat /\ Len(f.blocks) <= Len(w[1])
         /\ \A n \in 0 .. Len(f.blocks) : fr[n] \in Int
<1>1. IsQueue(q) /\ q # <<>> /\ off \in Int /\ IsWritten(q, w) /\ IsFirst(f, fr)
  BY DEF Reading
<1>2. /\ f \in Frames
      /\ Len(f.blocks) = IF Len(w[1]) > MaxBlocks THEN MaxBlocks ELSE Len(w[1])
  BY DEF Reading, IsAppended
<1>3. Len(q) \in Nat /\ q \in Seq(Intervals)
      /\ \A i \in 1 .. Len(q) : q[i].min \in Int /\ q[i].max \in Int /\ q[i].min < q[i].max
  BY <1>1, QueueTypes
<1>4. Len(q) # 0
  BY <1>1, <1>3, EmptySeq
<1>5. \A i \in 1 .. Len(q) : Len(w[i]) \in Nat
  <2>1. \A i \in 1 .. Len(q) : w[i] \in Seq(Blocks)
    BY <1>1 DEF IsWritten
  <2>2. QED
    BY <2>1, LenProperties
<1>6. 1 \in 1 .. Len(q) /\ Len(q) \in 1 .. Len(q) /\ Len(q) \in Nat \ {0}
  BY <1>3, <1>4
<1>7. Len(w[1]) \in Nat /\ MaxBlocks \in Nat /\ MaxGap \in Nat \ {0}
  BY <1>5, <1>6, AckFrameAssumption
<1>8. Len(f.blocks) \in Nat /\ Len(f.blocks) <= Len(w[1])
  BY <1>2, <1>7
<1>9. \A n \in 0 .. Len(f.blocks) : fr[n] \in Int
  BY <1>1 DEF IsFirst
<1>10. QED
  BY <1>1, <1>3, <1>5, <1>6, <1>7, <1>8, <1>9

(***************************************************************************)
(* The first block is the last interval.                                   *)
(***************************************************************************)
LEMMA AtStart ==
  ASSUME NEW q, NEW off, NEW w, NEW f, NEW fr, NEW R, Reading(q, off, w, f, fr, R)
  PROVE  At(q, off, w, f, fr, R, 0, Len(q), 0)
<1> DEFINE L == Len(q)
<1>1. /\ L \in Nat \ {0} /\ L \in 1 .. L /\ off \in Int /\ MaxGap \in Nat \ {0}
      /\ q[L].min \in Int /\ q[L].max \in Int /\ q[L].min < q[L].max
      /\ Len(f.blocks) \in Nat
  BY ReadingTypes
<1>2. /\ IsQueue(q) /\ w[L] = <<>>
      /\ f.largest_acked = (q[L].max - 1) + off /\ f.first_block_length = q[L].max - q[L].min
      /\ fr[0] = f.largest_acked + 1 - f.first_block_length
  BY DEF Reading, IsWritten, IsAppended, IsFirst
<1>3. 0 \in 0 .. Len(f.blocks) /\ Len(w[L]) = 0
  BY <1>1, <1>2
<1>4. R[0].start = fr[0] /\ R[0].end = fr[0] + BlockLength(f, 0)
  BY <1>3 DEF Reading
<1>5. BlockLength(f, 0) = f.first_block_length
  BY DEF BlockLength
<1> HIDE DEF L
<1>6. fr[0] = q[L].min + off
  BY ONLY <1>1, <1>2
<1>7. BlockLength(f, 0) # 0 /\ R[0].start = q[L].min + off /\ R[0].end = q[L].max + off
  BY ONLY <1>1, <1>2, <1>4, <1>5, <1>6
<1>8. ReadUpTo(R, 0) = (q[L].min + off) .. (q[L].max + off) - 1
  BY <1>7, ReadUpToNext
<1>9. Shifted(q, off, L) = (q[L].min + off) .. (q[L].max + off) - 1
  BY <1>1, <1>2, ShiftedRanges DEF L
<1>10. L > 1 => 0 < Len(GapBlocks(q, L - 1))
  <2> SUFFICES ASSUME L > 1 PROVE 0 < Len(GapBlocks(q, L - 1))
    OBVIOUS
  <2>1. L - 1 \in 1 .. Len(q) - 1
    BY <1>1 DEF L
  <2>2. QED
    <3>1. IsGap(q, L - 1, GapBlocks(q, L - 1))
      BY <1>2, <2>1, GapBlocksExact, Zenon
    <3>2. QED
      BY <3>1 DEF IsGap
<1>11. 0 * MaxGap = 0 /\ 0 = 0 + 0 /\ (q[L].min + off) - 0 = q[L].min + off
  BY <1>1
<1>12. QED
  BY <1>1, <1>3, <1>6, <1>7, <1>8, <1>9, <1>10, <1>11 DEF At, L

\* The block n is the block k of those for the interval j and the gap above it.
IsBlock(f, n, b, k) ==
  /\ b[k].gap \in Nat /\ b[k].length \in Nat
  /\ f.blocks[n].gap = b[k].gap /\ f.blocks[n].length = b[k].length

(***************************************************************************)
(* Which block is read next.                                               *)
(***************************************************************************)
LEMMA NextBlock ==
  ASSUME NEW q, NEW off, NEW w, NEW f, NEW fr, NEW R, Reading(q, off, w, f, fr, R),
         NEW n \in 1 .. Len(f.blocks), NEW j \in 1 .. Len(q) - 1, NEW k \in Nat,
         NEW b, b = GapBlocks(q, j), k < Len(b), n = Len(w[j+1]) + (k + 1)
  PROVE  IsBlock(f, n, b, k + 1)
<1>1. IsQueue(q) /\ IsWritten(q, w) /\ \A m \in 1 .. Len(f.blocks) : f.blocks[m] = w[1][m]
  BY DEF Reading, IsAppended
<1>2. PICK c : c = Len(w[j+1])
  OBVIOUS
<1>3. FollowInAll(w, j, b, c)
  BY <1>1, <1>2, BlockAt, Zenon
<1>4. Len(b) \in Nat /\ \A m \in 1 .. Len(b) : w[1][c + m] = b[m]
  BY <1>3 DEF FollowInAll
<1>5. b \in Seq(Blocks)
  BY <1>1, GapBlocksExact DEF IsGap
<1>6. k + 1 \in 1 .. Len(b)
  BY <1>4
<1>7. b[k + 1] \in Blocks
  BY <1>5, <1>6
<1>8. w[1][c + (k + 1)] = b[k + 1]
  BY <1>4, <1>6
<1>9. f.blocks[n] = b[k + 1]
  BY <1>1, <1>2, <1>8
<1>10. QED
  BY <1>7, <1>9 DEF IsBlock, Blocks

(***************************************************************************)
(* ProcessAckFrame reads one more block.                                   *)
(***************************************************************************)
LEMMA AtNext ==
  ASSUME NEW q, NEW off, NEW w, NEW f, NEW fr, NEW R, Reading(q, off, w, f, fr, R),
         NEW n \in 1 .. Len(f.blocks), NEW i, NEW k, At(q, off, w, f, fr, R, n - 1, i, k)
  PROVE  \E j, m : At(q, off, w, f, fr, R, n, j, m)
<1>1. PICK j, b, c : j = i - 1 /\ b = GapBlocks(q, j) /\ c = Len(w[i])
  OBVIOUS
<1>2. /\ i \in 1 .. Len(q) /\ k \in Nat /\ n - 1 = c + k
      /\ i = 1 => k = 0
      /\ i > 1 => k < Len(b)
      /\ fr[n-1] = (q[i].min + off) - k * MaxGap
      /\ ReadUpTo(R, n - 1) = Shifted(q, off, i)
  BY <1>1 DEF At
<1>3. /\ Len(q) \in Nat /\ off \in Int /\ MaxGap \in Nat \ {0}
      /\ \A l \in 1 .. Len(q) : /\ q[l].min \in Int /\ q[l].max \in Int /\ q[l].min < q[l].max
                                /\ Len(w[l]) \in Nat
      /\ Len(f.blocks) \in Nat /\ Len(f.blocks) <= Len(w[1])
      /\ \A l \in 0 .. Len(f.blocks) : fr[l] \in Int
  BY ReadingTypes
<1>4. i > 1
  <2> SUFFICES ASSUME i = 1 PROVE FALSE
    BY <1>2, <1>3
  <2>1. n - 1 = Len(w[1]) + 0 /\ Len(w[1]) \in Nat
    BY <1>1, <1>2, <1>3
  <2>2. QED
    BY <1>3, <2>1
<1>5. /\ j \in 1 .. Len(q) - 1 /\ j \in 1 .. Len(q) /\ j + 1 = i /\ j < Len(q)
  <2>1. PICK l \in Nat : l = Len(q)
    BY <1>3, Zenon
  <2>2. i \in 1 .. l /\ i > 1 /\ j = i - 1
    BY <1>1, <1>2, <1>4, <2>1, Zenon
  <2>3. j \in 1 .. l - 1 /\ j \in 1 .. l /\ j + 1 = i /\ j < l
    BY ONLY <2>1, <2>2
  <2>4. QED
    BY <2>1, <2>3, Zenon
<1>6. IsQueue(q)
  BY DEF Reading
<1>7. IsGap(q, j, b)
  BY <1>1, <1>5, <1>6, GapBlocksExact
<1>8. PICK lo, hi, above, before, after :
        /\ lo = q[j].min /\ hi = q[j].max /\ above = q[i].min
        /\ before = fr[n-1] /\ after = fr[n]
  OBVIOUS
<1>9. c \in Nat /\ Len(w[j]) \in Nat
  BY <1>1, <1>2, <1>3, <1>5
<1>10. lo \in Int /\ hi \in Int /\ above \in Int /\ lo < hi
  BY <1>2, <1>3, <1>5, <1>8
<1>11. before \in Int /\ after \in Int
  <2>1. n \in 0 .. Len(f.blocks) /\ n - 1 \in 0 .. Len(f.blocks)
    BY <1>3
  <2>2. QED
    BY <1>3, <1>8, <2>1
<1>12. n = c + (k + 1)
  BY <1>2, <1>9
<1>13. IsBlock(f, n, b, k + 1)
  <2>1. k < Len(b) /\ n = Len(w[j+1]) + (k + 1)
    BY <1>1, <1>2, <1>4, <1>5, <1>12
  <2>2. QED
    BY <1>1, <1>2, <1>5, <2>1, NextBlock, Zenon
<1>14. Len(w[j]) = c + Len(b)
  <2>1. c = Len(w[j+1]) /\ IsWritten(q, w)
    BY <1>1, <1>5 DEF Reading
  <2>2. FollowInAll(w, j, b, c)
    BY <1>1, <1>5, <1>6, <2>1, BlockAt, Zenon
  <2>3. QED
    BY <2>2 DEF FollowInAll
<1>15. PICK gap, length : gap = b[k+1].gap /\ length = b[k+1].length
  OBVIOUS
<1>16. gap \in Nat /\ length \in Nat /\ f.blocks[n].gap = gap /\ f.blocks[n].length = length
  BY <1>13, <1>15 DEF IsBlock
<1>17. after = before - (gap + length)
  <2>1. fr[n] = fr[n-1] - (f.blocks[n].gap + f.blocks[n].length)
    BY DEF Reading, IsFirst
  <2>2. QED
    BY <1>8, <1>16, <2>1
<1>18. BlockLength(f, n) = length
  BY <1>3, <1>16 DEF BlockLength
<1>19. ReadUpTo(R, n) = Shifted(q, off, i) \cup (after .. (after + length) - 1)
  <2>1. n \in Nat \ {0} /\ n \in 0 .. Len(f.blocks)
    BY <1>3
  <2>2. R[n].start = after /\ R[n].end = after + length
    BY <1>8, <1>18, <2>1 DEF Reading
  <2>3. ReadUpTo(R, n) = ReadUpTo(R, n - 1) \cup (R[n].start .. R[n].end - 1)
    BY <2>1, ReadUpToNext
  <2>4. QED
    BY <1>2, <2>2, <2>3
<1>20. PICK g : g = Len(b)
  OBVIOUS
<1>21. /\ g \in Nat /\ g >= 1
       /\ \A m \in 1 .. g - 1 : b[m].gap = MaxGap /\ b[m].length = 0
       /\ b[g].gap = (above - hi) - (g - 1) * MaxGap
       /\ b[g].length = hi - lo
       /\ k < g
  BY <1>2, <1>4, <1>5, <1>7, <1>8, <1>20 DEF IsGap
<1>22. CASE k + 1 < g
  <2>1. gap = MaxGap /\ length = 0
    BY <1>2, <1>15, <1>21, <1>22
  <2>2. fr[n] = (q[i].min + off) - (k + 1) * MaxGap
    <3>1. (k + 1) * MaxGap = k * MaxGap + MaxGap /\ k * MaxGap \in Int
      BY <1>2, <1>3
    <3>2. PICK x, y : x = k * MaxGap /\ y = (k + 1) * MaxGap
      OBVIOUS
    <3>3. x \in Int /\ y = x + MaxGap /\ off \in Int /\ MaxGap \in Int
      BY <1>3, <3>1, <3>2
    <3>4. before = (above + off) - x
      BY <1>2, <1>8, <3>2
    <3>5. after = (above + off) - y
      BY ONLY <1>10, <1>11, <1>17, <2>1, <3>3, <3>4
    <3>6. QED
      BY <1>8, <3>2, <3>5
  <2>3. ReadUpTo(R, n) = Shifted(q, off, i)
    <3>1. after .. (after + length) - 1 = {}
      BY <1>11, <2>1
    <3>2. QED
      BY <1>19, <3>1
  <2>4. k + 1 \in Nat /\ k + 1 # 0 /\ i # 1 /\ k + 1 < Len(GapBlocks(q, i - 1))
    <3>1. k \in Nat
      BY <1>2
    <3>2. k + 1 \in Nat /\ k + 1 # 0
      BY ONLY <3>1
    <3>3. i # 1
      BY ONLY <1>4
    <3>4. k + 1 < Len(GapBlocks(q, i - 1))
      BY <1>1, <1>20, <1>22, Zenon
    <3>5. QED
      BY <3>2, <3>3, <3>4
  <2>5. At(q, off, w, f, fr, R, n, i, k + 1)
    BY <1>1, <1>2, <1>12, <2>2, <2>3, <2>4 DEF At
  <2>6. QED
    BY <2>5
<1>23. CASE k + 1 = g
  <2>1. k = g - 1
    BY <1>2, <1>21, <1>23
  <2>2. gap = (above - hi) - k * MaxGap /\ length = hi - lo
    BY <1>15, <1>21, <1>23, <2>1
  <2>3. after = lo + off
    <3>1. PICK x : x = k * MaxGap /\ x \in Int /\ off \in Int
      BY <1>2, <1>3
    <3>2. before = (above + off) - x /\ gap = (above - hi) - x
      BY <1>2, <1>8, <2>2, <3>1
    <3>3. QED
      BY ONLY <1>10, <1>11, <1>17, <2>2, <3>1, <3>2
  <2>4. off \in Int /\ after + length = hi + off /\ length # 0
    <3>1. off \in Int
      BY <1>3
    <3>2. QED
      BY ONLY <1>10, <2>2, <2>3, <3>1
  <2>5. ReadUpTo(R, n) = Shifted(q, off, j)
    <3>1. Shifted(q, off, j) = Shifted(q, off, j + 1) \cup ((q[j].min + off) .. (q[j].max + off) - 1)
      BY <1>3, <1>5, <1>6, ShiftedRanges
    <3>2. QED
      BY <1>5, <1>8, <1>19, <2>3, <2>4, <3>1
  <2>6. n = Len(w[j]) + 0 /\ fr[n] = (q[j].min + off) - 0 * MaxGap
    <3>1. n = Len(w[j]) + 0
      BY <1>9, <1>12, <1>14, <1>20, <1>23
    <3>2. after = (lo + off) - 0 * MaxGap
      BY <1>3, <1>10, <2>3
    <3>3. QED
      BY <1>8, <3>1, <3>2
  <2>7. j > 1 => 0 < Len(GapBlocks(q, j - 1))
    <3> SUFFICES ASSUME j > 1 PROVE 0 < Len(GapBlocks(q, j - 1))
      OBVIOUS
    <3>1. j - 1 \in 1 .. Len(q) - 1
      BY <1>3, <1>5
    <3>2. IsGap(q, j - 1, GapBlocks(q, j - 1))
      BY <1>6, <3>1, GapBlocksExact, Zenon
    <3>3. Len(GapBlocks(q, j - 1)) \in Nat /\ Len(GapBlocks(q, j - 1)) >= 1
      BY <3>2, Zenon DEF IsGap
    <3>4. PICK l \in Nat : l = Len(GapBlocks(q, j - 1)) /\ l >= 1
      BY <3>3, Zenon
    <3>5. 0 < l
      BY ONLY <3>4
    <3>6. QED
      BY <3>4, <3>5, Zenon
  <2>8. At(q, off, w, f, fr, R, n, j, 0)
    BY <1>5, <1>18, <2>4, <2>5, <2>6, <2>7 DEF At
  <2>9. QED
    BY <2>8
<1>24. QED
  BY <1>2, <1>21, <1>22, <1>23

(***************************************************************************)
(* After every block that ProcessAckFrame reads, what it has read is the   *)
(* numbers of the queue from some interval up, each higher by off.         *)
(***************************************************************************)
LEMMA AtAll ==
  ASSUME NEW q, NEW off, NEW w, NEW f, NEW fr, NEW R, Reading(q, off, w, f, fr, R)
  PROVE  \A n \in 0 .. Len(f.blocks) : \E i, k : At(q, off, w, f, fr, R, n, i, k)
<1> DEFINE N == Len(f.blocks)
           G == {n \in 0 .. N : \E i, k : At(q, off, w, f, fr, R, n, i, k)}
<1>1. N \in Nat
  BY ReadingTypes
<1>2. 0 \in G
  BY <1>1, AtStart
<1>3. ASSUME NEW n \in 1 .. N, n - 1 \in G PROVE n \in G
  <2>1. PICK i, k : At(q, off, w, f, fr, R, n - 1, i, k)
    BY <1>3
  <2>2. \E j, m : At(q, off, w, f, fr, R, n, j, m)
    BY <2>1, AtNext, Zenon
  <2>3. QED
    BY <1>1, <2>2
<1>4. \A n \in 0 .. N : n \in G
  <2> HIDE DEF G
  <2>1. QED
    BY <1>1, <1>2, <1>3, Upwards
<1>5. QED
  BY <1>4

(***************************************************************************)
(* first_received stays positive: the checks of ProcessAckFrame for an     *)
(* underflow do not fail.                                                  *)
(***************************************************************************)
LEMMA AtPositive ==
  ASSUME NEW q, NEW off, NEW w, NEW f, NEW fr, NEW R, Reading(q, off, w, f, fr, R),
         off >= 0, \A i \in 1 .. Len(q) : q[i].min >= 1,
         NEW n, NEW i, NEW k, At(q, off, w, f, fr, R, n, i, k)
  PROVE  fr[n] >= 1
<1>1. /\ Len(q) \in Nat \ {0} /\ off \in Int /\ MaxGap \in Nat \ {0}
      /\ \A j \in 1 .. Len(q) : q[j].min \in Int /\ q[j].max \in Int /\ q[j].min < q[j].max
  BY ReadingTypes
<1>2. PICK j, b, x, lo : j = i - 1 /\ b = GapBlocks(q, j) /\ x = k * MaxGap /\ lo = q[i].min
  OBVIOUS
<1>3. /\ i \in 1 .. Len(q) /\ k \in Nat
      /\ i = 1 => k = 0
      /\ i > 1 => k < Len(b)
      /\ fr[n] = (lo + off) - x
  BY <1>2 DEF At
<1>4. lo \in Int /\ lo >= 1
  BY <1>1, <1>2, <1>3
<1>5. CASE i = 1
  <2>1. x = 0
    BY <1>1, <1>2, <1>3, <1>5
  <2>2. QED
    BY <1>1, <1>3, <1>4, <2>1
<1>6. CASE i > 1
  <2>1. j \in 1 .. Len(q) - 1 /\ j \in 1 .. Len(q) /\ j + 1 = i
    BY <1>1, <1>2, <1>3, <1>6
  <2>2. IsGap(q, j, b)
    BY <1>2, <2>1, GapBlocksExact DEF Reading
  <2>3. PICK g, y, hi : g = Len(b) /\ y = (g - 1) * MaxGap /\ hi = q[j].max
    OBVIOUS
  <2>4. g \in Nat /\ g >= 1 /\ y < lo - hi
    BY <1>2, <2>1, <2>2, <2>3 DEF IsGap
  <2>5. hi \in Int /\ hi >= 1
    <3>1. q[j].min >= 1 /\ q[j].min \in Int /\ q[j].max \in Int /\ q[j].min < q[j].max
      BY <1>1, <2>1
    <3>2. QED
      BY <2>3, <3>1
  <2>6. x \in Int /\ y \in Int /\ x <= y
    <3>1. k \in Nat /\ g - 1 \in Nat /\ k <= g - 1 /\ MaxGap \in Nat
      BY <1>1, <1>3, <1>6, <2>3, <2>4
    <3>2. k * MaxGap \in Int /\ (g - 1) * MaxGap \in Int /\ k * MaxGap <= (g - 1) * MaxGap
      BY ONLY <3>1
    <3>3. QED
      BY <1>2, <2>3, <3>2
  <2>7. off \in Int /\ off >= 0
    BY <1>1
  <2>8. (lo + off) - x >= 1
    BY ONLY <1>4, <2>4, <2>5, <2>6, <2>7
  <2>9. QED
    BY <1>3, <2>8
<1>7. QED
  BY <1>1, <1>3, <1>5, <1>6

(***************************************************************************)
(* The least of shifted numbers.                                           *)
(***************************************************************************)
LEMMA ShiftedFrom ==
  ASSUME NEW q, IsQueue(q), NEW off \in Int, NEW i \in 1 .. Len(q), NEW S, S = Shifted(q, off, i)
  PROVE  /\ Min(S) = q[i].min + off
         /\ S = {p \in {x + off : x \in Numbers(q)} : p >= q[i].min + off}
<1> DEFINE lo == q[i].min
           M == {x + off : x \in Numbers(q)}
<1>1. lo \in Int /\ q[i].max \in Int /\ lo < q[i].max
  BY QueueTypes
<1>2. Numbers(q) \subseteq Int /\ lo \in Numbers(q)
  <2>1. Numbers(q) \subseteq Int
    BY InNumbers
  <2>2. lo <= lo /\ lo \in Int
    BY <1>1
  <2>3. QED
    BY <1>1, <2>1, <2>2, InNumbers
<1> HIDE DEF lo
<1>3. S = {x + off : x \in {y \in Numbers(q) : y >= lo}}
  BY DEF Shifted, lo
<1>4. lo + off \in S /\ \A y \in S : lo + off <= y /\ y \in Int
  <2>1. lo >= lo
    BY <1>1
  <2>2. \A x \in Numbers(q) : x >= lo => lo + off <= x + off /\ x + off \in Int
    BY <1>1, <1>2
  <2>3. QED
    BY <1>2, <1>3, <2>1, <2>2
<1>5. Min(S) = lo + off
  <2>1. Min(S) \in S /\ \A y \in S : Min(S) <= y
    BY <1>4 DEF Min
  <2>2. Min(S) <= lo + off /\ lo + off <= Min(S) /\ Min(S) \in Int /\ lo + off \in Int
    BY <1>1, <1>4, <2>1
  <2>3. QED
    BY <2>2
<1>6. S = {p \in M : p >= lo + off}
  <2>1. \A x \in Numbers(q) : x >= lo <=> x + off >= lo + off
    BY <1>1, <1>2
  <2>2. QED
    BY <1>3, <2>1
<1>7. QED
  BY <1>5, <1>6 DEF lo

(***************************************************************************)
(* The last number of a queue.                                             *)
(***************************************************************************)
LEMMA LastNumber ==
  ASSUME NEW q, IsQueue(q), q # <<>>
  PROVE  /\ Max(Numbers(q)) = q[Len(q)].max - 1 /\ q[Len(q)].max - 1 \in Numbers(q)
         /\ \A i \in 1 .. Len(q) : q[i].min \in Numbers(q)
         /\ {y \in Numbers(q) : y >= q[1].min} = Numbers(q)
<1> DEFINE L == Len(q)
           hi == q[L].max - 1
<1>1. /\ L \in Nat /\ q \in Seq(Intervals)
      /\ \A i \in 1 .. L : q[i].min \in Int /\ q[i].max \in Int /\ q[i].min < q[i].max
  BY QueueTypes
<1>2. L \in 1 .. L /\ 1 \in 1 .. L
  <2>1. L # 0
    BY <1>1, EmptySeq
  <2>2. QED
    BY <1>1, <2>1
<1>3. hi \in Int /\ q[L].max \in Int /\ q[L].min <= hi /\ hi < q[L].max
  BY <1>1, <1>2
<1>4. ASSUME NEW i \in 1 .. L PROVE q[i].min \in Numbers(q)
  <2>1. q[i].min \in Int /\ q[i].min <= q[i].min /\ q[i].min < q[i].max
    BY <1>1
  <2>2. QED
    BY <2>1, InNumbers
<1>5. hi \in Numbers(q)
  BY <1>2, <1>3, InNumbers
<1>6. ASSUME NEW x \in Numbers(q) PROVE x \in Int /\ x <= hi /\ x >= q[1].min
  <2>1. PICK i \in 1 .. L : x \in Int /\ q[i].min <= x /\ x < q[i].max
    BY InNumbers
  <2>2. i # L => q[i].max < q[L].min
    <3>1. i # L => i < L
      BY <1>1
    <3>2. QED
      BY <1>2, <3>1, QueueAscends
  <2>3. i # 1 => q[1].max < q[i].min
    <3>1. i # 1 => 1 < i
      BY <1>1
    <3>2. QED
      BY <1>2, <3>1, QueueAscends
  <2>4. q[1].min \in Int /\ q[1].max \in Int /\ q[1].min < q[1].max /\ q[L].min \in Int
        /\ q[i].min \in Int /\ q[i].max \in Int
    BY <1>1, <1>2
  <2>5. x <= hi
    BY <1>3, <2>1, <2>2, <2>4
  <2>6. x >= q[1].min
    BY <2>1, <2>3, <2>4
  <2>7. QED
    BY <2>1, <2>5, <2>6
<1> HIDE DEF hi
<1>7. Max(Numbers(q)) = hi
  <2>1. Max(Numbers(q)) \in Numbers(q) /\ \A y \in Numbers(q) : y <= Max(Numbers(q))
    BY <1>5, <1>6 DEF Max
  <2>2. Max(Numbers(q)) <= hi /\ hi <= Max(Numbers(q)) /\ Max(Numbers(q)) \in Int
    BY <1>5, <1>6, <2>1
  <2>3. QED
    BY <1>3, <2>2
<1>8. QED
  BY <1>4, <1>5, <1>6, <1>7 DEF hi

\* What FrameExact says of a frame f for q.
IsExact(q, largest_acked, f) ==
  LET read  == ReadNumbers(f)
      meant == {p + largest_acked - Max(Numbers(q)) : p \in Numbers(q)}
  IN  /\ \A n \in 0 .. Len(f.blocks) : FirstReceived(f)[n] >= 0
      /\ read = {p \in meant : p >= Min(read)}
      /\ Len(AckBlocks(q)) <= MaxBlocks => read = meant /\ LastRangeSeen(f)

(***************************************************************************)
(* The frame AppendAckFrameAndTypeByte writes, read by ProcessAckFrame.    *)
(***************************************************************************)
LEMMA FrameReads ==
  ASSUME NEW q, IsQueue(q), q # <<>>, NEW largest_acked \in Int,
         \A x \in Numbers(q) : x >= 1 /\ x <= largest_acked,
         NEW f, f = AppendAckFrame(q, largest_acked)
  PROVE  IsExact(q, largest_acked, f)
<1>1. PICK w : IsWritten(q, w) /\ AckBlocks(q) = w[1]
  BY AckBlocksExact
<1>2. IsAppended(q, largest_acked, w[1], f)
  BY <1>1, AppendExact
<1>3. PICK fr, R, N, top, off :
        /\ fr = FirstReceived(f) /\ R = ProcessAckFrame(f) /\ N = Len(f.blocks)
        /\ top = q[Len(q)].max - 1 /\ off = largest_acked - top
  OBVIOUS
<1>4. f \in Frames
  BY <1>2 DEF IsAppended
<1>5. /\ top \in Numbers(q) /\ Max(Numbers(q)) = top
      /\ \A i \in 1 .. Len(q) : q[i].min \in Numbers(q)
      /\ {y \in Numbers(q) : y >= q[1].min} = Numbers(q)
  BY <1>3, LastNumber
<1>6. Numbers(q) \subseteq Int
  BY InNumbers
<1>7. off \in Int /\ off >= 0 /\ largest_acked = top + off
  BY <1>3, <1>5, <1>6
<1>8. R = [n \in 0 .. N |-> [start |-> fr[n], end |-> fr[n] + BlockLength(f, n)]]
  BY <1>3 DEF ProcessAckFrame
<1>9. Reading(q, off, w, f, fr, R)
  <2>1. IsFirst(f, fr)
    BY <1>3, <1>4, FirstReceivedExact
  <2>2. IsAppended(q, (q[Len(q)].max - 1) + off, w[1], f)
    BY <1>2, <1>3, <1>7
  <2>3. \A n \in 0 .. Len(f.blocks) : R[n].start = fr[n] /\ R[n].end = fr[n] + BlockLength(f, n)
    BY <1>3, <1>8
  <2>4. QED
    BY <1>1, <1>7, <2>1, <2>2, <2>3 DEF Reading
<1>10. /\ N \in Nat /\ Len(q) \in Nat \ {0} /\ 1 \in 1 .. Len(q)
       /\ \A i \in 1 .. Len(q) : q[i].min \in Int /\ Len(w[i]) \in Nat
  BY <1>3, <1>9, ReadingTypes
<1>11. ASSUME NEW n \in 0 .. N PROVE fr[n] >= 0
  <2>1. \A i \in 1 .. Len(q) : q[i].min >= 1
    BY <1>5
  <2>2. PICK i, k : At(q, off, w, f, fr, R, n, i, k)
    BY <1>3, <1>9, AtAll
  <2>3. fr[n] >= 1
    BY <1>7, <1>9, <2>1, <2>2, AtPositive, Zenon
  <2>4. fr[n] \in Int
    BY <1>3, <1>9, ReadingTypes
  <2>5. QED
    BY <2>3, <2>4
<1>12. PICK i, k : At(q, off, w, f, fr, R, N, i, k)
  <2>1. N \in 0 .. Len(f.blocks)
    BY <1>3, <1>10
  <2>2. QED
    BY <1>9, <2>1, AtAll
<1>13. PICK read, meant : read = ReadNumbers(f) /\ meant = {p + largest_acked - Max(Numbers(q)) : p \in Numbers(q)}
  OBVIOUS
<1>14. read = Shifted(q, off, i) /\ i \in 1 .. Len(q)
  <2>1. read = UNION {R[n].start .. R[n].end - 1 : n \in 0 .. N}
    <3>1. read = UNION {R[n].start .. R[n].end - 1 : n \in DOMAIN R}
      BY <1>3, <1>13 DEF ReadNumbers
    <3>2. DOMAIN R = 0 .. N
      BY <1>8
    <3>3. QED
      BY <3>1, <3>2
  <2>2. read = ReadUpTo(R, N)
    BY <2>1 DEF ReadUpTo
  <2>3. QED
    BY <1>12, <2>2 DEF At
<1>15. meant = {x + off : x \in Numbers(q)}
  <2>1. \A x \in Numbers(q) : x + largest_acked - Max(Numbers(q)) = x + off
    BY <1>5, <1>6, <1>7
  <2>2. QED
    BY <1>13, <2>1
<1>16. read = {p \in meant : p >= Min(read)}
  <2>1. Min(read) = q[i].min + off /\ read = {p \in {x + off : x \in Numbers(q)} : p >= q[i].min + off}
    BY <1>7, <1>14, ShiftedFrom
  <2>2. QED
    BY <1>15, <2>1
<1>17. ASSUME Len(AckBlocks(q)) <= MaxBlocks PROVE read = meant /\ LastRangeSeen(f)
  <2>1. N = Len(w[1])
    <3>1. N = IF Len(w[1]) > MaxBlocks THEN MaxBlocks ELSE Len(w[1])
      BY <1>2, <1>3 DEF IsAppended
    <3>2. Len(w[1]) \in Nat /\ MaxBlocks \in Nat /\ Len(w[1]) <= MaxBlocks
      BY <1>1, <1>10, <1>17, AckFrameAssumption
    <3>3. QED
      BY <3>1, <3>2
  <2>2. i = 1
    <3> SUFFICES ASSUME i # 1 PROVE FALSE
      OBVIOUS
    <3>1. PICK j, b, c : j = i - 1 /\ b = GapBlocks(q, j) /\ c = Len(w[i])
      OBVIOUS
    <3>2. j \in 1 .. Len(q) - 1 /\ j + 1 = i /\ i > 1
      BY <1>10, <1>14, <3>1
    <3>3. FollowInAll(w, j, b, c)
      <4>1. c = Len(w[j+1])
        BY <3>1, <3>2
      <4>2. QED
        BY <1>1, <3>1, <3>2, <4>1, BlockAt, Zenon
    <3>4. c \in Nat /\ Len(b) \in Nat /\ c + Len(b) <= Len(w[1])
      BY <3>3 DEF FollowInAll
    <3>5. k \in Nat /\ N = c + k /\ k < Len(b)
      BY <1>12, <3>1, <3>2 DEF At
    <3>6. QED
      BY <2>1, <3>4, <3>5
  <2>3. k = 0 /\ BlockLength(f, N) # 0
    BY <1>12, <2>2 DEF At
  <2>4. LastRangeSeen(f)
    BY <1>3, <2>3 DEF LastRangeSeen
  <2>5. read = meant
    BY <1>5, <1>14, <1>15, <2>2 DEF Shifted
  <2>6. QED
    BY <2>4, <2>5
<1>18. QED
  BY <1>3, <1>11, <1>13, <1>16, <1>17 DEF IsExact
-----------------------------------------------------------------------------
\* largest_acked is not below any number that was received and is still there.
FrameInv == WalkInv /\ \A p \in received : p >= 1 /\ p <= largest

(***************************************************************************)
(* A step leaves no received number above largest_acked.                   *)
(***************************************************************************)
LEMMA FrameInvKept ==
  ASSUME FrameInv, [Next]_vars
  PROVE  FrameInv'
<1>1. WalkInv'
  BY WalkInvKept DEF FrameInv
<1>2. largest \in Int /\ \A p \in received : p \in Int /\ p >= 1 /\ p <= largest
  <2>1. largest \in Int /\ IsQueue(queue) /\ Numbers(queue) = received
    BY DEF FrameInv, WalkInv, QueueInv
  <2>2. QED
    BY <2>1, InNumbers DEF FrameInv
<1> DEFINE Bounded == \A p \in received : p >= 1 /\ p <= largest
<1>3. Bounded'
  <2>1. ASSUME NEW p \in 1..MaxSeq, Receive(p) PROVE Bounded'
    <3>1. largest' = Max({largest, p}) /\ received' = received \cup {p} /\ p \in Int /\ p >= 1
      BY <2>1 DEF Receive
    <3>2. Max({largest, p}) = IF largest >= p THEN largest ELSE p
      BY <1>2, <3>1, OfTwo
    <3>3. largest' \in Int /\ largest <= largest' /\ p <= largest'
      BY <1>2, <3>1, <3>2
    <3>4. QED
      BY <1>2, <3>1, <3>3
  <2>2. ASSUME NEW n \in 1..least, StopWaiting(n) PROVE Bounded'
    BY <1>2, <2>2 DEF StopWaiting
  <2>3. ASSUME UNCHANGED receiver PROVE Bounded'
    BY <1>2, <2>3 DEF receiver
  <2>4. QED
    BY <2>1, <2>2, <2>3 DEF Next, SendAck, ReadFrame, Retransmit, vars
<1>4. QED
  BY <1>1, <1>3 DEF FrameInv

(***************************************************************************)
(* The frame that the receiver would write for its queue now reads, where  *)
(* ProcessAckFrame reads it, without an underflow, as the numbers of the   *)
(* queue from some number up, each higher by what largest_acked is above   *)
(* the last; all of them and the last range when the blocks suffice.       *)
(***************************************************************************)
THEOREM FramesCorrect == Spec => []FrameExact
<1>1. Init => FrameInv
  BY QueueInit DEF Init, WalkInv, FrameInv
<1>2. FrameInv /\ [Next]_vars => FrameInv'
  BY FrameInvKept
<1>3. FrameInv => FrameExact
  <2> SUFFICES ASSUME FrameInv, queue # <<>> PROVE FrameExact
    BY DEF FrameExact
  <2>1. /\ IsQueue(queue) /\ Numbers(queue) = received /\ largest \in Int
        /\ \A p \in Numbers(queue) : p >= 1 /\ p <= largest
    BY DEF FrameInv, WalkInv, QueueInv
  <2>2. IsExact(queue, largest, AppendAckFrame(queue, largest))
    BY <2>1, FrameReads
  <2>3. QED
    BY <2>1, <2>2 DEF FrameExact, IsExact
<1>4. QED
  BY <1>1, <1>2, <1>3, PTL DEF Spec

-----------------------------------------------------------------------------
(***************************************************************************)
(* NsQuicReceiver and SentPackets, and with them QuicTransfer, have sets   *)
(* of packet numbers for the queues.                                       *)
(***************************************************************************)

CONSTANTS
  MinReceivedBeforeAckDecimation, MaxRetransmittablePacketsBeforeAck, AckDelay,
  NacksBeforeRetransmission

Receiver == INSTANCE NsQuicReceiver
Manager  == INSTANCE SentPackets

\* What both have of the received packet manager and of the sent packet manager.
ReceiverMembers ==
  [packets |-> Numbers(queue), largest_acked |-> largest, peer_least |-> peer_least]

ManagerMembers == [least_unacked |-> least, acked |-> Numbers(prior)]

\* A step of the receiver's queue is a step of its set in NsQuicReceiver.
ReceiverStep ==
  /\ \A p \in 1..MaxSeq : Receive(p) =>
       ReceiverMembers' = Receiver!RecordPacketReceived(ReceiverMembers, p)
  /\ \A n \in 1..least : StopWaiting(n) =>
       ReceiverMembers' = Receiver!DontWaitForPacketsBefore(ReceiverMembers, n)

\* The peer reads from a frame what NsQuicReceiver says it does.
FrameAsSet ==
  queue # <<>> /\ Len(AckBlocks(queue)) <= MaxBlocks =>
    ReadNumbers(AppendAckFrame(queue, largest)) = Receiver!AckedNumbers(ReceiverMembers)

\* An ack frame adds to last_ack_frame_.packets what SentPackets says it does;
\* pending is not empty only after a frame without its last range.
ManagerStep ==
  \A f \in frames, n \in least .. MaxSeq+1 :
    ReadFrame(f, n) /\ LastRangeSeen(f) =>
      LET newly == pending \cup Manager!NewlyAcked(ManagerMembers, ReadNumbers(f))
      IN  ManagerMembers' =
            [least_unacked |-> n, acked |-> {p \in ManagerMembers.acked \cup newly : p >= n}]

(***************************************************************************)
(* RecordPacketReceived and DontWaitForPacketsBefore do to the intervals   *)
(* what NsQuicReceiver has them do to the set of their numbers.            *)
(***************************************************************************)
THEOREM ReceiverAsSets == Spec => [][ReceiverStep]_vars
<1>1. WalkInv /\ [Next]_vars => ReceiverStep
  <2> SUFFICES ASSUME WalkInv PROVE ReceiverStep
    OBVIOUS
  <2>1. IsQueue(queue) /\ largest \in Int
    BY DEF WalkInv, QueueInv
  <2>2. ASSUME NEW p \in 1..MaxSeq, Receive(p)
        PROVE  ReceiverMembers' = Receiver!RecordPacketReceived(ReceiverMembers, p)
    <3>1. queue' = Add(queue, p) /\ largest' = Max({largest, p}) /\ peer_least' = peer_least
      BY <2>2 DEF Receive
    <3>2. Numbers(queue') = Numbers(queue) \cup {p}
      BY <2>1, <3>1, AddKeeps
    <3>3. Max({largest, p}) = IF largest >= p THEN largest ELSE p
      BY <2>1, OfTwo
    <3>4. largest' = IF p > largest THEN p ELSE largest
      BY <2>1, <3>1, <3>3
    <3>5. PICK N, l : N = Numbers(queue) \cup {p} /\ l = IF p > largest THEN p ELSE largest
      OBVIOUS
    <3>6. ReceiverMembers' = [packets |-> N, largest_acked |-> l, peer_least |-> peer_least]
      BY <3>1, <3>2, <3>4, <3>5 DEF ReceiverMembers
    <3>7. PICK m, r : m = ReceiverMembers /\ r = Receiver!RecordPacketReceived(m, p)
      OBVIOUS
    <3>8. m = [packets |-> Numbers(queue), largest_acked |-> largest, peer_least |-> peer_least]
      BY <3>7 DEF ReceiverMembers
    <3>9. r = [[m EXCEPT !.packets = N] EXCEPT !.largest_acked = l]
      <4>1. m.packets = Numbers(queue) /\ m.largest_acked = largest
        BY <3>8
      <4>2. r = [m EXCEPT !.packets = N, !.largest_acked = l]
        BY <3>5, <3>7, <4>1 DEF Receiver!RecordPacketReceived
      <4>3. QED
        BY ONLY <3>8, <4>2
    <3>10. [m EXCEPT !.packets = N] = [packets |-> N, largest_acked |-> largest, peer_least |-> peer_least]
      BY ONLY <3>8
    <3>11. r = [packets |-> N, largest_acked |-> l, peer_least |-> peer_least]
      BY ONLY <3>9, <3>10
    <3>12. QED
      BY <3>6, <3>7, <3>11
  <2>3. ASSUME NEW n \in 1..least, StopWaiting(n)
        PROVE  ReceiverMembers' = Receiver!DontWaitForPacketsBefore(ReceiverMembers, n)
    <3>1. /\ queue' = RemoveUpTo(queue, n) /\ largest' = largest
          /\ n > peer_least /\ peer_least' = n
      BY <2>3 DEF StopWaiting
    <3>2. Numbers(queue') = {p \in Numbers(queue) : p >= n}
      BY <2>1, <3>1, RemoveUpToKeeps
    <3>3. QED
      BY <3>1, <3>2 DEF ReceiverMembers, Receiver!DontWaitForPacketsBefore
  <2>4. QED
    BY <2>2, <2>3 DEF ReceiverStep
<1>2. Init => WalkInv
  BY QueueInit DEF Init, WalkInv
<1>3. WalkInv /\ [Next]_vars => WalkInv'
  BY WalkInvKept
<1>4. QED
  BY <1>1, <1>2, <1>3, PTL DEF Spec

(***************************************************************************)
(* The frame for the queue is read as the numbers NsQuicReceiver has for   *)
(* it, when the blocks suffice.                                            *)
(***************************************************************************)
THEOREM FramesAsSets == Spec => []FrameAsSet
<1>1. FrameInv => FrameAsSet
  <2> SUFFICES ASSUME FrameInv, queue # <<>>, Len(AckBlocks(queue)) <= MaxBlocks
               PROVE  ReadNumbers(AppendAckFrame(queue, largest)) = Receiver!AckedNumbers(ReceiverMembers)
    BY DEF FrameAsSet
  <2>1. /\ IsQueue(queue) /\ largest \in Int
        /\ \A p \in Numbers(queue) : p >= 1 /\ p <= largest
    BY DEF FrameInv, WalkInv, QueueInv
  <2>2. IsExact(queue, largest, AppendAckFrame(queue, largest))
    BY <2>1, FrameReads
  <2>3. PICK top : top = Max(Numbers(queue))
    OBVIOUS
  <2>4. ReadNumbers(AppendAckFrame(queue, largest)) = {p + largest - top : p \in Numbers(queue)}
    BY <2>2, <2>3 DEF IsExact
  <2>5. Numbers(queue) # {} /\ top \in Int /\ Numbers(queue) \subseteq Int
    <3>1. Numbers(queue) \subseteq Int
      BY <2>1, InNumbers
    <3>2. QED
      BY <2>1, <2>3, <3>1, LastNumber
  <2>6. \A p \in Numbers(queue) : p + largest - top = p + (largest - top)
    BY <2>1, <2>5
  <2>7. Receiver!AckedNumbers(ReceiverMembers) = {p + (largest - top) : p \in Numbers(queue)}
    <3>1. Receiver!Max(Numbers(queue)) = top
      BY <2>3 DEF Receiver!Max, Max
    <3>2. QED
      BY <2>5, <3>1 DEF Receiver!AckedNumbers, ReceiverMembers
  <2>8. QED
    BY <2>4, <2>6, <2>7
<1>2. Init => FrameInv
  BY QueueInit DEF Init, WalkInv, FrameInv
<1>3. FrameInv /\ [Next]_vars => FrameInv'
  BY FrameInvKept
<1>4. QED
  BY <1>1, <1>2, <1>3, PTL DEF Spec

\* Frames and packets_acked_ name only numbers a packet can have.
SetInv ==
  /\ FrameInv /\ largest <= MaxSeq /\ pending \subseteq 1..MaxSeq
  /\ \A f \in frames : ReadNumbers(f) \subseteq 1..MaxSeq

(***************************************************************************)
(* What the framer writes for a queue names numbers up to largest_acked.   *)
(***************************************************************************)
LEMMA FrameBounded ==
  ASSUME NEW q, IsQueue(q), q # <<>>, NEW largest_acked \in Int,
         \A x \in Numbers(q) : x >= 1 /\ x <= largest_acked,
         NEW f, f = AppendAckFrame(q, largest_acked)
  PROVE  ReadNumbers(f) \subseteq 1 .. largest_acked
<1>1. PICK top : top = Max(Numbers(q))
  OBVIOUS
<1>2. top \in Numbers(q) /\ \A p \in Numbers(q) : p \in Int /\ p <= top
  <2>1. top = q[Len(q)].max - 1 /\ top \in Numbers(q)
    BY <1>1, LastNumber
  <2>2. Numbers(q) \subseteq Int
    BY InNumbers
  <2>3. \A y \in Numbers(q) : y <= top
    <3>1. ASSUME NEW y \in Numbers(q) PROVE y <= top
      <4>1. PICK i \in 1 .. Len(q) : y \in Int /\ q[i].min <= y /\ y < q[i].max
        BY InNumbers
      <4>2. /\ Len(q) \in Nat /\ q[i].max \in Int /\ q[Len(q)].min \in Int /\ q[Len(q)].max \in Int
            /\ q[Len(q)].min < q[Len(q)].max /\ Len(q) \in 1 .. Len(q)
        BY QueueTypes
      <4>3. i # Len(q) => q[i].max < q[Len(q)].min
        <5>1. i # Len(q) => i < Len(q)
          BY <4>2
        <5>2. QED
          BY <4>2, <5>1, QueueAscends
      <4>4. PICK a, l, h : a = q[i].max /\ l = q[Len(q)].min /\ h = q[Len(q)].max
        OBVIOUS
      <4>5. a \in Int /\ l \in Int /\ h \in Int /\ l < h /\ (a < l \/ a = h) /\ y < a /\ top = h - 1
        BY <2>1, <4>1, <4>2, <4>3, <4>4
      <4>6. QED
        BY ONLY <4>1, <4>5
    <3>2. QED
      BY <3>1
  <2>4. QED
    BY <2>1, <2>2, <2>3
<1>3. IsExact(q, largest_acked, f)
  BY FrameReads
<1>4. ReadNumbers(f) \subseteq {p + largest_acked - top : p \in Numbers(q)}
  BY <1>1, <1>3 DEF IsExact
<1>5. ASSUME NEW p \in Numbers(q) PROVE p + largest_acked - top \in 1 .. largest_acked
  <2>1. p \in Int /\ p >= 1 /\ p <= top /\ top \in Int /\ top <= largest_acked
    BY <1>2
  <2>2. QED
    BY <2>1
<1>6. QED
  BY <1>4, <1>5

(***************************************************************************)
(* A step brings no number that no packet has into frames or               *)
(* packets_acked_.                                                         *)
(***************************************************************************)
LEMMA SetInvKept ==
  ASSUME SetInv, [Next]_vars
  PROVE  SetInv'
<1> DEFINE Within == /\ largest <= MaxSeq /\ pending \subseteq 1..MaxSeq
                     /\ \A f \in frames : ReadNumbers(f) \subseteq 1..MaxSeq
<1>1. FrameInv'
  BY FrameInvKept DEF SetInv
<1>2. Within /\ MaxSeq \in Nat /\ FrameInv
  BY AckFrameAssumption DEF SetInv
<1>3. /\ IsQueue(queue) /\ IsQueue(prior) /\ largest \in Int /\ least \in Int /\ frames \subseteq Frames
      /\ \A p \in Numbers(queue) : p >= 1 /\ p <= largest
  BY <1>2 DEF FrameInv, WalkInv, QueueInv
<1>4. Within'
  <2>1. ASSUME NEW p \in 1..MaxSeq, Receive(p) PROVE Within'
    <3>1. largest' = Max({largest, p}) /\ frames' = frames /\ pending' = pending
      BY <2>1 DEF Receive, sender
    <3>2. Max({largest, p}) = IF largest >= p THEN largest ELSE p
      BY <1>3, OfTwo
    <3>3. largest' <= MaxSeq
      BY <1>2, <3>1, <3>2
    <3>4. QED
      BY <1>2, <3>1, <3>3
  <2>2. ASSUME NEW n \in 1..least, StopWaiting(n) PROVE Within'
    BY <1>2, <2>2 DEF StopWaiting, sender
  <2>3. ASSUME SendAck PROVE Within'
    <3>1. /\ queue # <<>> /\ frames' = frames \cup {AppendAckFrame(queue, largest)}
          /\ largest' = largest /\ pending' = pending
      BY <2>3 DEF SendAck, receiver, sender
    <3>2. ReadNumbers(AppendAckFrame(queue, largest)) \subseteq 1 .. largest
      BY <1>3, <3>1, FrameBounded
    <3>3. 1 .. largest \subseteq 1..MaxSeq
      BY <1>2, <1>3
    <3>4. QED
      BY <1>2, <3>1, <3>2, <3>3
  <2>4. ASSUME NEW f \in frames, NEW n \in least .. MaxSeq+1, ReadFrame(f, n) PROVE Within'
    <3>1. PICK acked : acked = Range(NewlyAcked(prior, least, f))
      OBVIOUS
    <3>2. largest' = largest /\ frames' = frames \ {f} /\ (pending' = {} \/ pending' = pending \cup acked)
      BY <2>4, <3>1 DEF ReadFrame, receiver
    <3>3. acked \subseteq ReadNumbers(f)
      <4>1. PICK a : a = NewlyAcked(prior, least, f)
        OBVIOUS
      <4>2. Range(a) = {p \in ReadNumbers(f) : p >= least} \ Numbers(prior)
        BY <1>3, <4>1, NewlyAckedExact
      <4>3. QED
        BY <3>1, <4>1, <4>2
    <3>4. pending' \subseteq 1..MaxSeq
      BY <1>2, <3>2, <3>3
    <3>5. QED
      BY <1>2, <3>2, <3>4
  <2>5. ASSUME NEW n \in least .. MaxSeq+1, Retransmit(n) PROVE Within'
    BY <1>2, <2>5 DEF Retransmit, receiver
  <2>6. ASSUME UNCHANGED vars PROVE Within'
    BY <1>2, <2>6 DEF vars, receiver, sender
  <2>7. QED
    BY <2>1, <2>2, <2>3, <2>4, <2>5, <2>6 DEF Next
<1>5. QED
  BY <1>1, <1>4 DEF SetInv

(***************************************************************************)
(* OnAckRange and OnAckFrameEnd leave in last_ack_frame_.packets what      *)
(* SentPackets has of them: what was there and the newly acked numbers,    *)
(* from least_unacked up.                                                  *)
(***************************************************************************)
THEOREM ManagerAsSets == Spec => [][ManagerStep]_vars
<1>1. SetInv => ManagerStep
  <2> SUFFICES ASSUME SetInv, NEW f \in frames, NEW n \in least .. MaxSeq+1,
                      ReadFrame(f, n), LastRangeSeen(f),
                      NEW newly,
                      newly = pending \cup Manager!NewlyAcked(ManagerMembers, ReadNumbers(f))
               PROVE  ManagerMembers' =
                        [least_unacked |-> n,
                         acked |-> {p \in ManagerMembers.acked \cup newly : p >= n}]
    BY DEF ManagerStep
  <2>1. /\ IsQueue(prior) /\ least \in Int /\ f \in Frames
        /\ pending \subseteq 1..MaxSeq /\ ReadNumbers(f) \subseteq 1..MaxSeq
    BY DEF SetInv, FrameInv, WalkInv, QueueInv
  <2>2. PICK a : a = NewlyAcked(prior, least, f)
    OBVIOUS
  <2>3. Range(a) = {p \in ReadNumbers(f) : p >= least} \ Numbers(prior)
    BY <2>1, <2>2, NewlyAckedExact
  <2>4. newly = pending \cup Range(a) /\ ManagerMembers.acked = Numbers(prior)
    BY <2>3 DEF Manager!NewlyAcked, ManagerMembers
  <2>5. newly \subseteq 1..MaxSeq
    BY <2>1, <2>3, <2>4
  <2>6. least' = n /\ prior' = RemoveUpTo(AddAll(prior, newly), n)
    BY <2>2, <2>4 DEF ReadFrame
  <2>7. PICK r : r = AddAll(prior, newly)
    OBVIOUS
  <2>8. IsQueue(r) /\ Numbers(r) = Numbers(prior) \cup newly
    <3>1. IsQueue(r) /\ Numbers(r) = Numbers(prior) \cup (newly \cap 1..MaxSeq)
      BY <2>1, <2>7, AddAllKeeps
    <3>2. QED
      BY <2>5, <3>1
  <2>9. n \in Int
    BY <2>1
  <2>10. Numbers(prior') = {p \in Numbers(r) : p >= n}
    BY <2>6, <2>7, <2>8, <2>9, RemoveUpToKeeps
  <2>11. QED
    BY <2>4, <2>6, <2>8, <2>10 DEF ManagerMembers
<1>2. Init => SetInv
  BY QueueInit, AckFrameAssumption DEF Init, WalkInv, FrameInv, SetInv
<1>3. SetInv /\ [Next]_vars => SetInv'
  BY SetInvKept
<1>4. QED
  BY <1>1, <1>2, <1>3, PTL DEF Spec
=============================================================================
