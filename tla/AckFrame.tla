------------------------------ MODULE AckFrame ------------------------------
(***************************************************************************)
(* The ack frames between NsQuicReceiver and NsQuicSender: the queue of    *)
(* received packet numbers as intervals (PacketNumberQueue), the blocks    *)
(* the framer writes for it, the ranges it reads from them, and the walk   *)
(* of OnAckRange that keeps the numbers not acked before.                  *)
(*                                                                         *)
(* The max of an interval and the end of a range are excluded.  Field      *)
(* widths are left out: the framer chooses them from the values.           *)
(***************************************************************************)
EXTENDS Integers, Sequences, FiniteSetsExt

CONSTANTS
  MaxGap,       \* the largest gap of one block, the limit of a uint8_t
  MaxBlocks,    \* the most blocks in a frame, by its count and its space
  MaxSeq,       \* bound: the largest packet number
  MaxFrames     \* bound: frames on their way

ASSUME AckFrameAssumption ==
  /\ MaxGap \in Nat \ {0} /\ MaxBlocks \in Nat \ {0}
  /\ MaxSeq \in Nat /\ MaxFrames \in Nat

VARIABLES
  queue,        \* ack_frame_.packets of the receiver
  largest,      \* ack_frame_.largest_acked
  peer_least,   \* peer_least_packet_awaiting_ack_
  received,     \* history: the numbers the queue stands for
  frames,       \* frames on their way
  prior,        \* last_ack_frame_.packets of the sender
  least,        \* GetLeastUnacked() of the sender
  pending       \* packets_acked_ of the sender between two frames, as a set

receiver == <<queue, largest, peer_least, received>>
sender   == <<prior, least, pending>>
vars     == <<receiver, frames, sender>>
-----------------------------------------------------------------------------
(* PacketNumberQueue *)

\* std::deque: e before position i, and what is at position i erased.
InsertAt(q, i, e) == SubSeq(q, 1, i - 1) \o <<e>> \o SubSeq(q, i, Len(q))

RemoveAt(q, i) == SubSeq(q, 1, i - 1) \o SubSeq(q, i + 1, Len(q))

Numbers(q) == UNION {q[i].min .. q[i].max - 1 : i \in DOMAIN q}

\* The index where Add stops on its way down, 0 when p is below all intervals.
Place(q, p) == Max({0} \cup {i \in DOMAIN q : q[i].min <= p + 1})

\* An interval extended downwards is not merged with the one below it.
AddMutant(q, p) ==
  LET i == Place(q, p)
  IN  IF i = 0 \/ q[i].max < p THEN InsertAt(q, i + 1, [min |-> p, max |-> p + 1])
      ELSE IF q[i].max = p THEN [q EXCEPT ![i].max = p + 1]
      ELSE IF q[i].min = p + 1 THEN [q EXCEPT ![i].min = p]
      ELSE q

Add(q, p) ==
  LET i == Place(q, p)
  IN  IF i = 0 \/ q[i].max < p THEN InsertAt(q, i + 1, [min |-> p, max |-> p + 1])
      ELSE IF q[i].max = p THEN [q EXCEPT ![i].max = p + 1]
      ELSE IF q[i].min # p + 1 THEN q
      ELSE IF i > 1 /\ q[i-1].max = p
        THEN RemoveAt([q EXCEPT ![i-1].max = q[i].max], i)
      ELSE [q EXCEPT ![i].min = p]

RemoveUpTo(q, higher) ==
  LET stays == {i \in DOMAIN q : q[i].max >= higher}
      i     == Min(stays)
  IN  IF stays = {} THEN <<>>
      ELSE IF q[i].min >= higher THEN SubSeq(q, i, Len(q))
      ELSE IF q[i].max = higher THEN SubSeq(q, i + 1, Len(q))
      ELSE SubSeq([q EXCEPT ![i].min = higher], i, Len(q))
-----------------------------------------------------------------------------
(* MyQuicFramer *)

\* A gap is written as one block, whatever does not fit the byte is cut off.
GapBlocksMutant(q, i) ==
  LET total_gap == q[i+1].min - q[i].max
  IN  <<[gap |-> total_gap % (MaxGap + 1), length |-> q[i].max - q[i].min]>>

\* The blocks for q[i] and the gap above it: empty blocks make up a long gap.
GapBlocks(q, i) ==
  LET total_gap == q[i+1].min - q[i].max
      num_encoded_gaps == (total_gap + MaxGap - 1) \div MaxGap
  IN  [n \in 1 .. num_encoded_gaps |->
         IF n < num_encoded_gaps THEN [gap |-> MaxGap, length |-> 0]
         ELSE [gap |-> total_gap - (num_encoded_gaps - 1) * MaxGap,
               length |-> q[i].max - q[i].min]]

\* The blocks of all intervals below the last, from the highest down.
AckBlocks(q) ==
  LET written[i \in 1 .. Len(q)] ==
        IF i = Len(q) THEN <<>> ELSE written[i+1] \o GapBlocks(q, i)
  IN  written[1]

\* AppendAckFrameAndTypeByte with GetAckFrameInfo, for a queue that is not empty;
\* the blocks over the limit are dropped.
AppendAckFrame(q, largest_acked) ==
  LET blocks == AckBlocks(q)
  IN  [largest_acked |-> largest_acked,
       first_block_length |-> q[Len(q)].max - q[Len(q)].min,
       blocks |-> IF Len(blocks) > MaxBlocks THEN SubSeq(blocks, 1, MaxBlocks) ELSE blocks]

BlockLength(f, n) == IF n = 0 THEN f.first_block_length ELSE f.blocks[n].length

\* first_received after each block is read.
FirstReceived(f) ==
  LET first_received[n \in 0 .. Len(f.blocks)] ==
        IF n = 0 THEN f.largest_acked + 1 - f.first_block_length
        ELSE first_received[n-1] - (f.blocks[n].gap + f.blocks[n].length)
  IN  first_received

\* The ranges ProcessAckFrame reads; it calls OnAckRange for those that are not
\* empty, and for the last one with last_range set.
ProcessAckFrame(f) ==
  LET first_received == FirstReceived(f)
  IN  [n \in 0 .. Len(f.blocks) |->
         [start |-> first_received[n], end |-> first_received[n] + BlockLength(f, n)]]

LastRangeSeen(f) == BlockLength(f, Len(f.blocks)) # 0
-----------------------------------------------------------------------------
(* QuicSentPacketManager::OnAckRange *)

Descending(from, end) == [i \in 1 .. Max({0, end - from}) |-> end - i]

\* What the interval at the iterator covers is not passed over.
PassMutant(q, start, s) ==
  LET acked == s.acked \o Descending(start, s.end)
      end   == Min({s.end, q[s.iter].min})
  IN  IF s.iter = 0 \/ start > q[s.iter].min THEN [s EXCEPT !.acked = acked, !.more = FALSE]
      ELSE [iter |-> s.iter - 1, end |-> end, acked |-> acked, more |-> start < end]

\* The body of the loop, acked_packets_iter_ being s.iter (0 at rend) and
\* packets_acked_ being s.acked.
Pass(q, start, s) ==
  LET newly_acked_start == IF s.iter = 0 THEN start ELSE Max({start, q[s.iter].max})
      acked == s.acked \o Descending(newly_acked_start, s.end)
      end   == Min({s.end, q[s.iter].min})
  IN  IF s.iter = 0 \/ start > q[s.iter].min THEN [s EXCEPT !.acked = acked, !.more = FALSE]
      ELSE [iter |-> s.iter - 1, end |-> end, acked |-> acked, more |-> start < end]

\* The loop for one range; every pass but the last moves the iterator.
Walk(q, iter, start, end, acked) ==
  LET pass[n \in 0 .. iter + 1] ==
        IF n = 0 THEN [iter |-> iter, end |-> end, acked |-> acked, more |-> TRUE]
        ELSE LET s == pass[n-1] IN IF s.more THEN Pass(q, start, s) ELSE s
  IN  pass[iter + 1]

OnAckRange(q, least_unacked, s, start, end) ==
  IF start = end \/ end <= least_unacked THEN s
  ELSE Walk(q, s.iter, Max({start, least_unacked}), end, s.acked)

\* What a frame adds to packets_acked_: OnAckFrameStart and its OnAckRange calls.
NewlyAcked(q, least_unacked, f) ==
  LET ranges == ProcessAckFrame(f)
      walked[n \in 0 .. Len(f.blocks)] ==
        OnAckRange(q, least_unacked,
                   IF n = 0 THEN [iter |-> Len(q), acked |-> <<>>] ELSE walked[n-1],
                   ranges[n].start, ranges[n].end)
  IN  walked[Len(f.blocks)].acked

\* The packets in ascending order, as OnAckFrameEnd adds them.
AddAll(q, packets) ==
  LET added[n \in 0..MaxSeq] ==
        IF n = 0 THEN q
        ELSE IF n \in packets THEN Add(added[n-1], n) ELSE added[n-1]
  IN  added[MaxSeq]
-----------------------------------------------------------------------------
Init ==
  /\ queue = <<>> /\ largest = 0 /\ peer_least = 0 /\ received = {}
  /\ frames = {}
  /\ prior = <<>> /\ least = 1 /\ pending = {}

\* RecordPacketReceived.
Receive(p) ==
  /\ queue' = Add(queue, p)
  /\ largest' = Max({largest, p})
  /\ received' = received \cup {p}
  /\ UNCHANGED <<peer_least, frames, sender>>

\* DontWaitForPacketsBefore with a number the sender has sent.
StopWaiting(least_unacked) ==
  /\ least_unacked > peer_least
  /\ peer_least' = least_unacked
  /\ queue' = RemoveUpTo(queue, least_unacked)
  /\ received' = {p \in received : p >= least_unacked}
  /\ UNCHANGED <<largest, frames, sender>>

\* An empty frame is rejected when it is read and is left out.
SendAck ==
  /\ queue # <<>>
  /\ frames' = frames \cup {AppendAckFrame(queue, largest)}
  /\ Cardinality(frames') <= MaxFrames
  /\ UNCHANGED <<receiver, sender>>

\* A frame is read; only its last range leads to OnAckFrameEnd, which adds the
\* packets in ascending order and may move least_unacked.
ReadFrame(f, new_least) ==
  LET packets_acked == pending \cup Range(NewlyAcked(prior, least, f))
  IN  /\ frames' = frames \ {f}
      /\ IF LastRangeSeen(f)
           THEN /\ pending' = {}
                /\ least' = new_least
                /\ prior' = RemoveUpTo(AddAll(prior, packets_acked), new_least)
           ELSE /\ pending' = packets_acked
                /\ UNCHANGED <<prior, least>>
      /\ UNCHANGED receiver

\* Sending a retransmission may move least_unacked as well.
Retransmit(new_least) ==
  /\ least' = new_least
  /\ UNCHANGED <<receiver, frames, prior, pending>>

Next ==
  \/ \E p \in 1..MaxSeq : Receive(p)
  \/ \E n \in 1..least : StopWaiting(n)
  \/ SendAck
  \/ \E f \in frames, n \in least .. MaxSeq+1 : ReadFrame(f, n)
  \/ \E n \in least .. MaxSeq+1 : Retransmit(n)

Spec == Init /\ [][Next]_vars
-----------------------------------------------------------------------------
Canonical(q) ==
  /\ \A i \in DOMAIN q : q[i].min < q[i].max
  /\ \A i \in 1 .. Len(q) - 1 : q[i].max < q[i+1].min

ReadNumbers(f) ==
  LET ranges == ProcessAckFrame(f)
  IN  UNION {ranges[n].start .. ranges[n].end - 1 : n \in DOMAIN ranges}

\* In whatever order numbers come and go, the queues stay ascending, with a gap
\* between any two intervals, and the receiver's holds what was added to it and
\* not removed.
QueueExact == Canonical(queue) /\ Canonical(prior) /\ Numbers(queue) = received

\* No block of the frame for the queue underflows where it is read.  The frame
\* reads as the numbers of the queue from some number up, each as much higher as
\* largest_acked is above the last number; when the blocks suffice it reads as
\* all of them and OnAckRange is called with last_range.
FrameExact ==
  queue # <<>> =>
    LET f     == AppendAckFrame(queue, largest)
        read  == ReadNumbers(f)
        meant == {p + largest - Max(received) : p \in received}
    IN  /\ \A n \in 0 .. Len(f.blocks) : FirstReceived(f)[n] >= 0
        /\ read = {p \in meant : p >= Min(read)}
        /\ Len(AckBlocks(queue)) <= MaxBlocks => read = meant /\ LastRangeSeen(f)

\* A frame, however old, adds to packets_acked_ each number it names that is not
\* below least_unacked and not acked before, once and in descending order.
WalkExact ==
  \A f \in frames :
    LET acked == NewlyAcked(prior, least, f)
    IN  /\ Range(acked) = {p \in ReadNumbers(f) : p >= least} \ Numbers(prior)
        /\ \A i, j \in DOMAIN acked : i < j => acked[i] > acked[j]
=============================================================================
