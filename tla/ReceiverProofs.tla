--------------------------- MODULE ReceiverProofs ---------------------------
(***************************************************************************)
(* The safety of ReceiverLoop for every bound on the packet numbers, every *)
(* ack delay and every decimation of the acks.  What makes WaitingHasAlarm *)
(* inductive is QueueComplete: an ack frame carries everything that waits, *)
(* so an ack that is sent leaves nothing waiting, alarm or not.            *)
(***************************************************************************)
EXTENDS ReceiverLoop, TLAPS

Receivers ==
  [running: BOOLEAN, packets: SUBSET (1..MaxSeq), largest_acked: 0..MaxSeq,
   peer_least: 0..MaxSeq+1, base_seq: 0..MaxSeq,
   since_ack: 0..MaxRetransmittablePacketsBeforeAck-1,
   received: 0..MinReceivedBeforeAckDecimation, alarm: 0..AckDelay+1]

\* The same before MaybeSendAck has looked at the count.
Counting ==
  [running: BOOLEAN, packets: SUBSET (1..MaxSeq), largest_acked: 0..MaxSeq,
   peer_least: 0..MaxSeq+1, base_seq: 0..MaxSeq,
   since_ack: 0..MaxRetransmittablePacketsBeforeAck,
   received: 0..MinReceivedBeforeAckDecimation, alarm: 0..AckDelay+1]

\* The queue has only packets received, and all those the sender may wait for.
QueueComplete ==
  /\ rcv.packets \subseteq got
  /\ {p \in got : p >= rcv.peer_least} \subseteq rcv.packets

IInv == TypeOK /\ WaitingHasAlarm /\ LossesExact /\ QueueComplete

\* CountPacket's result, and what MaybeSendAck makes of it.
Counted(r, seq, c) ==
  /\ c.running = r.running /\ c.packets = r.packets \cup {seq}
  /\ c.largest_acked \in 0..MaxSeq /\ c.peer_least = r.peer_least
  /\ c.base_seq = (IF seq > r.base_seq THEN seq ELSE r.base_seq)
  /\ c.since_ack = r.since_ack + 1
  /\ c.received \in 0..MinReceivedBeforeAckDecimation
  /\ c.alarm = r.alarm

(***************************************************************************)
(* CountPacket queues the packet, raises base_seq_ to it and counts it; it *)
(* leaves the alarm and the sender's least number alone.                   *)
(***************************************************************************)
LEMMA CountPacketResult ==
  ASSUME NEW r \in Receivers, NEW seq \in 1..MaxSeq
  PROVE  Counted(r, seq, CountPacket(r, seq))
BY ReceiverAssumption, LoopAssumption DEF Counted, CountPacket, RecordPacketReceived, Receivers

(***************************************************************************)
(* MaybeSendAck after CountPacket keeps the members in their types: the    *)
(* count of packets since the last ack stays below the decimation limit.   *)
(***************************************************************************)
LEMMA MaybeSendAckType ==
  ASSUME NEW r \in Receivers, NEW seq \in 1..MaxSeq, NEW beats \in Beats
  PROVE  MaybeSendAck(CountPacket(r, seq), beats) \in Receivers
<1> USE ReceiverAssumption, LoopAssumption
<1> DEFINE recorded == RecordPacketReceived(r, seq)
           c        == CountPacket(r, seq)
<1>1. recorded \in Receivers
  <2> DEFINE packets == r.packets \cup {seq}
             largest == IF seq > r.largest_acked THEN seq ELSE r.largest_acked
  <2>1. recorded = [r EXCEPT !.packets = packets, !.largest_acked = largest]
    BY DEF RecordPacketReceived
  <2>2. packets \in SUBSET (1..MaxSeq) /\ largest \in 0..MaxSeq
    BY DEF Receivers
  <2> HIDE DEF recorded, packets, largest
  <2>3. QED
    BY <2>1, <2>2, ZenonT(60) DEF Receivers
<1>2. c \in Counting
  <2> DEFINE base     == IF seq >= recorded.base_seq + 1 THEN seq ELSE recorded.base_seq
             since    == recorded.since_ack + 1
             received == IF recorded.received < MinReceivedBeforeAckDecimation
                           THEN recorded.received + 1 ELSE recorded.received
  <2>1. c = [recorded EXCEPT !.base_seq = base, !.since_ack = since, !.received = received]
    BY DEF CountPacket
  <2> HIDE DEF recorded, c
  <2>2. /\ base \in 0..MaxSeq /\ since \in 0..MaxRetransmittablePacketsBeforeAck
        /\ received \in 0..MinReceivedBeforeAckDecimation
    BY <1>1 DEF Receivers
  <2> HIDE DEF base, since, received
  <2>3. QED
    BY <1>1, <2>1, <2>2, ZenonT(60) DEF Receivers, Counting
<1> SUFFICES MaybeSendAck(c, beats) \in Receivers
  OBVIOUS
<1> HIDE DEF c
<1>3. CASE ShouldSend(c)
  <2>1. MaybeSendAck(c, beats) = [c EXCEPT !.since_ack = 0]
    BY <1>3 DEF MaybeSendAck, SendAck
  <2>2. 0 \in 0..MaxRetransmittablePacketsBeforeAck-1
    OBVIOUS
  <2>3. QED
    BY <1>2, <2>1, <2>2, ZenonT(60) DEF Counting, Receivers
<1>4. CASE ~ShouldSend(c)
  <2>1. c.since_ack \in 0..MaxRetransmittablePacketsBeforeAck-1
    BY <1>2, <1>4 DEF ShouldSend, Counting
  <2>2. c \in Receivers
    BY <1>2, <2>1 DEF Counting, Receivers
  <2>3. beats \in 0..AckDelay+1
    BY DEF Beats
  <2>4. [c EXCEPT !.alarm = beats] \in Receivers
    BY <2>2, <2>3, ZenonT(60) DEF Receivers
  <2>5. QED
    BY <1>4, <2>2, <2>4 DEF MaybeSendAck
<1>5. QED
  BY <1>3, <1>4

(***************************************************************************)
(* The receiver of a fresh application satisfies the invariant.            *)
(***************************************************************************)
LEMMA InitIInv == Init => IInv
BY ReceiverAssumption, LoopAssumption
   DEF Init, ReceiverInit, IInv, TypeOK, WaitingHasAlarm, Unreported, LossesExact, QueueComplete

(***************************************************************************)
(* A data packet, in whatever order it comes, preserves the invariant.     *)
(***************************************************************************)
LEMMA OnStreamIInv ==
  ASSUME IInv, NEW seq \in 1..MaxSeq, NEW beats \in Beats, OnStream(seq, beats)
  PROVE  IInv'
<1> DEFINE c == CountPacket(rcv, seq)
<1>1. rcv \in Receivers /\ got \subseteq 1..MaxSeq /\ reported \subseteq got
      /\ losses \in [1..MaxSeq -> Nat]
  BY DEF IInv, TypeOK, Receivers
<1>2. Counted(rcv, seq, c)
  BY <1>1, CountPacketResult
<1>3. /\ rcv' = MaybeSendAck(c, beats)
      /\ got' = got \cup {seq}
      /\ reported' = IF ShouldSend(c) THEN reported \cup c.packets ELSE reported
      /\ losses' = [n \in 1..MaxSeq |->
                      IF n \in Skipped(rcv, seq) THEN losses[n] + 1 ELSE losses[n]]
      /\ seq \notin got
  BY DEF OnStream
<1>4. rcv' \in Receivers
  BY <1>1, <1>3, MaybeSendAckType
<1>5. DOMAIN c = {"running", "packets", "largest_acked", "peer_least", "base_seq",
                  "since_ack", "received", "alarm"}
  BY <1>1 DEF CountPacket, RecordPacketReceived, Receivers
<1> HIDE DEF c
<1>6. /\ rcv'.packets = c.packets /\ rcv'.peer_least = c.peer_least
      /\ rcv'.base_seq = c.base_seq
      /\ ShouldSend(c) \/ (rcv'.alarm > 0 /\ rcv'.since_ack = c.since_ack)
  <2>1. rcv' = MaybeSendAck(c, beats)
    BY <1>3
  <2>2. c.alarm \in Nat /\ beats \in Nat /\ beats > 0
    <3>1. c.alarm = rcv.alarm
      BY <1>2 DEF Counted
    <3>2. rcv.alarm \in 0..AckDelay+1
      BY <1>1 DEF Receivers
    <3>3. beats = AckDelay \/ beats = AckDelay+1
      BY DEF Beats
    <3>4. QED
      BY <3>1, <3>2, <3>3, ReceiverAssumption
  <2>3. CASE ShouldSend(c)
    BY <1>5, <2>1, <2>3 DEF MaybeSendAck, SendAck
  <2>4. CASE ~ShouldSend(c) /\ c.alarm = 0
    BY <1>5, <2>1, <2>2, <2>4 DEF MaybeSendAck
  <2>5. CASE ~ShouldSend(c) /\ c.alarm # 0
    BY <2>1, <2>2, <2>5 DEF MaybeSendAck
  <2>6. QED
    BY <2>3, <2>4, <2>5
<1>7. c.packets \subseteq got \cup {seq}
  BY <1>1, <1>2 DEF Counted, IInv, QueueComplete
<1>8. TypeOK'
  <2>1. got' \subseteq 1..MaxSeq /\ reported' \subseteq got'
    BY <1>1, <1>3, <1>7
  <2>2. losses' \in [1..MaxSeq -> Nat]
    BY <1>1, <1>3
  <2>3. QED
    BY <1>4, <2>1, <2>2 DEF TypeOK, Receivers
<1>9. QueueComplete'
  BY <1>2, <1>3, <1>6, <1>7 DEF QueueComplete, IInv, Counted
<1>10. WaitingHasAlarm'
  BY <1>1, <1>2, <1>3, <1>6, <1>9, ReceiverAssumption
     DEF WaitingHasAlarm, Unreported, QueueComplete, Counted, Receivers
<1>11. LossesExact'
  <2> SUFFICES ASSUME NEW n \in 1..MaxSeq
               PROVE  /\ losses'[n] <= 1
                      /\ n <= rcv'.base_seq <=> (n \in got' \/ losses'[n] = 1)
    BY DEF LossesExact
  <2>1. /\ losses[n] \in Nat /\ losses[n] <= 1 /\ rcv.base_seq \in 0..MaxSeq
        /\ n <= rcv.base_seq <=> (n \in got \/ losses[n] = 1)
    BY <1>1 DEF IInv, LossesExact, Receivers
  <2>2. losses'[n] = IF n \in rcv.base_seq + 1 .. seq - 1 THEN losses[n] + 1 ELSE losses[n]
    BY <1>3 DEF Skipped
  <2>3. rcv'.base_seq = IF seq > rcv.base_seq THEN seq ELSE rcv.base_seq
    BY <1>2, <1>6 DEF Counted
  <2>4. n \in Nat /\ seq \in Nat /\ rcv.base_seq \in Nat
    BY <2>1
  <2>5. seq \notin got /\ got' = got \cup {seq}
    BY <1>3
  <2>6. losses'[n] = 1 <=> losses[n] = 1 \/ n \in rcv.base_seq + 1 .. seq - 1
    BY <2>1, <2>2, <2>4
  <2>7. losses'[n] <= 1
    BY <2>1, <2>2, <2>4
  <2>8. n <= rcv'.base_seq <=> (n \in got' \/ losses'[n] = 1)
    <3>1. n <= rcv'.base_seq <=> n <= rcv.base_seq \/ n <= seq
      BY <2>3, <2>4
    <3>2. n <= seq <=> n = seq \/ (n <= rcv.base_seq /\ n <= seq) \/ n \in rcv.base_seq + 1 .. seq - 1
      BY <2>4
    <3>3. n \in rcv.base_seq + 1 .. seq - 1 => n <= seq
      BY <2>4
    <3>4. QED
      BY <2>1, <2>5, <2>6, <3>1, <3>2, <3>3
  <2>9. QED
    BY <2>7, <2>8
<1>12. QED
  BY <1>8, <1>9, <1>10, <1>11 DEF IInv

(***************************************************************************)
(* A stop waiting frame, a heartbeat and the end of the application        *)
(* preserve the invariant: the packets a frame takes away no longer wait.  *)
(***************************************************************************)
LEMMA OtherStepsIInv ==
  ASSUME IInv,
         \/ \E least \in 1..MaxSeq+1 : OnStopWaiting(least)
         \/ HeartBeat
         \/ StopApplication
  PROVE  IInv'
<1> USE ReceiverAssumption, LoopAssumption
<1>1. rcv \in Receivers /\ got \subseteq 1..MaxSeq /\ reported \subseteq got
      /\ losses \in [1..MaxSeq -> Nat]
  BY DEF IInv, TypeOK, Receivers
<1>2. ASSUME NEW least \in 1..MaxSeq+1, OnStopWaiting(least) PROVE IInv'
  <2> DEFINE kept == {p \in rcv.packets : p >= least}
  <2>1. UNCHANGED <<got, reported, losses>> /\ rcv' = DontWaitForPacketsBefore(rcv, least)
    BY <1>2 DEF OnStopWaiting
  <2>2. CASE ~(least > rcv.peer_least)
    <3>1. rcv' = rcv
      BY <2>1, <2>2 DEF DontWaitForPacketsBefore
    <3>2. QED
      BY <2>1, <3>1 DEF IInv, TypeOK, WaitingHasAlarm, Unreported, LossesExact, QueueComplete
  <2>3. CASE least > rcv.peer_least
    <3>1. rcv' = [rcv EXCEPT !.peer_least = least, !.packets = kept]
      BY <2>1, <2>3 DEF DontWaitForPacketsBefore
    <3>2. kept \in SUBSET (1..MaxSeq) /\ kept \subseteq rcv.packets /\ least \in 0..MaxSeq+1
      BY <1>1 DEF Receivers
    <3>3. /\ rcv'.peer_least = least /\ rcv'.packets = kept /\ rcv'.alarm = rcv.alarm
          /\ rcv'.since_ack = rcv.since_ack /\ rcv'.base_seq = rcv.base_seq
      BY <1>1, <3>1 DEF Receivers
    <3>4. QueueComplete' /\ WaitingHasAlarm'
      <4>1. rcv.peer_least \in Nat /\ least \in Nat
        BY <1>1 DEF Receivers
      <4>2. \A p \in got : p \in Nat /\ (p >= least => p >= rcv.peer_least)
        BY <1>1, <2>3, <4>1
      <4>3. Unreported' \subseteq Unreported
        BY <2>1, <3>3, <4>2 DEF Unreported
      <4>4. QueueComplete'
        BY <2>1, <3>3, <4>2 DEF IInv, QueueComplete
      <4>5. QED
        BY <2>1, <3>3, <4>3, <4>4 DEF IInv, WaitingHasAlarm
    <3>5. LossesExact'
      BY <2>1, <3>3 DEF IInv, LossesExact
    <3> HIDE DEF kept
    <3>6. rcv' \in Receivers
      BY <1>1, <3>1, <3>2, ZenonT(60) DEF Receivers
    <3>7. QED
      BY <1>1, <2>1, <3>4, <3>5, <3>6 DEF IInv, TypeOK, Receivers
  <2>4. QED
    BY <2>2, <2>3
<1>3. ASSUME HeartBeat PROVE IInv'
  <2>1. /\ UNCHANGED <<got, losses>> /\ rcv' = Beat(rcv)
        /\ reported' = IF rcv.alarm = 1 THEN reported \cup rcv.packets ELSE reported
    BY <1>3 DEF HeartBeat, AlarmExpires
  <2>2. CASE rcv.alarm = 1
    <3> DEFINE cleared == [rcv EXCEPT !.alarm = 0]
    <3>1. rcv' = [cleared EXCEPT !.since_ack = 0]
      BY <2>1, <2>2 DEF Beat, AlarmExpires, SendAck
    <3>2. /\ rcv'.packets = rcv.packets /\ rcv'.peer_least = rcv.peer_least
          /\ rcv'.base_seq = rcv.base_seq
      BY <1>1, <3>1 DEF Receivers
    <3>3. 0 \in 0..AckDelay+1 /\ 0 \in 0..MaxRetransmittablePacketsBeforeAck-1
      OBVIOUS
    <3>4. cleared \in Receivers
      BY <1>1, <3>3, ZenonT(60) DEF Receivers
    <3> HIDE DEF cleared
    <3>5. rcv' \in Receivers
      BY <3>1, <3>3, <3>4, ZenonT(60) DEF Receivers
    <3>6. reported' \subseteq got' /\ QueueComplete'
      BY <1>1, <2>1, <2>2, <3>2 DEF IInv, QueueComplete
    <3>7. WaitingHasAlarm'
      BY <2>1, <2>2, <3>2 DEF IInv, QueueComplete, WaitingHasAlarm, Unreported
    <3>8. LossesExact'
      BY <2>1, <3>2 DEF IInv, LossesExact
    <3>9. QED
      BY <1>1, <2>1, <3>5, <3>6, <3>7, <3>8 DEF IInv, TypeOK, Receivers
  <2>3. CASE rcv.alarm # 1
    <3> DEFINE left == IF rcv.alarm > 0 THEN rcv.alarm - 1 ELSE rcv.alarm
    <3>1. rcv' = [rcv EXCEPT !.alarm = left]
      BY <1>1, <2>1, <2>3 DEF Beat, AlarmExpires, Receivers
    <3>2. left \in 0..AckDelay+1 /\ (rcv.alarm > 0 => left > 0)
      <4>1. rcv.alarm \in 0..AckDelay+1
        BY <1>1 DEF Receivers
      <4>2. QED
        BY <2>3, <4>1, ReceiverAssumption
    <3> HIDE DEF left
    <3>3. /\ rcv'.packets = rcv.packets /\ rcv'.peer_least = rcv.peer_least
          /\ rcv'.base_seq = rcv.base_seq /\ rcv'.since_ack = rcv.since_ack
          /\ rcv'.alarm = left
      BY <1>1, <3>1 DEF Receivers
    <3>4. rcv' \in Receivers
      BY <1>1, <3>1, <3>2, ZenonT(60) DEF Receivers
    <3>5. WaitingHasAlarm' /\ QueueComplete'
      BY <2>1, <2>3, <3>2, <3>3 DEF IInv, QueueComplete, WaitingHasAlarm, Unreported
    <3>6. LossesExact'
      BY <2>1, <3>3 DEF IInv, LossesExact
    <3>7. QED
      BY <1>1, <2>1, <2>3, <3>4, <3>5, <3>6 DEF IInv, TypeOK, Receivers
  <2>4. QED
    BY <2>2, <2>3
<1>4. ASSUME StopApplication PROVE IInv'
  <2>1. UNCHANGED <<got, reported, losses>> /\ rcv' = [rcv EXCEPT !.running = FALSE]
    BY <1>4 DEF StopApplication
  <2>2. /\ rcv'.packets = rcv.packets /\ rcv'.peer_least = rcv.peer_least
        /\ rcv'.base_seq = rcv.base_seq /\ rcv'.since_ack = rcv.since_ack
        /\ rcv'.alarm = rcv.alarm
    BY <1>1, <2>1 DEF Receivers
  <2>3. rcv' \in Receivers
    BY <1>1, <2>1, ZenonT(60) DEF Receivers
  <2>4. QED
    BY <1>1, <2>1, <2>2, <2>3
       DEF IInv, TypeOK, Receivers, QueueComplete, WaitingHasAlarm, Unreported, LossesExact
<1>5. QED
  BY <1>2, <1>3, <1>4

(***************************************************************************)
(* The inductive invariant.                                                *)
(***************************************************************************)
LEMMA NextIInv == IInv /\ [Next]_vars => IInv'
<1> SUFFICES ASSUME IInv, [Next]_vars PROVE IInv'
  OBVIOUS
<1>1. CASE UNCHANGED vars
  BY <1>1 DEF vars, IInv, TypeOK, QueueComplete, WaitingHasAlarm, Unreported, LossesExact
<1>2. CASE Next
  BY <1>2, OnStreamIInv, OtherStepsIInv DEF Next
<1>3. QED
  BY <1>1, <1>2

(***************************************************************************)
(* The receiver in use: its members keep their types, what waits for an    *)
(* ack has the alarm of MaybeSendAck set, and the calls of RecordLoss are  *)
(* exactly the numbers that were skipped.                                  *)
(***************************************************************************)
THEOREM ReceiverSafe == Spec => [](TypeOK /\ WaitingHasAlarm /\ LossesExact)
<1>1. IInv => TypeOK /\ WaitingHasAlarm /\ LossesExact
  BY DEF IInv
<1>2. QED
  BY InitIInv, NextIInv, <1>1, PTL DEF Spec

(***************************************************************************)
(* RecordLoss is never called with a number that was received before.      *)
(***************************************************************************)
THEOREM LossesBeforeReceipt == Spec => NoLossAfterReceipt
<1>1. IInv /\ [Next]_vars => [\A n \in got : losses'[n] = losses[n]]_vars
  <2> SUFFICES ASSUME IInv, Next, NEW n \in got PROVE losses'[n] = losses[n]
    BY DEF vars
  <2>1. CASE UNCHANGED losses
    BY <2>1
  <2>2. ASSUME NEW seq \in 1..MaxSeq, NEW beats \in Beats, OnStream(seq, beats)
        PROVE  losses'[n] = losses[n]
    <3>1. n \in 1..MaxSeq /\ n <= rcv.base_seq /\ rcv.base_seq \in 0..MaxSeq
      BY DEF IInv, TypeOK, LossesExact
    <3>2. n \notin Skipped(rcv, seq)
      BY <3>1, LoopAssumption DEF Skipped
    <3>3. QED
      BY <2>2, <3>1, <3>2 DEF OnStream
  <2>3. QED
    BY <2>1, <2>2 DEF Next, OnStopWaiting, HeartBeat, StopApplication
<1>2. QED
  BY InitIInv, NextIInv, <1>1, PTL DEF Spec, NoLossAfterReceipt
=============================================================================
