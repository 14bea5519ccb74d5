--------------------------- MODULE NsQuicReceiver ---------------------------
(***************************************************************************)
(* NsQuicReceiver (quic/model/ns_quic_receiver.{h,cc}) with the ack alarm  *)
(* and the received packet manager it owns, as operators from the record r *)
(* of the receiver's members to its next value.  ReceiverLoop drives one   *)
(* receiver; QuicTransfer composes it with a sender and a network.         *)
(*                                                                         *)
(* Time is counted in heartbeats.  The alarm holds the heartbeats left     *)
(* until it is expired, 0 when it is not set: a deadline ack_delay after a *)
(* packet that comes between two heartbeats is reached one beat later than *)
(* one that comes with a heartbeat.  ack_frame_updated_ is left out, it is *)
(* only read where RecordPacketReceived has just set it.  A packet number  *)
(* queue is the set of its numbers (AckFrame checks its intervals).        *)
(***************************************************************************)
EXTENDS Integers, FiniteSets, FiniteSetsExt

CONSTANTS
  MinReceivedBeforeAckDecimation,    \* packets that are acked one by one
  MaxRetransmittablePacketsBeforeAck,
  AckDelay                           \* ack_delay, in heartbeats

ASSUME ReceiverAssumption ==
  /\ MinReceivedBeforeAckDecimation \in Nat
  /\ MaxRetransmittablePacketsBeforeAck \in Nat \ {0}
  /\ AckDelay \in Nat \ {0}

ReceiverInit ==
  [running |-> TRUE, packets |-> {}, largest_acked |-> 0, peer_least |-> 0,
   base_seq |-> 0, since_ack |-> 0, received |-> 0, alarm |-> 0]

Beats == {AckDelay, AckDelay + 1}

\* RecordPacketReceived.
RecordPacketReceived(r, seq) ==
  [r EXCEPT !.packets = @ \cup {seq},
            !.largest_acked = IF seq > @ THEN seq ELSE @]

\* Only the first of the numbers skipped is reported.
SkippedMutant(r, seq) == {n \in {r.base_seq + 1} : n < seq}

\* The numbers RecordLoss is called with when seq comes.
Skipped(r, seq) == r.base_seq + 1 .. seq - 1

\* The packets that were skipped count as received.
CumulativeMutant(r, seq) ==
  [RecordPacketReceived(r, seq) EXCEPT
     !.packets = @ \cup (r.base_seq + 1 .. seq),
     !.base_seq = IF seq >= @ + 1 THEN seq ELSE @,
     !.since_ack = @ + 1,
     !.received = IF @ < MinReceivedBeforeAckDecimation THEN @ + 1 ELSE @]

\* A late packet moves base_seq_ back.
CountPacketMutant(r, seq) ==
  [RecordPacketReceived(r, seq) EXCEPT
     !.base_seq = seq,
     !.since_ack = @ + 1,
     !.received = IF @ < MinReceivedBeforeAckDecimation THEN @ + 1 ELSE @]

\* What a data packet changes before an ack is considered; received_ is only
\* compared with the threshold and stops there.
CountPacket(r, seq) ==
  [RecordPacketReceived(r, seq) EXCEPT
     !.base_seq = IF seq >= @ + 1 THEN seq ELSE @,
     !.since_ack = @ + 1,
     !.received = IF @ < MinReceivedBeforeAckDecimation THEN @ + 1 ELSE @]

ShouldSend(r) ==
  \/ r.received < MinReceivedBeforeAckDecimation
  \/ r.since_ack >= MaxRetransmittablePacketsBeforeAck

\* The count is not reset.
SendAckMutant(r) == r

\* SendAck; the alarm is left as it is.
SendAck(r) == [r EXCEPT !.since_ack = 0]

\* The alarm is not set.
MaybeSendAckMutant(r, beats) == IF ShouldSend(r) THEN SendAck(r) ELSE r

MaybeSendAck(r, beats) ==
  IF ShouldSend(r) THEN SendAck(r)
  ELSE IF r.alarm = 0 THEN [r EXCEPT !.alarm = beats]
  ELSE r

\* The alarm is cancelled with the packets that go.
DontWaitMutant(r, least_unacked) ==
  IF least_unacked > r.peer_least
    THEN [r EXCEPT !.peer_least = least_unacked,
                   !.packets = {p \in @ : p >= least_unacked},
                   !.alarm = 0]
    ELSE r

DontWaitForPacketsBefore(r, least_unacked) ==
  IF least_unacked > r.peer_least
    THEN [r EXCEPT !.peer_least = least_unacked,
                   !.packets = {p \in @ : p >= least_unacked}]
    ELSE r

AlarmExpires(r) == r.alarm = 1

\* HeartBeat: IsExpired clears the alarm it finds expired.
Beat(r) ==
  IF AlarmExpires(r) THEN SendAck([r EXCEPT !.alarm = 0])
  ELSE IF r.alarm > 0 THEN [r EXCEPT !.alarm = @ - 1]
  ELSE r

\* What the peer reads from the ack frame of SendAck.  The frame is written
\* downwards from largest_acked, so when that is above the last number of
\* packets every number is read as much higher.  A frame with a largest_acked
\* and no packets is rejected when it is read.
AckedNumbers(r) ==
  IF r.packets = {} THEN {}
  ELSE {p + (r.largest_acked - Max(r.packets)) : p \in r.packets}
=============================================================================
