---------------------------- MODULE NsQuicSender ----------------------------
(***************************************************************************)
(* NsQuicSender (quic/model/ns_quic_sender.{h,cc}), as operators from the  *)
(* record s of its members to its next value.  The congestion window of    *)
(* the send algorithm is an input of every ack that is an event to it.     *)
(* New data is numbered by the packet that first carries it.               *)
(***************************************************************************)
EXTENDS SentPackets

CONSTANTS
  StopWaitingAfter,   \* acks below least_unacked before a stop waiting frame
  Windows,            \* the congestion windows, in packets
  MaxSeq              \* bound: the largest packet number

ASSUME SenderAssumption ==
  /\ StopWaitingAfter \in Nat
  /\ Windows \subseteq Nat /\ IsFiniteSet(Windows)
  /\ MaxSeq \in Nat

SenderInit(window) ==
  [running |-> TRUE, seq |-> 1, stop_waiting_count |-> 0, window |-> window,
   manager |-> ManagerInit]

\* TimeUntilSend returns zero.
CanSend(s) == s.manager.bytes_in_flight < s.window /\ s.seq <= MaxSeq

SendFakePacket(s) ==
  [s EXCEPT !.manager = OnPacketSent(@, s.seq, 0, {s.seq}), !.seq = @ + 1]

\* OnRetransPacket with NextPendingRetransmission.
OnRetransPacket(s) ==
  [s EXCEPT !.manager = OnPacketSent(@, s.seq, Min(@.pending), {}), !.seq = @ + 1]

\* The loop of SendRetransmission: each turn takes one packet from pending.
SendRetransmission(s) ==
  LET turns == Cardinality(s.manager.pending)
      after[n \in 0..turns] ==
        IF n = 0 THEN s
        ELSE LET t == after[n-1]
             IN  IF CanSend(t) /\ t.manager.pending # {} THEN OnRetransPacket(t) ELSE t
  IN  after[turns]

SendsStopWaiting(s) == s.stop_waiting_count > StopWaitingAfter

\* Everything up to the largest acked packet is given up.
StopWaitingNumberMutant(s) == s.manager.largest_acked + 1

\* The number SendStopWaitingFrame sends.
StopWaitingNumber(s) == s.manager.least_unacked

\* HeartBeat after the retransmissions.
StopWaitingAndFreshData(s) ==
  LET t == IF SendsStopWaiting(s) THEN [s EXCEPT !.stop_waiting_count = 0] ELSE s
  IN  IF CanSend(t) THEN SendFakePacket(t) ELSE t

\* OnIncomingData with an ack frame, through OnAckRange of the last range and
\* PostProcessAfterAckFrame.  A frame with no numbers fails before its first
\* range and changes nothing that is modelled.
OnIncomingAck(s, numbers, old, window) ==
  LET m == OnAckFrame(s.manager, numbers, old)
      event == NewlyAcked(s.manager, numbers) # {} \/ m.largest_lost > s.manager.largest_lost
  IN  IF numbers = {} THEN s
      ELSE [s EXCEPT
              !.manager = m,
              !.window = IF event THEN window ELSE @,
              !.stop_waiting_count = IF m.least_unacked > Min(numbers) THEN @ + 1 ELSE 0]
=============================================================================
