---------------------------- MODULE ReceiverLoop ----------------------------
(***************************************************************************)
(* One NsQuicReceiver.  Its network may lose and reorder the packets and   *)
(* the stop waiting frames of the sender; a packet number is used once, as *)
(* the sender never reuses one.                                            *)
(***************************************************************************)
EXTENDS NsQuicReceiver

CONSTANT MaxSeq             \* bound: the largest packet number

ASSUME LoopAssumption == MaxSeq \in Nat

VARIABLES
  rcv,        \* the receiver
  got,        \* the packet numbers that have been received
  reported,   \* the packet numbers that were in the packets of a sent ack frame
  losses      \* how often RecordLoss has been called with each number

vars == <<rcv, got, reported, losses>>

Init ==
  /\ rcv = ReceiverInit
  /\ got = {} /\ reported = {}
  /\ losses = [n \in 1..MaxSeq |-> 0]

\* OnIncomingData with a data packet.
OnStream(seq, beats) ==
  LET counted == CountPacket(rcv, seq)
  IN  /\ rcv.running
      /\ seq \notin got
      /\ rcv' = MaybeSendAck(counted, beats)
      /\ got' = got \cup {seq}
      /\ reported' = IF ShouldSend(counted) THEN reported \cup counted.packets ELSE reported
      /\ losses' = [n \in 1..MaxSeq |->
                      IF n \in Skipped(rcv, seq) THEN losses[n] + 1 ELSE losses[n]]

\* OnIncomingData with a stop waiting frame.
OnStopWaiting(least_unacked) ==
  /\ rcv.running
  /\ rcv' = DontWaitForPacketsBefore(rcv, least_unacked)
  /\ UNCHANGED <<got, reported, losses>>

HeartBeat ==
  /\ rcv.running
  /\ rcv' = Beat(rcv)
  /\ reported' = IF AlarmExpires(rcv) THEN reported \cup rcv.packets ELSE reported
  /\ UNCHANGED <<got, losses>>

StopApplication ==
  /\ rcv.running
  /\ rcv' = [rcv EXCEPT !.running = FALSE]
  /\ UNCHANGED <<got, reported, losses>>

Next ==
  \/ \E seq \in 1..MaxSeq, beats \in Beats : OnStream(seq, beats)
  \/ \E least \in 1..MaxSeq+1 : OnStopWaiting(least)
  \/ HeartBeat
  \/ StopApplication

\* The simulator runs every heartbeat it has scheduled.
Spec == Init /\ [][Next]_vars /\ WF_vars(HeartBeat)
-----------------------------------------------------------------------------
\* The values of the receiver's members.
TypeOK ==
  /\ rcv \in [running: BOOLEAN, packets: SUBSET (1..MaxSeq), largest_acked: 0..MaxSeq,
              peer_least: 0..MaxSeq+1, base_seq: 0..MaxSeq,
              since_ack: 0..MaxRetransmittablePacketsBeforeAck-1,
              received: 0..MinReceivedBeforeAckDecimation, alarm: 0..AckDelay+1]
  /\ got \subseteq 1..MaxSeq /\ reported \subseteq got
  /\ losses \in [1..MaxSeq -> Nat]

\* The packets received that no ack has reported and the sender may wait for.
Unreported == {p \in got \ reported : p >= rcv.peer_least}

\* MaybeSendAck: while a received packet waits for its ack the alarm is set,
\* although SendAck leaves the alarm alone and the stop waiting frames take
\* packets away.
WaitingHasAlarm == Unreported # {} => rcv.alarm > 0 /\ rcv.since_ack > 0

\* RecordLoss is called once for each number that was skipped when a later one
\* came, whatever the order of arrival: each number up to base_seq_ was
\* received or reported lost, none was reported lost twice, and none above.
LossesExact ==
  \A n \in 1..MaxSeq :
    /\ losses[n] <= 1
    /\ n <= rcv.base_seq <=> (n \in got \/ losses[n] = 1)

\* The loss trace never names a packet that has already been received.
NoLossAfterReceipt ==
  [][\A n \in got : losses'[n] = losses[n]]_vars

\* Every packet received is reported in an ack, unless the sender gives it up
\* or the application stops: the delayed ack is always sent.
EventuallyReported ==
  \A p \in 1..MaxSeq :
    p \in got ~> (p \in reported \/ p < rcv.peer_least \/ ~rcv.running)
=============================================================================
