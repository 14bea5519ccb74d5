---------------------------- MODULE QuicTransfer ----------------------------
(***************************************************************************)
(* An NsQuicSender and an NsQuicReceiver on a network that reorders and    *)
(* loses packets, as UDP may (the links of quic-test.cc only lose them).   *)
(* The data of a packet is a history of what was sent under each number;   *)
(* the simulated packets carry padding.                                    *)
(***************************************************************************)
EXTENDS NsQuicSender, NsQuicReceiver, Bags

CONSTANT MaxLosses          \* bound: the packets, acks and frames lost

ASSUME TransferAssumption == MaxLosses \in Nat

VARIABLES
  snd,        \* the sender
  rcv,        \* the receiver
  data,       \* packet numbers on their way to the receiver
  stops,      \* stop waiting frames on their way to the receiver
  acks,       \* ack frames on their way to the sender, a bag of sets of numbers
  carried,    \* history: the data sent under each packet number
  got,        \* history: the packet numbers received
  lost        \* the number of losses

vars == <<snd, rcv, data, stops, acks, carried, got, lost>>

Init ==
  /\ snd \in {SenderInit(w) : w \in Windows}
  /\ rcv = ReceiverInit
  /\ data = {} /\ stops = {} /\ acks = EmptyBag
  /\ carried = [p \in {} |-> {}] /\ got = {} /\ lost = 0

\* NsQuicSender::HeartBeat.
SenderBeat ==
  LET resent == SendRetransmission(snd)
      sent   == snd.seq .. snd'.seq - 1
  IN  /\ snd.running
      /\ snd' = StopWaitingAndFreshData(resent)
      /\ data' = data \cup sent
      /\ stops' = IF SendsStopWaiting(resent)
                    THEN stops \cup {StopWaitingNumber(resent)} ELSE stops
      /\ carried' = [p \in 1 .. snd'.seq - 1 |->
                       IF p \in sent THEN snd'.manager.infos[p].frames ELSE carried[p]]
      /\ UNCHANGED <<rcv, acks, got, lost>>

SendsAck(sends, r) == acks' = IF sends THEN acks (+) SetToBag({AckedNumbers(r)}) ELSE acks

\* NsQuicReceiver::OnIncomingData with a data packet.
ReceiveData(p, beats) ==
  LET counted == CountPacket(rcv, p)
  IN  /\ rcv.running /\ p \in data
      /\ rcv' = MaybeSendAck(counted, beats)
      /\ SendsAck(ShouldSend(counted), counted)
      /\ data' = data \ {p}
      /\ got' = got \cup {p}
      /\ UNCHANGED <<snd, stops, carried, lost>>

\* NsQuicReceiver::OnIncomingData with a stop waiting frame.
ReceiveStopWaiting(least) ==
  /\ rcv.running /\ least \in stops
  /\ rcv' = DontWaitForPacketsBefore(rcv, least)
  /\ stops' = stops \ {least}
  /\ UNCHANGED <<snd, data, acks, carried, got, lost>>

\* NsQuicReceiver::HeartBeat.
ReceiverBeat ==
  /\ rcv.running
  /\ rcv' = Beat(rcv)
  /\ SendsAck(AlarmExpires(rcv), rcv)
  /\ UNCHANGED <<snd, data, stops, carried, got, lost>>

\* NsQuicSender::OnIncomingData.
ReceiveAck(numbers, old, window) ==
  /\ snd.running
  /\ snd' = OnIncomingAck(snd, numbers, old, window)
  /\ acks' = acks (-) SetToBag({numbers})
  /\ UNCHANGED <<rcv, data, stops, carried, got, lost>>

Lose ==
  /\ lost < MaxLosses
  /\ lost' = lost + 1
  /\ \/ \E p \in data : data' = data \ {p} /\ UNCHANGED <<stops, acks>>
     \/ \E least \in stops : stops' = stops \ {least} /\ UNCHANGED <<data, acks>>
     \/ \E numbers \in BagToSet(acks) :
          acks' = acks (-) SetToBag({numbers}) /\ UNCHANGED <<data, stops>>
  /\ UNCHANGED <<snd, rcv, carried, got>>

\* NsQuicSender::StopApplication; ReceiverLoop has the receiver's.
StopSender ==
  /\ snd.running
  /\ snd' = [snd EXCEPT !.running = FALSE]
  /\ UNCHANGED <<rcv, data, stops, acks, carried, got, lost>>

ReceiveSomeData == \E p \in data, beats \in Beats : ReceiveData(p, beats)

ReceiveSomeStop == \E least \in stops : ReceiveStopWaiting(least)

\* A time test can tell apart the packets in flight only.
ReceiveSomeAck ==
  \E numbers \in BagToSet(acks), old \in {0} \cup InFlight(snd.manager), window \in Windows :
    ReceiveAck(numbers, old, window)

Next ==
  \/ SenderBeat
  \/ ReceiveSomeData
  \/ ReceiveSomeStop
  \/ ReceiverBeat
  \/ ReceiveSomeAck
  \/ Lose
  \/ StopSender

\* The steps of SenderBeat that send data and those of ReceiveSomeAck, by what
\* only they change: whether such a step is enabled is then cheap to evaluate.
DataSent ==
  /\ snd.running /\ CanSend(snd)
  /\ \E last \in snd.seq .. MaxSeq : data' = data \cup (snd.seq .. last)

AckArrives ==
  /\ snd.running
  /\ \E numbers \in BagToSet(acks) : acks' = acks (-) SetToBag({numbers})
  /\ lost' = lost

\* The simulator runs every heartbeat that is scheduled and delivers every
\* packet the network does not drop.
Fairness ==
  /\ WF_data(DataSent) /\ WF_<<acks, lost>>(AckArrives)
  /\ WF_vars(ReceiverBeat) /\ WF_vars(ReceiveSomeData) /\ WF_vars(ReceiveSomeStop)

SafeSpec == Init /\ [][Next]_vars

Spec == SafeSpec /\ Fairness
-----------------------------------------------------------------------------
manager == snd.manager

Accepted == UNION {carried[p] : p \in DOMAIN carried}

\* The data the sender still keeps for retransmission.
Kept == UNION {manager.infos[p].frames : p \in Tracked(manager)}

\* The values of the members and of the network.
TypeOK ==
  /\ manager.infos \in [Tracked(manager) ->
       [state: {"OUTSTANDING", "ACKED"}, in_flight: BOOLEAN,
        frames: SUBSET (1..MaxSeq), retransmission: 0..MaxSeq]]
  /\ manager.least_unacked \in 1 .. snd.seq /\ manager.largest_sent = snd.seq - 1
  /\ manager.pending \subseteq Tracked(manager)
  /\ manager.largest_acked < snd.seq
  /\ snd.window \in Windows /\ snd.seq \in 1 .. MaxSeq+1 /\ snd.stop_waiting_count \in Nat
  /\ data \subseteq 1 .. snd.seq - 1 /\ stops \subseteq 1 .. snd.seq
  /\ \A numbers \in BagToSet(acks) : numbers \subseteq 1 .. snd.seq - 1

\* NextPendingRetransmission expects a packet that is tracked and has data; the
\* acks of other transmissions of the same data come in between.
PendingHasData ==
  \A p \in manager.pending : ~manager.infos[p].in_flight /\ manager.infos[p].frames # {}

\* A packet whose data was retransmitted has no data left and leads to a later
\* packet that is tracked and has itself not been retransmitted: of the older
\* transmissions only the last is still known.
ChainsShort ==
  \A p \in Tracked(manager) :
    LET next == manager.infos[p].retransmission
    IN  next # 0 => /\ next \in p+1 .. manager.largest_sent
                    /\ manager.infos[p].frames = {}
                    /\ manager.infos[next].retransmission = 0

\* OnAckFrameEnd looks up and acks only packets that are tracked and not yet
\* acked, also when acks come out of order.
AckedOnce ==
  \A numbers \in BagToSet(acks) : \A p \in NewlyAcked(manager, numbers) :
    p \in Tracked(manager) /\ manager.infos[p].state = "OUTSTANDING"

\* DetectLosses skips everything up to largest_lost_: nothing there is in flight
\* and bytes_in_flight_ counts what is.
SkipIsSound ==
  /\ \A p \in InFlight(manager) : p > manager.largest_lost
  /\ manager.bytes_in_flight = Cardinality(InFlight(manager))

\* Whatever was lost, reordered or dropped by a stop waiting frame, an ack
\* frame names no packet the sender still tracks that the receiver has not
\* received.
AcksAreTrue ==
  \A numbers \in BagToSet(acks) : numbers \cap Tracked(manager) \subseteq got

\* The receiver only forgets packets the sender has stopped tracking.
ForgetsOnlySettled ==
  /\ rcv.peer_least <= manager.least_unacked
  /\ \A least \in stops : least <= manager.least_unacked

\* The transfer implements the promise of Delivery, the data the sender has
\* dropped from its packets being settled: it drops none that has not arrived,
\* and never takes up again what it dropped.
Promise == INSTANCE Delivery
  WITH Data <- 1..MaxSeq, accepted <- Accepted,
       arrived <- UNION {carried[p] : p \in got}, settled <- Accepted \ Kept

ImplementsDelivery == Promise!Spec

\* While nothing is lost everything is sent and the acks settle it all, through
\* the delayed acks and whatever is spuriously retransmitted.
EventuallySettled == <>((snd.seq > MaxSeq /\ Kept = {}) \/ lost > 0 \/ ~snd.running)

\* The ack frame says of largest_acked that it is the last of its packets.
LargestIsLast == rcv.packets # {} => rcv.largest_acked = Max(rcv.packets)

\* The packet manager says that the ack of any transmission of some data keeps
\* the data from being retransmitted.
AckSettles ==
  [][\A numbers \in BagToSet(acks) :
       (acks' = acks (-) SetToBag({numbers}) /\ lost' = lost)
         => \A p \in numbers : carried[p] \cap Kept' = {}]_vars

\* The packet manager says that its timers repair what acks do not: a window
\* that is full does not stay full.
WindowReopens ==
  manager.bytes_in_flight >= snd.window
    ~> (manager.bytes_in_flight < snd.window \/ ~snd.running)
=============================================================================
