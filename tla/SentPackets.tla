----------------------------- MODULE SentPackets ----------------------------
(***************************************************************************)
(* QuicSentPacketManager with its unacked packet map and its nack based    *)
(* loss detection (GeneralLossAlgorithm, kNack), as operators from the     *)
(* record m of their members to its next value.                            *)
(*                                                                         *)
(* What NsQuicSender uses of them: one path, handshake confirmed, no       *)
(* pacing, no session notifier, packets of one size that all carry data    *)
(* and are numbered without gaps, and no retransmission timer, so the RTO, *)
(* TLP and crypto counters stay 0, loss_detection_timeout_ is never read   *)
(* and a packet is outstanding or acked.                                   *)
(* Bytes in flight are counted in packets.  The retransmittable frames of  *)
(* a packet are the data it carries, a set of data numbers.  Packets are   *)
(* sent in the order of their numbers, so those a time test of the loss    *)
(* detection finds old enough are the ones up to a number, old.            *)
(***************************************************************************)
EXTENDS Integers, FiniteSets, FiniteSetsExt

CONSTANT NacksBeforeRetransmission   \* kNumberOfNacksBeforeRetransmission

ASSUME NacksAssumption == NacksBeforeRetransmission \in Nat \ {0}

ManagerInit ==
  [infos |-> [p \in {} |-> 0],   \* unacked_packets_, from least_unacked to largest_sent
   least_unacked |-> 1,
   largest_sent |-> 0,           \* also largest_sent_retransmittable_packet_
   largest_acked |-> 0,          \* also last_ack_frame_.largest_acked
   bytes_in_flight |-> 0,
   pending |-> {},               \* pending_retransmissions_
   acked |-> {},                 \* last_ack_frame_.packets
   largest_newly_acked |-> 0,
   largest_lost |-> 0]

Tracked(m) == m.least_unacked .. m.largest_sent

InFlight(m) == {p \in Tracked(m) : m.infos[p].in_flight}
-----------------------------------------------------------------------------
(* QuicUnackedPacketMap *)

\* A packet that waits for its retransmission is not kept.
IsPacketUselessMutant(m, p) ==
  LET info == m.infos[p]
  IN  /\ ~(info.state = "OUTSTANDING" /\ p > m.largest_acked)
      /\ ~info.in_flight
      /\ ~(info.retransmission > m.largest_acked)

IsPacketUseless(m, p) ==
  LET info == m.infos[p]
  IN  /\ ~(info.state = "OUTSTANDING" /\ p > m.largest_acked)
      /\ ~info.in_flight
      /\ ~(info.retransmission > m.largest_acked \/ info.frames # {})

RemoveObsoletePackets(m) ==
  LET useful == {p \in Tracked(m) : ~IsPacketUseless(m, p)}
      least == IF useful = {} THEN m.largest_sent + 1 ELSE Min(useful)
  IN  [m EXCEPT !.least_unacked = least,
                !.infos = [p \in least .. m.largest_sent |-> @[p]]]

\* The frames are copied.
LinkRetransmissionMutant(m, old, pn) ==
  IF old < m.least_unacked THEN m
  ELSE RemoveObsoletePackets([m EXCEPT !.infos[old].retransmission = pn])

\* TransferRetransmissionInfo, but for the frames, which the caller moves.
LinkRetransmission(m, old, pn) ==
  IF old < m.least_unacked THEN m
  ELSE RemoveObsoletePackets(
         [m EXCEPT !.infos[old].frames = {}, !.infos[old].retransmission = pn])

AddSentPacket(m, pn, old, data) ==
  LET frames == IF old = 0 THEN data
                ELSE IF old < m.least_unacked THEN {} ELSE m.infos[old].frames
      linked == IF old = 0 THEN m ELSE LinkRetransmission(m, old, pn)
      info   == [state |-> "OUTSTANDING", in_flight |-> TRUE, frames |-> frames,
                 retransmission |-> 0]
  IN  [linked EXCEPT
         !.largest_sent = pn,
         !.bytes_in_flight = @ + 1,
         !.infos = [p \in linked.least_unacked .. pn |-> IF p = pn THEN info ELSE @[p]]]

\* The retransmitted packet stays pending.
OnPacketSentMutant(m, pn, old, data) == AddSentPacket(m, pn, old, data)

OnPacketSent(m, pn, old, data) ==
  AddSentPacket([m EXCEPT !.pending = @ \ {old}], pn, old, data)
-----------------------------------------------------------------------------
(* Acks *)

\* GetNewestRetransmission of every tracked packet.
Newest(infos) ==
  LET newest[p \in DOMAIN infos] ==
        IF infos[p].retransmission = 0 THEN p ELSE newest[infos[p].retransmission]
  IN  newest

\* MarkPacketHandled for each packet of handled, in ascending order: its
\* newest transmission is no longer pending and loses its frames, the links
\* from it on are cut.  Once the links of a packet are cut, the later ones of
\* the same chain find nothing left to do.
MarkPacketsHandled(m, handled) ==
  LET newest == Newest(m.infos)
      ends   == {newest[p] : p \in handled}
      cut    == {q \in Tracked(m) : \E p \in handled : p <= q /\ newest[p] = newest[q]}
  IN  [m EXCEPT
         !.pending = @ \ ends,
         !.bytes_in_flight = @ - Cardinality(InFlight(m) \cap handled),
         !.acked = @ \cup handled,
         !.infos = [p \in DOMAIN @ |->
            [state |-> IF p \in handled THEN "ACKED" ELSE @[p].state,
             in_flight |-> @[p].in_flight /\ p \notin handled,
             frames |-> IF p \in ends THEN {} ELSE @[p].frames,
             retransmission |-> IF p \in cut THEN 0 ELSE @[p].retransmission]]]

\* The packets DetectLosses returns.  It starts above the last lost packet and,
\* when no later packet has been sent, stops at the first that is not old
\* enough: those after it are newer and have fewer nacks.
LostPackets(m, old) ==
  {p \in InFlight(m) :
     /\ m.largest_lost < p /\ p <= m.largest_newly_acked
     /\ m.largest_newly_acked - p >= NacksBeforeRetransmission \/ p <= old}

\* largest_lost_ is raised to the last packet that was looked at.
InvokeLossDetectionMutant(m, old) ==
  LET lost == LostPackets(m, old)
  IN  [m EXCEPT
         !.largest_lost = IF lost = {} THEN @ ELSE m.largest_newly_acked,
         !.bytes_in_flight = @ - Cardinality(lost),
         !.pending = @ \cup {p \in lost : m.infos[p].frames # {}},
         !.infos = [p \in DOMAIN m.infos |->
                      [m.infos[p] EXCEPT !.in_flight = m.infos[p].in_flight /\ p \notin lost]]]

\* InvokeLossDetection with DetectLosses and MarkForRetransmission.
InvokeLossDetection(m, old) ==
  LET lost == LostPackets(m, old)
  IN  [m EXCEPT
         !.largest_lost = IF lost = {} THEN @ ELSE Max(lost),
         !.bytes_in_flight = @ - Cardinality(lost),
         !.pending = @ \cup {p \in lost : m.infos[p].frames # {}},
         !.infos = [p \in DOMAIN m.infos |->
                      [m.infos[p] EXCEPT !.in_flight = m.infos[p].in_flight /\ p \notin lost]]]

\* The packets acked before the last ack frame are acked again.
NewlyAckedMutant(m, numbers) == {p \in numbers : p >= m.least_unacked}

\* The packets OnAckRange collects over the ranges of an ack frame.
NewlyAcked(m, numbers) == {p \in numbers : p >= m.least_unacked} \ m.acked

\* OnAckFrameStart, OnAckRange for each range, OnAckFrameEnd.  numbers is not
\* empty.
OnAckFrame(m, numbers, old) ==
  LET newly   == NewlyAcked(m, numbers)
      raised  == [m EXCEPT
                    !.largest_acked = IF Max(numbers) > @ THEN Max(numbers) ELSE @,
                    !.largest_newly_acked = IF newly = {} THEN @ ELSE Max(newly)]
      handled == MarkPacketsHandled(raised, {p \in newly : m.infos[p].state # "ACKED"})
      cleaned == RemoveObsoletePackets(InvokeLossDetection(handled, old))
  IN  [cleaned EXCEPT !.acked = {p \in @ : p >= cleaned.least_unacked}]
=============================================================================
