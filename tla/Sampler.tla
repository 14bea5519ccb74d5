------------------------------- MODULE Sampler ------------------------------
(***************************************************************************)
(* MySampler (delay-bbr/sampler.{h,cc}): turns send and ack events into    *)
(* bandwidth samples, together with the QuicBandwidth arithmetic it uses   *)
(* (quic_bandwidth.h).  The sampler's state is one record, named s below;  *)
(* each method is an operator from that record to its next value.  Times   *)
(* are QuicTime values, with 0 for QuicTime::Zero(); bandwidths are in     *)
(* bits per second.  last_sent_packet_ is never read or written after      *)
(* construction and is left out.                                           *)
(***************************************************************************)
EXTENDS Integers

CONSTANT TicksPerSecond     \* clock units in a second: microseconds in the code

ASSUME TicksPerSecondAssumption == TicksPerSecond \in Nat \ {0}

Zero == 0                   \* QuicTime::Zero(), QuicBandwidth::Zero()

FromBytesAndTimeDelta(bytes, delta) == ((bytes * TicksPerSecond) \div delta) * 8

ToBytesPerPeriod(bw, period) == ((bw \div 8) * period) \div TicksPerSecond

\* x * g for a float factor g = num / den: both classes use std::llround.
Scaled(num, den, x) == (2 * num * x + den) \div (2 * den)
-----------------------------------------------------------------------------
SamplerInit ==
  [total_bytes_sent |-> 0,
   total_bytes_acked |-> 0,
   total_bytes_sent_at_last_acked_packet |-> 0,
   last_acked_packet_sent_time |-> Zero,
   last_acked_packet_ack_time |-> Zero,
   packet_infos |-> [p \in {} |-> 0]]

\* The snapshot constructor of PacketState; s already counts the packet.
PacketState(s, sent_time, bytes) ==
  [sent_time |-> sent_time,
   size |-> bytes,
   total_bytes_sent |-> s.total_bytes_sent,
   total_bytes_sent_at_last_acked_packet |-> s.total_bytes_sent_at_last_acked_packet,
   last_acked_packet_sent_time |-> s.last_acked_packet_sent_time,
   last_acked_packet_ack_time |-> s.last_acked_packet_ack_time,
   total_bytes_acked_at_the_last_acked_packet |-> s.total_bytes_acked]

\* The reset on an idle link forgets the send time.
CountSentMutant(s, sent_time, bytes, bytes_in_flight) ==
  LET total == s.total_bytes_sent + bytes
  IN  IF bytes_in_flight = 0
        THEN [s EXCEPT !.total_bytes_sent = total,
                       !.last_acked_packet_ack_time = sent_time,
                       !.total_bytes_sent_at_last_acked_packet = total]
        ELSE [s EXCEPT !.total_bytes_sent = total]

\* With nothing in flight the packet itself stands for the last acked one.
CountSent(s, sent_time, bytes, bytes_in_flight) ==
  LET total == s.total_bytes_sent + bytes
  IN  IF bytes_in_flight = 0
        THEN [s EXCEPT !.total_bytes_sent = total,
                       !.last_acked_packet_ack_time = sent_time,
                       !.total_bytes_sent_at_last_acked_packet = total,
                       !.last_acked_packet_sent_time = sent_time]
        ELSE [s EXCEPT !.total_bytes_sent = total]

\* std::map::insert keeps the entry a key already has.
InsertInfo(infos, pn, state) ==
  [p \in DOMAIN infos \cup {pn} |-> IF p \in DOMAIN infos THEN infos[p] ELSE state]

SamplerOnPacketSent(s, sent_time, pn, bytes, bytes_in_flight) ==
  LET counted == CountSent(s, sent_time, bytes, bytes_in_flight)
  IN  [counted EXCEPT
         !.packet_infos = InsertInfo(@, pn, PacketState(counted, sent_time, bytes))]

\* PacketInfoRemove for every packet of pns: OnPacketLost, or the acked one.
PacketInfoRemove(s, pns) ==
  [s EXCEPT !.packet_infos = [p \in DOMAIN s.packet_infos \ pns |-> s.packet_infos[p]]]

CountAcked(s, ack_time, sent) ==
  [s EXCEPT !.total_bytes_acked = @ + sent.size,
            !.total_bytes_sent_at_last_acked_packet = sent.total_bytes_sent,
            !.last_acked_packet_sent_time = sent.sent_time,
            !.last_acked_packet_ack_time = ack_time]

SamplerOnPacketAcknowledged(s, ack_time, pn) ==
  IF pn \in DOMAIN s.packet_infos
    THEN PacketInfoRemove(CountAcked(s, ack_time, s.packet_infos[pn]), {pn})
    ELSE s

SendRate(sent) ==
  FromBytesAndTimeDelta(
    sent.total_bytes_sent - sent.total_bytes_sent_at_last_acked_packet,
    sent.sent_time - sent.last_acked_packet_sent_time)

AckRate(acked, ack_time, sent) ==
  FromBytesAndTimeDelta(
    acked - sent.total_bytes_acked_at_the_last_acked_packet,
    ack_time - sent.last_acked_packet_ack_time)

\* The sample OnPacketAcknowledged returns.  A send rate over no time is
\* QuicBandwidth::Infinite(), and leaves the ack rate alone.
BandwidthSample(s, ack_time, pn, round_update) ==
  IF pn \notin DOMAIN s.packet_infos \/ ~round_update THEN Zero
  ELSE LET sent == s.packet_infos[pn]
           ack_rate == AckRate(s.total_bytes_acked + sent.size, ack_time, sent)
       IN  IF \/ sent.last_acked_packet_sent_time = Zero
              \/ ack_time <= sent.last_acked_packet_ack_time
             THEN Zero
           ELSE IF /\ sent.sent_time > sent.last_acked_packet_sent_time
                   /\ SendRate(sent) < ack_rate
             THEN SendRate(sent)
           ELSE ack_rate
=============================================================================
