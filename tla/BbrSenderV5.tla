----------------------------- MODULE BbrSenderV5 ----------------------------
(***************************************************************************)
(* MyBbrSenderV5 (delay-bbr/bbr_sender_v5.{h,cc}), the delay-constrained   *)
(* BBR congestion controller, with the bandwidth sampler and the windowed  *)
(* filter it owns.                                                         *)
(*                                                                         *)
(* The controller is passive: its user calls OnPacketSent and OnAck and    *)
(* reads the pacing rate.  Each is one action; a method they call is an    *)
(* operator from the record b of the controller's scalar members to its    *)
(* next value, and the actions apply them in the order of the code.  The   *)
(* calls the code ignores (a packet number not above the last sent or last *)
(* acked one) change nothing and are the stuttering steps.                 *)
(*                                                                         *)
(* Gains and thresholds are in hundredths.  Left out: members no method    *)
(* reads (last_backoff_count_, base_line_rtt_timestamp_,                   *)
(* congestion_backoff_flag_, num_bw_decrease_rtts_,                        *)
(* dynamic_congestion_back_off_) and the trace callback.                   *)
(***************************************************************************)
EXTENDS Sampler, WindowedFilter, FiniteSets

CONSTANTS
  kGainCycleLength,         \* phases of the gain cycle
  kPacingGain,              \* the gain of each phase
  kMinRttExpiry,            \* the time after which min_rtt_ expires
  kRoundTripsWithoutGrowth, \* num_startup_rtts_
  InitialCongestionWindow,  \* initial_congestion_window_
  DefaultMinRtt,            \* GetMinRtt() before the first measurement
  MinBw,                    \* min_bw_, the constructor's argument
  TicksPerMs,               \* clock units in a millisecond
  InfiniteDelta,            \* QuicTime::Delta::Infinite()
  MaxPacketSize,            \* bound on the size of a packet
  MinDelay,                 \* least time from a packet's sending to its ack
  MaxStep,                  \* bound: packet numbers skipped by the user, plus one
  MaxOutstanding,           \* bound: packets in flight at once
  MaxPacket,                \* bound: the largest packet number sent
  MaxTime                   \* bound: the clock stops here; a packet sent can be acked

Phases == 0..kGainCycleLength-1

ASSUME BbrAssumption ==
  /\ kGainCycleLength \in Nat /\ kGainCycleLength >= 2
  /\ kPacingGain \in [Phases -> Nat]
  /\ kMinRttExpiry \in Nat
  /\ kRoundTripsWithoutGrowth \in Nat \ {0}
  /\ InitialCongestionWindow \in Nat \ {0}
  /\ DefaultMinRtt \in Nat \ {0}
  /\ MinBw \in Nat
  /\ TicksPerMs \in Nat \ {0}
  /\ InfiniteDelta \in Nat
  /\ MaxPacketSize \in Nat
  /\ MinDelay \in Nat \ {0}
  /\ MaxStep \in Nat /\ MaxOutstanding \in Nat /\ MaxPacket \in Nat
  /\ MaxTime \in Nat /\ MaxTime < InfiniteDelta

\* The initial window over a round trip is at least a byte per second.  With the
\* code's 10 packets of 1000 bytes the rate is zero from 10000 seconds on, so the
\* assumption is that a session, and with it a round trip, is shorter than that.
ASSUME RateAssumption ==
  MaxTime <= InitialCongestionWindow * TicksPerSecond
    /\ DefaultMinRtt <= InitialCongestionWindow * TicksPerSecond

HighGain == 200             \* high_gain_
DrainGain == 50             \* drain_gain_
BackoffGain == 75           \* pacing_gain_ in ST_DECREASE

Modes == {"START", "DRAIN", "INCREASE", "DECREASE"}

VARIABLES
  now,              \* the caller's clock
  flight,           \* last_sent_packet_, last_ack_seq_, sent_packets_map_, bytes_in_flight_
  sampler,          \* sampler_
  max_bandwidth,    \* max_bandwidth_
  bbr               \* the remaining members

vars == <<now, flight, sampler, max_bandwidth, bbr>>

Init ==
  /\ now = 0
  /\ flight = [last_sent_packet |-> 0, last_ack_seq |-> 0,
               sent_packets_map |-> [p \in {} |-> 0], bytes_in_flight |-> 0]
  /\ sampler = SamplerInit
  /\ max_bandwidth = FilterInit
  /\ bbr = [mode |-> "START", pacing_gain |-> HighGain,
            current_round_trip_end |-> 0, round_trip_count |-> 0,
            min_rtt |-> 0, min_rtt_timestamp |-> Zero, s_rtt |-> 0,
            base_line_rtt |-> InfiniteDelta, seq_at_backoff |-> 0,
            min_rtt_in_decrease |-> InfiniteDelta,
            min_rtt_timestamp_in_decrease |-> Zero, min_rtt_record |-> 0,
            min_rtt_expired |-> FALSE, exit_probe_rtt_at |-> Zero, bdp |-> 0,
            congestion_recv_seq |-> 0, congestion_recv_cut_seq |-> 0,
            is_at_full_bandwidth |-> FALSE, rounds_without_bandwidth_gain |-> 0,
            bandwidth_at_last_round |-> Zero, max_bw_in_increase |-> Zero,
            cycle_current_offset |-> 0, last_cycle_start |-> Zero,
            pacing_rate |-> Zero, reference_rate |-> Zero]
-----------------------------------------------------------------------------
GetMinRtt(b) == IF b.min_rtt # 0 THEN b.min_rtt ELSE DefaultMinRtt

\* GetTargetCongestionWindow(1.0); best is BandwidthEstimate().
GetTargetCongestionWindow(b, best) ==
  LET bdp == ToBytesPerPeriod(best, GetMinRtt(b))
  IN  IF bdp = 0 THEN InitialCongestionWindow ELSE bdp

ToMilliseconds(delta) == delta \div TicksPerMs
-----------------------------------------------------------------------------
(* UpdateRttAndInflight *)

Map == flight.sent_packets_map

UpdateMinRtt(b, rtt) ==
  IF b.min_rtt = 0 \/ rtt < b.min_rtt
    THEN [b EXCEPT !.min_rtt = rtt, !.min_rtt_timestamp = now]
  ELSE IF rtt > b.min_rtt /\ rtt <= Scaled(1125, 1000, b.min_rtt)
    THEN [b EXCEPT !.min_rtt_timestamp = now]
  ELSE b

\* The measurement is kept without its time.
UpdateMinRttInDecreaseMutant(b, rtt) ==
  IF b.mode = "DECREASE" /\ rtt <= b.min_rtt_in_decrease
    THEN [b EXCEPT !.min_rtt_in_decrease = rtt]
    ELSE b

UpdateMinRttInDecrease(b, rtt) ==
  IF b.mode = "DECREASE" /\ rtt <= b.min_rtt_in_decrease
    THEN [b EXCEPT !.min_rtt_in_decrease = rtt, !.min_rtt_timestamp_in_decrease = now]
    ELSE b

\* kSmoothRttNum = 95, kSmoothRttDen = 100, computed on whole milliseconds.
Smooth(s_rtt, rtt) ==
  ((5 * ToMilliseconds(s_rtt) + 95 * ToMilliseconds(rtt)) \div 100) * TicksPerMs

UpdateSmoothedRtt(b, rtt, pn) ==
  LET base == IF rtt < b.base_line_rtt
                THEN [b EXCEPT !.base_line_rtt = rtt, !.s_rtt = rtt] ELSE b
  IN  IF b.mode = "INCREASE" /\ pn > b.seq_at_backoff
        THEN [base EXCEPT !.s_rtt = IF @ = 0 THEN rtt ELSE Smooth(@, rtt)]
        ELSE b

UpdateRtt(b, pn) ==
  IF pn \in DOMAIN Map
    THEN LET rtt == now - Map[pn].sent_ts
         IN  UpdateSmoothedRtt(UpdateMinRttInDecrease(UpdateMinRtt(b, rtt), rtt), rtt, pn)
    ELSE b

\* The bytes of the packets of a map, one element each: the code's sum of
\* packet->bytes over some packets is the number of their octets.
Octets(map) == {o \in (DOMAIN map) \X (1..MaxPacketSize) : o[2] <= map[o[1]].bytes}

Only(map, pns) == [p \in DOMAIN map \cap pns |-> map[p]]

\* Only the acked packet leaves the count, the lost ones stay in it.
UpdateInflightMutant(pn) ==
  [flight EXCEPT
     !.last_ack_seq = pn,
     !.sent_packets_map = Only(Map, pn+1 .. flight.last_sent_packet),
     !.bytes_in_flight = @ - Cardinality(Octets(Only(Map, {pn})))]

\* The bytes leave the count twice.
TwiceMutant(pn) ==
  [flight EXCEPT
     !.last_ack_seq = pn,
     !.sent_packets_map = Only(Map, pn+1 .. flight.last_sent_packet),
     !.bytes_in_flight = @ - 2 * Cardinality(Octets(Only(Map, 0..pn)))]

\* The loop at the end of UpdateRttAndInflight: every packet up to pn goes.
UpdateInflight(pn) ==
  [flight EXCEPT
     !.last_ack_seq = pn,
     !.sent_packets_map = Only(Map, pn+1 .. flight.last_sent_packet),
     !.bytes_in_flight = @ - Cardinality(Octets(Only(Map, 0..pn)))]

UpdateRoundTripCounter(b, pn) ==
  IF pn > b.current_round_trip_end
    THEN [b EXCEPT !.round_trip_count = @ + 1,
                   !.current_round_trip_end = flight.last_sent_packet]
    ELSE b
-----------------------------------------------------------------------------
(* The modes *)

\* CheckIfCongestion: the loss signal is only recorded, the delay signal counts.
RecordGap(b, pn) ==
  IF b.mode # "INCREASE" \/ pn <= b.congestion_recv_seq THEN b
  ELSE [b EXCEPT
          !.congestion_recv_seq = pn,
          !.congestion_recv_cut_seq =
             IF pn > b.congestion_recv_seq + 1 /\ pn > @ THEN flight.last_sent_packet ELSE @]

Congested(b) ==
  /\ b.mode = "INCREASE"
  /\ b.base_line_rtt # InfiniteDelta
  /\ b.s_rtt > Scaled(12, 10, b.base_line_rtt)

\* The offset is drawn from the whole cycle.
EntryOffsetsMutant == Phases

\* The random offset is drawn from 0..n-2 and skips phase 1.
EntryOffsets == Phases \ {1}

EnterIncreaseMode(b, offset) ==
  [b EXCEPT !.mode = "INCREASE",
            !.cycle_current_offset = offset,
            !.last_cycle_start = now,
            !.pacing_gain = kPacingGain[offset]]

EnterDecrease(b, expired, best) ==
  IF b.mode # "DECREASE" /\ (expired \/ Congested(b))
    THEN [b EXCEPT !.seq_at_backoff = flight.last_sent_packet,
                   !.s_rtt = 0,
                   !.base_line_rtt = InfiniteDelta,
                   !.mode = "DECREASE",
                   !.min_rtt_record = b.min_rtt,
                   !.exit_probe_rtt_at = Zero,
                   !.max_bw_in_increase = Zero,
                   !.min_rtt_in_decrease = InfiniteDelta,
                   !.pacing_gain = BackoffGain,
                   !.bdp = GetTargetCongestionWindow(b, best),
                   !.min_rtt_expired = expired]
    ELSE b

\* The timestamp of the renewed minimum is left as it was.
RenewMinRttMutant(b) ==
  [b EXCEPT !.min_rtt = IF b.min_rtt_in_decrease = InfiniteDelta
                          THEN b.min_rtt_record ELSE b.min_rtt_in_decrease,
            !.min_rtt_expired = FALSE]

\* The probe of an expired min_rtt_ ends: adopt what it measured.
RenewMinRtt(b) ==
  IF ~b.min_rtt_expired THEN b
  ELSE IF b.min_rtt_in_decrease = InfiniteDelta
    THEN [b EXCEPT !.min_rtt = b.min_rtt_record, !.min_rtt_timestamp = now,
                   !.min_rtt_expired = FALSE]
    ELSE [b EXCEPT !.min_rtt = b.min_rtt_in_decrease,
                   !.min_rtt_timestamp = b.min_rtt_timestamp_in_decrease,
                   !.min_rtt_expired = FALSE]

ExitDecrease(b, inflight, offset) ==
  LET timed == IF b.exit_probe_rtt_at = Zero THEN [b EXCEPT !.exit_probe_rtt_at = now] ELSE b
      done  == \/ inflight <= b.bdp
               \/ b.min_rtt_expired /\ now - timed.exit_probe_rtt_at > 4 * b.min_rtt_record
  IN  IF b.mode # "DECREASE" THEN b
      ELSE IF done THEN EnterIncreaseMode(RenewMinRtt(timed), offset)
      ELSE timed

\* The exit is considered before the entry.
MaybeEnterOrExitDecreaseMutant(b, expired, best, inflight, offset) ==
  EnterDecrease(ExitDecrease(b, inflight, offset), expired, best)

MaybeEnterOrExitDecrease(b, expired, best, inflight, offset) ==
  ExitDecrease(EnterDecrease(b, expired, best), inflight, offset)

UpdateMaxBw(b, best) ==
  IF b.mode = "INCREASE" /\ best > b.max_bw_in_increase
    THEN [b EXCEPT !.max_bw_in_increase = best] ELSE b

CheckIfFullBandwidthReached(b, best) ==
  LET stalled == b.rounds_without_bandwidth_gain + 1
  IN  IF b.is_at_full_bandwidth THEN b
      ELSE IF best >= Scaled(125, 100, b.bandwidth_at_last_round)
        THEN [b EXCEPT !.bandwidth_at_last_round = best, !.rounds_without_bandwidth_gain = 0]
      ELSE [b EXCEPT !.rounds_without_bandwidth_gain = stalled,
                     !.is_at_full_bandwidth = stalled >= kRoundTripsWithoutGrowth]

\* The gain of startup stays.
ExitStartupMutant(b) ==
  IF b.mode = "START" /\ b.is_at_full_bandwidth THEN [b EXCEPT !.mode = "DRAIN"] ELSE b

\* The mode is not looked at.
AlwaysDrainMutant(b) ==
  IF b.is_at_full_bandwidth
    THEN [b EXCEPT !.mode = "DRAIN", !.pacing_gain = DrainGain] ELSE b

ExitStartup(b) ==
  IF b.mode = "START" /\ b.is_at_full_bandwidth
    THEN [b EXCEPT !.mode = "DRAIN", !.pacing_gain = DrainGain] ELSE b

ExitDrain(b, best, inflight, offset) ==
  IF b.mode = "DRAIN" /\ inflight <= GetTargetCongestionWindow(b, best)
    THEN EnterIncreaseMode(b, offset) ELSE b

MaybeExitStartupOrDrain(b, best, inflight, offset) ==
  ExitDrain(ExitStartup(b), best, inflight, offset)

NextPhase(phase) == (phase + 1) % kGainCycleLength

UpdateGainCyclePhase(b) ==
  IF b.mode = "INCREASE" /\ now - b.last_cycle_start > GetMinRtt(b)
    THEN [b EXCEPT !.cycle_current_offset = NextPhase(@),
                   !.last_cycle_start = now,
                   !.pacing_gain = kPacingGain[NextPhase(b.cycle_current_offset)]]
    ELSE b

\* No fallback when there is no estimate.
CalculatePacingRateMutant(b, best) ==
  [b EXCEPT !.pacing_rate = Scaled(b.pacing_gain, 100, best), !.reference_rate = best]

CalculatePacingRate(b, best) ==
  LET scaled == Scaled(b.pacing_gain, 100, best)
      rate == IF scaled = Zero
                THEN FromBytesAndTimeDelta(InitialCongestionWindow, GetMinRtt(b)) ELSE scaled
  IN  IF b.mode = "INCREASE" /\ b.pacing_gain = 100 /\ rate < MinBw
        THEN [b EXCEPT !.pacing_rate = MinBw, !.reference_rate = MinBw]
        ELSE [b EXCEPT !.pacing_rate = rate, !.reference_rate = best]
-----------------------------------------------------------------------------
(* The actions *)

\* OnPacketSent(now, pn, bytes); not called with a packet number twice.
OnPacketSent(pn, bytes) ==
  /\ pn > flight.last_sent_packet
  /\ pn <= MaxPacket
  /\ now + MinDelay <= MaxTime
  /\ Cardinality(DOMAIN Map) < MaxOutstanding
  /\ sampler' = SamplerOnPacketSent(sampler, now, pn, bytes, flight.bytes_in_flight)
  /\ flight' = [flight EXCEPT
                  !.last_sent_packet = pn,
                  !.bytes_in_flight = @ + bytes,
                  !.sent_packets_map =
                     [p \in DOMAIN @ \cup {pn} |->
                        IF p = pn THEN [sent_ts |-> now, bytes |-> bytes] ELSE @[p]]]
  /\ UNCHANGED <<now, max_bandwidth, bbr>>

\* The lost packets stay in the sampler.
SampledAckMutant(pn) ==
  /\ flight' = UpdateInflight(pn)
  /\ sampler' = SamplerOnPacketAcknowledged(sampler, now, pn)

\* What OnAck does first, in every round: the packets below pn that were not
\* acked are lost to the sampler, then pn is acked.
SampledAck(pn) ==
  LET kept == PacketInfoRemove(sampler, flight.last_ack_seq + 1 .. pn - 1)
  IN  /\ flight' = UpdateInflight(pn)
      /\ sampler' = SamplerOnPacketAcknowledged(kept, now, pn)

RoundUpdate(pn) == pn > bbr.current_round_trip_end

Measured(pn) == UpdateRoundTripCounter(UpdateRtt(bbr, pn), pn)

\* OnAck before the first round trip is over returns early.
OnAckInFirstRound(pn) ==
  /\ pn > flight.last_ack_seq
  /\ bbr.round_trip_count = 0
  /\ SampledAck(pn)
  /\ bbr' = CalculatePacingRate(Measured(pn), GetBest(max_bandwidth))
  /\ UNCHANGED <<now, max_bandwidth>>

\* The round just begun is recorded instead of the one that ended.
UpdateMaxBandwidthMutant(pn) ==
  IF RoundUpdate(pn)
    THEN Update(max_bandwidth,
                Sample(BandwidthSample(sampler, now, pn, TRUE), bbr.round_trip_count + 1))
    ELSE max_bandwidth

\* max_bandwidth_.Update(bw, current_round), once a round.
UpdateMaxBandwidth(pn) ==
  IF RoundUpdate(pn)
    THEN Update(max_bandwidth,
                Sample(BandwidthSample(sampler, now, pn, TRUE), bbr.round_trip_count))
    ELSE max_bandwidth

\* From the enlarged measurements to the modes before the filter is updated.
Backoff(b, pn, inflight, offset) ==
  LET expired == now > b.min_rtt_timestamp + kMinRttExpiry
  IN  MaybeEnterOrExitDecrease(RecordGap(b, pn), expired, GetBest(max_bandwidth),
                               inflight, offset)

\* From there to the end of OnAck, with best of the updated filter.
Advance(b, pn, best, inflight, offset) ==
  LET grown == IF RoundUpdate(pn)
                 THEN CheckIfFullBandwidthReached(UpdateMaxBw(b, best), best) ELSE b
  IN  CalculatePacingRate(
        UpdateGainCyclePhase(MaybeExitStartupOrDrain(grown, best, inflight, offset)), best)

\* offset is the value EnterIncreaseMode draws; one OnAck enters it at most once.
OnAck(pn, offset) ==
  /\ pn > flight.last_ack_seq
  /\ bbr.round_trip_count > 0
  /\ SampledAck(pn)
  /\ max_bandwidth' = UpdateMaxBandwidth(pn)
  /\ bbr' = LET inflight == UpdateInflight(pn).bytes_in_flight
            IN  Advance(Backoff(Measured(pn), pn, inflight, offset), pn,
                        GetBest(UpdateMaxBandwidth(pn)), inflight, offset)
  /\ UNCHANGED now

Tick ==
  /\ now < MaxTime
  /\ now' = now + 1
  /\ UNCHANGED <<flight, sampler, max_bandwidth, bbr>>

\* An ack takes at least MinDelay from the sending of its packet, which is not
\* before time 0; a skipped number stands for a packet the user did not report.
Ackable(pn) ==
  /\ now >= MinDelay
  /\ pn \in DOMAIN Map => now >= Map[pn].sent_ts + MinDelay

Next ==
  \/ Tick
  \/ \E step \in 1..MaxStep, bytes \in 1..MaxPacketSize :
       OnPacketSent(flight.last_sent_packet + step, bytes)
  \/ \E pn \in 1..flight.last_sent_packet : Ackable(pn) /\ OnAckInFirstRound(pn)
  \/ \E pn \in 1..flight.last_sent_packet, offset \in EntryOffsets :
       Ackable(pn) /\ OnAck(pn, offset)

Spec == Init /\ [][Next]_vars
-----------------------------------------------------------------------------
Outstanding == DOMAIN Map

PacketType == [sent_ts : Nat, bytes : 1..MaxPacketSize]

PacketStateType ==
  [sent_time : Nat, size : Nat, total_bytes_sent : Nat,
   total_bytes_sent_at_last_acked_packet : Nat,
   last_acked_packet_sent_time : Nat, last_acked_packet_ack_time : Nat,
   total_bytes_acked_at_the_last_acked_packet : Nat]

BbrType ==
  [mode : Modes, pacing_gain : Nat, current_round_trip_end : Nat,
   round_trip_count : Nat, min_rtt : Nat, min_rtt_timestamp : Nat, s_rtt : Nat,
   base_line_rtt : Nat, seq_at_backoff : Nat, min_rtt_in_decrease : Nat,
   min_rtt_timestamp_in_decrease : Nat, min_rtt_record : Nat,
   min_rtt_expired : BOOLEAN, exit_probe_rtt_at : Nat, bdp : Nat,
   congestion_recv_seq : Nat, congestion_recv_cut_seq : Nat,
   is_at_full_bandwidth : BOOLEAN, rounds_without_bandwidth_gain : Nat,
   bandwidth_at_last_round : Nat, max_bw_in_increase : Nat,
   cycle_current_offset : Phases, last_cycle_start : Nat,
   pacing_rate : Nat, reference_rate : Nat]

FlightOK ==
  flight \in [last_sent_packet : Nat, last_ack_seq : Nat, bytes_in_flight : Nat,
              sent_packets_map : [Outstanding -> PacketType]]

SamplerOK ==
  sampler \in [total_bytes_sent : Nat, total_bytes_acked : Nat,
               total_bytes_sent_at_last_acked_packet : Nat,
               last_acked_packet_sent_time : Nat, last_acked_packet_ack_time : Nat,
               packet_infos : [DOMAIN sampler.packet_infos -> PacketStateType]]

TypeOK ==
  /\ now \in 0..MaxTime
  /\ FlightOK
  /\ SamplerOK
  /\ max_bandwidth \in Estimates
  /\ bbr \in BbrType

(***************************************************************************)
(* bytes_in_flight_, kept by += in OnPacketSent and -= in                  *)
(* UpdateRttAndInflight, is the number of bytes of the packets in          *)
(* sent_packets_map_; the unsigned counter never wraps.                    *)
(***************************************************************************)
InflightExact == flight.bytes_in_flight = Cardinality(Octets(Map))

(***************************************************************************)
(* The controller and its sampler clean their maps in different ways (one  *)
(* erases all entries up to the acked packet, the other loses the packets  *)
(* of the gap one by one), yet hold the same packets, all of them sent     *)
(* after the last acked one: neither map leaks or loses an entry.          *)
(***************************************************************************)
MapsAgree ==
  /\ Outstanding = DOMAIN sampler.packet_infos
  /\ Outstanding \subseteq flight.last_ack_seq + 1 .. flight.last_sent_packet
  /\ \A p \in Outstanding : /\ sampler.packet_infos[p].sent_time = Map[p].sent_ts
                            /\ sampler.packet_infos[p].size = Map[p].bytes

(***************************************************************************)
(* No subtraction that makes a bandwidth sample can wrap or divide by      *)
(* zero, whatever was acked, lost or sent since the packet left: each      *)
(* snapshot is behind the packet, and a send rate counts its bytes.        *)
(***************************************************************************)
SnapshotsSound ==
  \A p \in DOMAIN sampler.packet_infos :
    LET i == sampler.packet_infos[p]
    IN  /\ i.sent_time <= now
        /\ i.total_bytes_sent <= sampler.total_bytes_sent
        /\ i.last_acked_packet_sent_time <= i.sent_time
        /\ i.last_acked_packet_ack_time <= i.sent_time
        /\ i.total_bytes_acked_at_the_last_acked_packet <= sampler.total_bytes_acked
        /\ \/ i.total_bytes_sent_at_last_acked_packet + i.size <= i.total_bytes_sent
           \/ /\ i.total_bytes_sent_at_last_acked_packet = i.total_bytes_sent
              /\ i.last_acked_packet_sent_time = i.sent_time

(***************************************************************************)
(* The rounds given to the bandwidth filter only grow: the next Update, at *)
(* round_trip_count_, is later than every estimate it compares.            *)
(***************************************************************************)
FilterBehindRound ==
  /\ bbr.round_trip_count > 0 => max_bandwidth[2].time < bbr.round_trip_count
  /\ max_bandwidth[0].time <= max_bandwidth[1].time
  /\ max_bandwidth[1].time <= max_bandwidth[2].time

(***************************************************************************)
(* The modes that wait for the pipe to drain always have something to wait *)
(* for: only an ack runs the state machine, so a controller draining with  *)
(* nothing in flight would stay at a low gain until the next packet.       *)
(***************************************************************************)
NeverStuck ==
  /\ bbr.mode = "DECREASE" => flight.bytes_in_flight > bbr.bdp
  /\ bbr.mode \in {"DRAIN", "DECREASE"} => Outstanding # {}

(***************************************************************************)
(* pacing_gain_, is_at_full_bandwidth_ and min_rtt_expired_ are set in     *)
(* different methods but always agree with mode_.                          *)
(***************************************************************************)
GainOf(b) ==
  CASE b.mode = "START" -> HighGain
    [] b.mode = "DRAIN" -> DrainGain
    [] b.mode = "DECREASE" -> BackoffGain
    [] b.mode = "INCREASE" -> kPacingGain[b.cycle_current_offset]

ModeConsistent ==
  /\ bbr.pacing_gain = GainOf(bbr)
  /\ bbr.mode = "START" => ~bbr.is_at_full_bandwidth
  /\ bbr.mode = "DRAIN" => bbr.is_at_full_bandwidth
  /\ bbr.min_rtt_expired => bbr.mode = "DECREASE"

(***************************************************************************)
(* min_rtt_timestamp_in_decrease_ is not reset when ST_DECREASE is         *)
(* entered; it is still never older than the entry once                    *)
(* min_rtt_in_decrease_ holds a measurement.                               *)
(***************************************************************************)
ProbeMeasurementFresh ==
  bbr.mode = "DECREASE" =>
    /\ bbr.exit_probe_rtt_at > 0
    /\ bbr.exit_probe_rtt_at <= now
    /\ bbr.min_rtt_in_decrease # InfiniteDelta =>
         bbr.min_rtt_timestamp_in_decrease >= bbr.exit_probe_rtt_at

(***************************************************************************)
(* At rate zero the pacer would not space packets (TransferTime is zero):  *)
(* once an ack was processed, CalculatePacingRate left a positive rate,    *)
(* and at gain 1 one that is not below min_bw_.                            *)
(***************************************************************************)
PacingRateSound ==
  flight.last_ack_seq > 0 =>
    /\ bbr.pacing_rate > 0
    /\ bbr.mode = "INCREASE" /\ bbr.pacing_gain = 100 => bbr.pacing_rate >= MinBw
-----------------------------------------------------------------------------
(***************************************************************************)
(* The comment of EnterIncreaseMode: the phase of decreased gain always    *)
(* follows the phase of increased gain, on entry as well as in the cycle.  *)
(***************************************************************************)
GainCycleOrder ==
  [][bbr'.mode = "INCREASE" /\ bbr'.cycle_current_offset = 1 =>
       bbr.mode = "INCREASE" /\ bbr.cycle_current_offset \in {0, 1}]_vars

(***************************************************************************)
(* Startup is left for good, drain follows startup only, and a backoff is  *)
(* always followed by ST_INCREASE.                                         *)
(***************************************************************************)
ModeTransitions ==
  [][/\ bbr'.mode = "START" => bbr.mode = "START"
     /\ bbr'.mode = "DRAIN" => bbr.mode \in {"START", "DRAIN"}
     /\ bbr.mode = "DECREASE" => bbr'.mode \in {"DECREASE", "INCREASE"}]_vars

(***************************************************************************)
(* What the comment on MaybeEnterOrExitDecrease says (bbr_sender_v5.h:65): *)
(* "ST_INCREASE-->ST_DECREASE", a backoff starts from ST_INCREASE.         *)
(***************************************************************************)
BackoffFromIncrease ==
  [][bbr.mode # "DECREASE" /\ bbr'.mode = "DECREASE" => bbr.mode = "INCREASE"]_vars

(***************************************************************************)
(* When the probe of an expired min_rtt_ ends, the minimum it leaves was   *)
(* measured, or confirmed, after the probe began.                          *)
(***************************************************************************)
MinRttRenewed ==
  [][bbr.min_rtt_expired /\ ~bbr'.min_rtt_expired =>
       bbr'.min_rtt_timestamp >= bbr.exit_probe_rtt_at]_vars
=============================================================================
