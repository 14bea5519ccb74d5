# A TLA+ verification of the congestion response experiment

The repository compares congestion controllers for real-time video in ns-3.
This directory holds TLA+ models of its own code, the TLC configurations that
check them on small instances, and TLAPS proofs for every value of the
constants. `PROJECT.json` maps each definition to the lines it models.

## The system

| Part | Source | Here |
|---|---|---|
| Delay-constrained BBR controller `MyBbrSenderV5` | `delay-bbr/bbr_sender_v5.{h,cc}` | `BbrSenderV5` |
| Its bandwidth sampler `MySampler` | `delay-bbr/sampler.{h,cc}` | `Sampler` |
| The max filter it keeps its estimate in | `congestion_control/windowed_filter.h` | `WindowedFilter`, `FilterHistory` |
| Bandwidth arithmetic | `quic_bandwidth.h` | operators of `Sampler` |
| ns-3 application `NsQuicReceiver` with its ack alarm, and the received packet manager it owns | `quic/model/ns_quic_receiver.*`, `quic_received_packet_manager.cc` | `NsQuicReceiver`, `ReceiverLoop` |
| ns-3 application `NsQuicSender` | `quic/model/ns_quic_sender.*` | `NsQuicSender` |
| Sent packet manager, unacked packet map, nack based loss detection | `quic_sent_packet_manager.cc`, `quic_unacked_packet_map.cc`, `general_loss_algorithm.cc` | `SentPackets` |
| The two applications over a network | all of the above | `QuicTransfer`, `Delivery` |
| Ack frames: packet number queue, writing, reading, the walk over what was acked before | `frames/quic_ack_frame.cc`, `quic/model/my_quic_framer.cc`, `OnAckRange` | `AckFrame` |
| Older controller `MyBbrSender` and its clusters | `libquic/net/my_bbr_sender.*`, `my_controller_interface.*` | `MyBbrSender` (clusters only) |

The rest is listed under "Not modelled".

The repository holds two systems. The first is the controller `MyBbrSenderV5`.
It is passive: its user reports each packet sent (`OnPacketSent`) and each
packet acked (`OnAck`) and reads a pacing rate. An ack updates the round trip
times and the bytes in flight, asks the sampler for a bandwidth sample once a
round, may start or end a backoff, feeds the sample to the filter, moves
startup, drain and the gain cycle on, and sets the rate. Nothing but an ack
runs this state machine. `MyBbrSender` is an older controller with the same
user.

The second is a transfer between two ns-3 applications. The sender's heartbeat
retransmits what was declared lost as far as the congestion window allows, sends
a stop waiting frame after several acks of packets it no longer tracks, and
sends one new packet if there is still room. The receiver acks every packet at first, later every few packets or
when its alarm expires. An ack updates the sent packet manager: it takes the
data off the newest transmission of each packet acked, declares packets lost
that too many later ones have overtaken, and forgets packets that no longer
matter. A stop waiting frame makes the receiver forget them too.

`quic/model` is built against an older libquic that is not in the repository;
the packet managers and the loss detection are modelled from the same files in
`my_quic_2/libquic`, one version later. The reloadable flag
`quic_faster_detect_loss` is off there (`quic_flags_list.h:268`), and the model
has the branch of the code without it.

## Modules

- `WindowedFilter`: the filter's three estimates as a function on `0..2`, and
  `Update` as `MustReset`, `Insert`, `Expire` and `Refresh`, the parts of the
  code's method in its order.
- `FilterHistory`: a machine that gives the filter samples at growing times and
  remembers them all in the history variable `hist`.
- `Sampler`: the sampler's members as one record; a method is an operator from
  the record to its next value.
- `BbrSenderV5`: `bbr` is the record of the controller's scalar members,
  `flight` its packet map with the counters around it, `sampler` and
  `max_bandwidth` the objects it owns, `now` the caller's clock. `OnPacketSent`
  is an action; `OnAck` is two, because the code returns early in the first
  round. A method called from there is an operator of the same name.
- `MCBbr`: a three-phase gain cycle for TLC.
- `NsQuicReceiver`, `SentPackets`, `NsQuicSender`: the members of the receiver,
  of the packet manager and of the sender as a record each, and their methods
  as operators from the record to its next value, so that they compose.
- `ReceiverLoop`: one receiver in any environment, with histories of what was
  received, reported in acks and recorded as lost.
- `QuicTransfer`: a sender and a receiver on a network that reorders everything
  and loses up to `MaxLosses` of data, acks and stop waiting frames. An action
  is one event of the simulator: a heartbeat, a packet received, a loss, the
  end of the application. `carried` remembers the data under each number.
- `Delivery`: what the transfer promises. Data is accepted, arrives, and is
  settled only after it has arrived.
- `AckFrame`: the representation that `QuicTransfer` takes for granted. Queues
  are sequences of intervals, frames have blocks, and both ends run the loops
  of the code, each a recursive function of the number of passes.
- `MyBbrSender`: the clusters as a heap, with pointers between them. What the
  clock decides is an input of `OnAck`.
- `FilterHistoryProofs`, `BbrProofs`, `ReceiverProofs`, `ManagerProofs`,
  `TransferProofs`, `AckQueueProofs`, `AckFrameProofs`, `ClusterProofs`: the
  proofs. `AckQueueProofs` has the interval queues and the walk over them,
  `AckFrameProofs` the frames.

Definitions named `...Mutant` are slips next to the definition they distort.
Each property is violated when one of them takes its definition's place.

Modelling choices:

- Gains and thresholds are in hundredths or thousandths; the product of a float
  and an integer is rounded as `std::llround` does.
- A sum of packet sizes is the cardinality of a set of octets. It is the same
  number, and TLAPS has theorems on cardinality.
- Times and counters are integers. `SnapshotsSound`, `InflightExact` and
  `Ordered` say that the code's unsigned subtractions do not wrap. Growth past
  2^64 is not modelled.
- `Ackable` is the network: an ack takes at least `MinDelay` > 0. A packet number
  that was skipped on sending may be acked too. It stands for a packet its user
  did not report, and reaches the branches for a number not in the maps.
- The simulated packets carry padding. The data of a packet is what it stands
  for: the number of the packet that first carried it. `frames` is the code's
  `retransmittable_frames`, which a retransmission takes over.
- The send algorithm of the sender is an input: the window after an ack is any
  of `Windows`. What a time test of the loss detection finds old enough is
  an input as well, the packets up to some number, as packets are sent in order.
- The receiver's time is counted in its heartbeats.
- When a stop waiting frame has removed the largest packet, the frame is still
  written downwards from `largest_acked`, and the peer reads other numbers than
  were meant. `AckedNumbers` models this, and `FrameExact` shows that it is
  what the encoding does.
- Checks that only a debug build makes (`DCHECK`) are not modelled; two of them
  fail on reordered acks and on a frame cut inside a long gap (see the hazards
  at `ns_quic_sender.cc:77` and `my_quic_framer.cc:2602`).
- The rate-change notification to the observer is left out. An observer that
  calls back into the controller is outside the model.

## Runs

| Run | States | Shows |
|---|---|---|
| `filter` | 1,047,808 | `Ordered`, `Dominates`, `Fresh` of the estimates |
| `bbr_delay` | 382,104 | Types, `FilterBehindRound`, `NeverStuck`, `ModeConsistent`, `PacingRateSound`, and the steps `GainCycleOrder`, `ModeTransitions` |
| `bbr_expiry` | 1,171,296 | `NeverStuck`, `ProbeMeasurementFresh`, `MinRttRenewed` |
| `bbr_accounting` | 365,125 | `InflightExact`, `MapsAgree`, `SnapshotsSound` |
| `receiver` | 87,990 | `WaitingHasAlarm`, `LossesExact`, `NoLossAfterReceipt`, and that every packet is reported (`EventuallyReported`) |
| `transfer` | 683,874 | The bookkeeping of the sender (`PendingHasData`, `ChainsShort`, `AckedOnce`, `SkipIsSound`), agreement of the two ends (`AcksAreTrue`, `ForgetsOnlySettled`), `ImplementsDelivery`, `EventuallySettled` |
| `ack_frame` | 1,463,975 | `QueueExact`, `FrameExact`, `WalkExact`: intervals, blocks, ranges and newly acked numbers stand for the same set |
| `clusters` | 830,126 | `PointersLive`, `SamplesExact` |
| `backoff_comment` | stops at a violation | A comment says a backoff starts from ST_INCREASE; an expired `min_rtt_` starts one from startup |
| `window_stall` | stops at a violation | The packet manager relies on an alarm; the sender never runs it, and a window whose packets are lost stays full |
| `late_ack` | stops at a violation | A comment says that an ack of any transmission stops the retransmission; the first of three is forgotten |
| `largest_acked` | stops at a violation | A comment says that `largest_acked` is the last of the packets; a late packet breaks it |

Bounds. `filter` uses a window of 5 and times up to 10 with gaps up to 6, so
that estimates expire one at a time, two at a time and all at once. `bbr_delay`
has seven packets, at most three in flight, over six time units. Reachability
was checked with temporary invariants: this run waits in ST_DRAIN and leaves
it, backs off on delay and recovers, walks the gain cycle, loses its best
estimate and paces at `min_bw_`. It never lets `min_rtt_` expire.
`bbr_expiry` does: its probes end both by draining and by the timeout, with a
new measurement as well. It has no backoff on delay. `bbr_accounting` has two
packet sizes and skipped numbers.

`receiver` has five packets: two are acked at once, later ones every third or
by the alarm. The delay is longer than a heartbeat, so that an alarm outlives
the ack that made it needless. `transfer` has five packet numbers, a window of three, a
nack threshold of two (three in the code) and one loss. It was checked the same
way that data is sent three times, that a packet that was received waits for
its retransmission, that an ack arrives for a packet already retransmitted, and
that the receiver forgets packets. At this size no frame names a packet that
was not received; the theorem covers that case. `ack_frame` has a gap limit of
two and one block (255 of each in the code), so that short gaps, gaps that
take two blocks, and frames cut inside and after a gap occur. `clusters` averages over three
clusters and sends nine packets: enough for two estimates to wait, for releases
with a neighbour left, and for rounds that start again at 1.

In the `bbr` runs the clock stops at `MaxTime`, in the others numbers run out or
the application stops, and there is no more to do then. So these runs do not
check for deadlock; `ack_frame`, where packets come for ever, does.

Fairness. `ReceiverLoop` has weak fairness of the heartbeat: the simulator runs
every event it has scheduled, and each heartbeat schedules the next.
`QuicTransfer` adds weak fairness of the sender's heartbeat as long as it can
send, and of the arrival of what the network does not lose. `DataSent` and
`AckArrives` name the same steps by what only they change, which TLC evaluates
faster. Losses are not fair, so `EventuallySettled` is stated for behaviours
without any; with one, `window_stall` shows that nothing of the kind holds. No
liveness is claimed of the controllers, which have no steps of their own.

What the violations mean. `window_stall` needs only lost packets, which the
links of `quic-test.cc` drop when their queue is full. The other two need
reordering, which those links do not do and UDP may. `late_ack` costs one
more transmission of data that has arrived. `largest_acked` sends frames with
wrong numbers; `AcksAreTrue` says that none of the wrong ones is of a packet
the sender still tracks, so nothing is lost by it.

`FrameExact` describes a limit rather than excluding it: when the block limit
cuts a frame inside a gap of more than one block, no range is signalled as the
last, `OnAckFrameEnd` is not called and what was found newly acked waits for
the next frame. `WalkExact` holds in that state too.

A limit of the filter: `Dominates` says that `GetBest()` is the maximum of a
stretch of samples up to the newest, not of the whole window. After expiries
that stretch can be much shorter than the window. No property claims more.

## Proofs

All theorems hold for every value of the constants that satisfies the named
assumptions (`WindowLengthAssumption`, `FilterHistoryAssumption`,
`TicksPerSecondAssumption`, `BbrAssumption`, `RateAssumption`,
`ReceiverAssumption`, `LoopAssumption`, `NacksAssumption`, `SenderAssumption`,
`TransferAssumption`, `AckFrameAssumption`, `ClusterAssumption`).
The bounds are constants as well, so nothing rests on their size.
`BbrAssumption` asks for a gain cycle of at least two phases, positive times and
windows, and a clock below `Delta::Infinite()`. `RateAssumption`, which only
`PacingCorrect` uses, asks that the initial window over a round trip is at least
a byte per second: with the code's 10 packets of 1000 bytes the fallback rate is
zero from a round trip of 10000 seconds on. The others say that a constant is a
natural number, or a positive one.

- `FilterCorrect`: `TypeOK`, `Ordered`, `Dominates`, `Fresh`. The inductive
  invariant adds that no recorded sample lies in the future. One `Update` is
  treated by lemmas on the operators alone.
- `AccountingCorrect`: `InflightExact`, `MapsAgree`, `SnapshotsSound`. The
  invariant `AInv` adds `CountersSound`, the same bounds for the sampler's own
  members: a snapshot is a copy of them, so the one needs the other.
- `ModesCorrect`: `TypeOK`, `ModeConsistent`, `FilterBehindRound`, `NeverStuck`,
  `ProbeMeasurementFresh`. `BInv` adds to `AInv` that the first round is spent in
  startup with an untouched filter (`FirstRound`), which is what makes the early
  return harmless. `NeverStuck` needs `InflightExact`: bytes in flight belong to
  packets. That a sample is a natural number needs `SnapshotsSound`.
- `ModeStepsCorrect`: `GainCycleOrder`, `ModeTransitions`, `MinRttRenewed`, from
  `BInv`. The gain cycle cannot advance in the ack that enters it because the
  phase starts at that ack's time.
- `PacingCorrect`: `PacingRateSound`. The invariant adds to `BInv` that no round
  trip time is longer than the clock has run (`RttsOK`). Every ack ends with
  `CalculatePacingRate`, which without a bandwidth sample takes the initial
  window over such a round trip.

In `BbrProofs` there is one lemma per operator of the chain in `OnAck`,
stating which members it leaves alone. `BackoffResult` and `AdvanceResult`
compose them.

- `ReceiverSafe`: `TypeOK`, `WaitingHasAlarm`, `LossesExact`. The invariant adds
  `QueueComplete`: the queue has everything received that the sender may wait
  for, so an ack leaves nothing waiting, whatever the alarm does.
  `LossesBeforeReceipt`: `NoLossAfterReceipt`, from the same invariant, as what
  was received is not above `base_seq_`.
- `AckGivesUpOnlyAcked`, `SendingKeepsData`: what an ack and a transmission do to
  the data the packet manager has. Each stage of `OnAckFrame` is described by a
  predicate (`Raised`, `Handled`, `Detected`, `Cleaned`, `Pruned`), proved once of
  the operator and used afterwards in its place.
- `AckKeepsManager`, `SendingKeepsManager`: acks and transmissions preserve
  `ManagerOK`, the bookkeeping of the packet manager. Its point is the order:
  losses are declared and repaired oldest first, so a packet that was repaired
  is older than all that wait (`LinksOK`), and links do not cross
  (`LinksOrdered`). When a retransmission is retransmitted in turn, the packet it
  repaired is below the largest ack and has left the map (`RepairedIsGone`).
  Chains therefore have at most one link, and the newest transmission is at most
  one step away (`NewestIsNext`).
- `TransferSafe`: `PendingHasData`, `ChainsShort`, `AckedOnce`, `SkipIsSound`,
  `AcksAreTrue`, `ForgetsOnlySettled`. The invariant `IInv` has `ManagerOK`;
  that packet and history agree on the data of each number (`CarriedAt`), that
  acked data has arrived (`HistoryOK`); and, for the network, that stop waiting
  frames and the receiver's `peer_least` are not above `least_unacked`, which
  never falls, and that a frame whose numbers are wrong names only packets
  below it (`ReceiverOK`, `NetworkOK`).
- `TransferTyped`: `TypeOK` of `QuicTransfer`, from `IInv` and the fields of the
  manager's records (`Typed`).
- `TransferImplementsDelivery`: `ImplementsDelivery`. The sender's heartbeat is
  `Accept`, a data packet is `Arrive`, an ack is `Settle`, every other step
  leaves the mapped state alone.
- `QueuesCorrect`: `QueueExact`. `QueueInv` says that both queues are sequences
  of intervals, ascending and with gaps, and what they hold. An insertion, a
  change of one interval, a merge of two and a removal from the front are a
  lemma each (`InsertKeeps`, `ChangeKeeps`, `MergeKeeps`, `TailKeeps`), and
  `Add` and `RemoveUpTo` are cases of them (`AddKeeps`, `RemoveUpToKeeps`).
- `WalkCorrect`: `WalkExact`. `WalkInv` adds that the frames on their way are
  frames. Between the passes of `OnAckRange` everything at and above the point
  reached has been found, and the iterator has left no interval above it
  behind (`Walking`, `Ready`); the ranges of any frame descend
  (`ProcessDescends`), so the iterator never has to turn back.
- `FramesCorrect`: `FrameExact`. `FrameInv` adds that no received number is above
  `largest_acked`, so what a frame means does not fall below zero. The argument
  follows the reader through the blocks: after each of them it is some blocks
  of a gap below some interval, has read the numbers from that interval up,
  and `first_received` is above the next interval (`At`, `AtNext`,
  `AtPositive`). A frame cut by the block limit stops at such a point.
- `ReceiverAsSets`, `FramesAsSets`, `ManagerAsSets`: why `QuicTransfer` may have
  sets of numbers where the code has interval queues and frames. A step of the
  receiver's queue maps to `RecordPacketReceived` or `DontWaitForPacketsBefore`
  of `NsQuicReceiver`, a frame with blocks enough for the queue is read as
  `AckedNumbers`, and a frame read to its last range adds `NewlyAcked` of
  `SentPackets` to the acked numbers, with what an earlier frame without its
  last range left in `packets_acked_`. `SetInv` adds to `FrameInv` that all
  numbers in frames and in `packets_acked_` can be those of packets.
- `ClustersCorrect`: `PointersLive`, `SamplesExact`. The invariant has that
  clusters exist in PROBE_BW only (`Idle`), that `connection_info_` has each
  under its number (`Owned`), that their packets are consecutive and ordered
  like their numbers (`Layout`), that links lead to neighbours (`Linked`), and
  that an estimate was made when the next cluster was acked (`Estimated`). The
  last is why the release of clusters up to an estimate never takes one that
  an ack to come belongs to (`Found`).

Loops are recursive functions. Where a proof needs induction over one, or the
smallest of some numbers, it takes the least counterexample of a set of numbers,
which exists because `<` is well founded (`MinOfNat`). That a loop over
sequences or records has a function at all is proved once (`Loop` in
`AckQueueProofs`), and what holds after every pass by `Upwards`.

Every invariant and every action property of the passing runs is a theorem.
Only model-checked is the liveness (`EventuallyReported`, `EventuallySettled`),
which is out of the prover's reach.

## Not modelled

- Most of the source by size is vendored: of about 246,000 lines a few
  thousand are the experiment's own, half of them a copy of QUIC's framer. The
  rest is Chromium's libquic with streams, sessions, crypto, HTTP/2 and `base`,
  which no program here runs. Of it the models have
  what the applications reach: the packet managers, loss detection, ack
  frames, the windowed filter and bandwidth arithmetic. Covering a sizeable
  share of the vendored code would be a verification of another project.
- The alarms of the sent packet manager (RTO, TLP, crypto, loss timeout):
  `NsQuicSender` never runs them, see `window_stall`.
- `MyPacingSender` and a bottleneck link. The pacer has two arithmetic methods
  and no caller. Whether a drain or a backoff of the controller ends depends on
  the user and the link, and neither is in the source.
- The BBR implementation the sender's packet manager uses (`kBBR`, vendored): its
  window is an input of `QuicTransfer`.
- Rates and round trip times of `MyBbrSender`. They decide nothing about its
  clusters, and nothing in the repository uses the class.
- The packet header codec (three small tables), and the second copy of the
  framer, which only the driver `t_recv_manager.cc` uses.
- Field widths in ack frames, packet numbers past 2^48, counters past 2^64.
- The scenario, the traces, the clock, the scripts and the drivers: set-up and
  file output. The random source is a nondeterministic choice.
