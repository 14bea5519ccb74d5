---------------------------- MODULE MyBbrSender ----------------------------
(***************************************************************************)
(* The clusters of MyBbrSender (my_quic_2/libquic/net/my_bbr_sender.cc):   *)
(* the packets sent in one round are a SentClusterInfo, owned by           *)
(* connection_info_, linked to its neighbours and, once its bandwidth is   *)
(* estimated, referenced by acked_clusters_.  A pointer is the number of   *)
(* the cluster's first packet, 0 for NULL; heap has the clusters that      *)
(* exist.  The tests of the clock are inputs of OnAck, and the rates are   *)
(* left out: they decide nothing about clusters.                           *)
(***************************************************************************)
EXTENDS Integers, Sequences, FiniteSetsExt

CONSTANTS
  AverageAckRateWindowSize,   \* kAverageAckRateWindowSize
  MaxSeq                      \* bound: the largest packet number

ASSUME ClusterAssumption ==
  AverageAckRateWindowSize \in Nat \ {0} /\ MaxSeq \in Nat

VARIABLES
  bbr,            \* the members of the controller
  next_seq,       \* the number of the next packet
  last_ack_seq

vars == <<bbr, next_seq, last_ack_seq>>

NoEntries == [x \in {} |-> 0]

\* The map f with the value v at x.
With(f, x, v) == [y \in DOMAIN f \cup {x} |-> IF y = x THEN v ELSE f[y]]

Without(f, S) == [x \in DOMAIN f \ S |-> f[x]]

Init ==
  /\ bbr = [mode |-> "START_UP", round_trip_count |-> 0, heap |-> NoEntries,
            connection_info |-> NoEntries, seq_round_map |-> NoEntries,
            acked_clusters |-> <<>>]
  /\ next_seq = 1
  /\ last_ack_seq = 0
-----------------------------------------------------------------------------
\* The cluster of this round gets p; the round's first packet makes the cluster.
AddPacketInfoSampler(b, p) ==
  LET round   == b.round_trip_count
      rounds  == DOMAIN b.connection_info
      own     == b.connection_info[round]
      prev    == IF rounds = {} THEN 0 ELSE b.connection_info[Max(rounds)]
      cluster == [id |-> round, size |-> 1, prev |-> prev, next |-> 0,
                  acked |-> FALSE, spread |-> FALSE]
      linked  == IF prev = 0 THEN b.heap
                 ELSE With(b.heap, prev, [b.heap[prev] EXCEPT !.next = p])
      mapped  == [b EXCEPT !.seq_round_map = With(b.seq_round_map, p, round)]
  IN  IF round \in rounds
        THEN [mapped EXCEPT !.heap = With(b.heap, own, [b.heap[own] EXCEPT !.size = @ + 1])]
        ELSE [mapped EXCEPT !.heap = With(linked, p, cluster),
                            !.connection_info = With(b.connection_info, round, p)]

\* The packets of the released clusters stay in seq_round_map_.
ClusterInfoClearMutant(b) ==
  [b EXCEPT !.acked_clusters = <<>>, !.heap = NoEntries, !.connection_info = NoEntries]

ClusterInfoClear(b) ==
  [b EXCEPT !.acked_clusters = <<>>, !.heap = NoEntries, !.connection_info = NoEntries,
            !.seq_round_map = NoEntries]

\* The cluster above keeps its prev_.
RemoveClusterLEMutant(b, round) ==
  LET rounds == {id \in DOMAIN b.connection_info : id <= round}
      gone   == {b.connection_info[id] : id \in rounds}
  IN  [b EXCEPT !.connection_info = Without(@, rounds), !.heap = Without(b.heap, gone)]

RemoveClusterLE(b, round) ==
  LET rounds == {id \in DOMAIN b.connection_info : id <= round}
      gone   == {b.connection_info[id] : id \in rounds}
      nexts  == {b.heap[a].next : a \in gone}
      reset  == [a \in DOMAIN b.heap |->
                   IF a \in nexts THEN [b.heap[a] EXCEPT !.prev = 0] ELSE b.heap[a]]
  IN  [b EXCEPT !.connection_info = Without(@, rounds), !.heap = Without(reset, gone)]

\* EnterProbeBandwidthMode and UpdateGainCyclePhase; a cycle just begun does not
\* advance.
NextRound(b, advance) ==
  CASE b.mode = "START_UP" ->
         [b EXCEPT !.mode = "PROBE_BW", !.round_trip_count = @ + 1]
    [] b.mode = "PROBE_BW" /\ advance -> [b EXCEPT !.round_trip_count = @ + 1]
    [] OTHER -> b

\* The call that enters PROBE_RTT sets the time to leave it and has no min_rtt_.
MaybeEnterOrExitProbeRtt(b, min_rtt_expired, exit) ==
  CASE b.mode # "PROBE_RTT" /\ min_rtt_expired ->
         ClusterInfoClear([b EXCEPT !.mode = "PROBE_RTT", !.round_trip_count = 0])
    [] b.mode = "PROBE_RTT" /\ exit ->
         [b EXCEPT !.mode = "PROBE_BW", !.round_trip_count = @ + 1]
    [] OTHER -> b

\* TriggerBandwidthEstimate and OnEstimateBandwidth; all acked packets of a
\* cluster counting, acked_packets_ is 0 only when none came.
TriggerBandwidthEstimate(b, a) ==
  IF b.heap[a].acked /\ b.heap[a].spread
    THEN [b EXCEPT !.acked_clusters = Append(@, a)] ELSE b

\* SentClusterInfo::OnAck; later: the time is not that of the first ack.
ClusterOnAck(b, a, later) ==
  LET cluster == b.heap[a]
      traced  == IF ~cluster.acked /\ cluster.prev # 0
                   THEN TriggerBandwidthEstimate(b, cluster.prev) ELSE b
      touched == [cluster EXCEPT !.acked = TRUE, !.spread = @ \/ (cluster.acked /\ later)]
  IN  [traced EXCEPT !.heap = With(b.heap, a, touched)]

AckSampled(b, p, later) ==
  IF p \notin DOMAIN b.seq_round_map THEN b
  ELSE LET round  == b.seq_round_map[p]
           erased == [b EXCEPT !.seq_round_map = Without(@, {p})]
       IN  IF round \in DOMAIN b.connection_info
             THEN ClusterOnAck(erased, b.connection_info[round], later)
             ELSE erased

Release(b) ==
  RemoveClusterLE([b EXCEPT !.acked_clusters = Tail(@)], b.heap[Head(b.acked_clusters)].id)

\* The loop at the end of OnAck releases the clusters the average no longer needs.
ReleaseStale(b) ==
  LET stale == Len(b.acked_clusters) - (AverageAckRateWindowSize - 1)
      after[n \in 0..stale] == IF n = 0 THEN b ELSE Release(after[n-1])
  IN  IF stale > 0 THEN after[stale] ELSE b

OnPacketSent ==
  /\ next_seq <= MaxSeq
  /\ next_seq' = next_seq + 1
  /\ bbr' = IF bbr.mode = "PROBE_BW" THEN AddPacketInfoSampler(bbr, next_seq) ELSE bbr
  /\ UNCHANGED last_ack_seq

OnAck(p, advance, min_rtt_expired, exit, later) ==
  /\ p > last_ack_seq
  /\ last_ack_seq' = p
  /\ bbr' = ReleaseStale(AckSampled(
              MaybeEnterOrExitProbeRtt(NextRound(bbr, advance), min_rtt_expired, exit),
              p, later))
  /\ UNCHANGED next_seq

Next ==
  \/ OnPacketSent
  \/ \E p \in 1 .. next_seq - 1, advance, min_rtt_expired, exit, later \in BOOLEAN :
       OnAck(p, advance, min_rtt_expired, exit, later)

Spec == Init /\ [][Next]_vars
-----------------------------------------------------------------------------
Clusters == {bbr.connection_info[id] : id \in DOMAIN bbr.connection_info}

\* Releasing clusters by number leaves no reference to one that is gone, neither
\* in acked_clusters_ nor between neighbours, and connection_info_ owns each
\* cluster that is left.
PointersLive ==
  /\ DOMAIN bbr.heap = Clusters
  /\ Range(bbr.acked_clusters) \subseteq Clusters
  /\ \A a \in Clusters : {bbr.heap[a].prev, bbr.heap[a].next} \subseteq Clusters \cup {0}

\* An ack that is still to come finds the cluster its packet was sent in, and
\* there the packet at its offset from the first, through rounds that restart
\* at 1 and clusters released meanwhile; the estimates that wait for the average
\* are of different rounds, in order, and fewer than the window.
SamplesExact ==
  /\ \A p \in DOMAIN bbr.seq_round_map : p > last_ack_seq =>
       /\ bbr.seq_round_map[p] \in DOMAIN bbr.connection_info
       /\ LET a == bbr.connection_info[bbr.seq_round_map[p]]
          IN  p \in a .. a + bbr.heap[a].size - 1
  /\ \A i, j \in DOMAIN bbr.acked_clusters :
       i < j => bbr.heap[bbr.acked_clusters[i]].id < bbr.heap[bbr.acked_clusters[j]].id
  /\ Len(bbr.acked_clusters) < AverageAckRateWindowSize
=============================================================================
