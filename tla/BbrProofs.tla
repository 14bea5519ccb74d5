----------------------------- MODULE BbrProofs ------------------------------
(***************************************************************************)
(* MyBbrSenderV5 and MySampler for every packet size, number of packets,   *)
(* order of acks and losses, gain cycle, window, expiry time and bound.    *)
(*                                                                         *)
(* First the byte counters and packet maps, where OnPacketSent adds what   *)
(* OnAck takes away.  Then the modes.  OnAck is a chain of operators on the*)
(* record of the controller's members, so there is one lemma per operator: *)
(* what type its result has, which members it leaves alone (SameMode) and  *)
(* what it makes of the others.  The inductive invariant BInv adds to the  *)
(* accounting invariant that the first round is spent in startup with an   *)
(* empty filter, which is what makes OnAck's early return harmless.        *)
(***************************************************************************)
EXTENDS BbrSenderV5, FiniteSetTheorems, TLAPS

(* Accounting *)

(***************************************************************************)
(* A finite map has finitely many octets.                                  *)
(***************************************************************************)
LEMMA OctetsFinite ==
  ASSUME NEW map, IsFiniteSet(DOMAIN map)
  PROVE  IsFiniteSet(Octets(map)) /\ Cardinality(Octets(map)) \in Nat
<1>1. IsFiniteSet(1..MaxPacketSize)
  BY FS_Interval, BbrAssumption
<1>2. IsFiniteSet((DOMAIN map) \X (1..MaxPacketSize))
  BY <1>1, FS_Product
<1>3. IsFiniteSet(Octets(map))
  BY <1>2, FS_Subset DEF Octets
<1>4. QED
  BY <1>3, FS_CardinalityType

(***************************************************************************)
(* Splitting a map at a packet number splits its octets: what OnAck erases *)
(* and what it keeps add up to what there was.                             *)
(***************************************************************************)
LEMMA OctetsSplit ==
  ASSUME NEW map, IsFiniteSet(DOMAIN map), NEW low, NEW high,
         DOMAIN map \subseteq low \cup high, low \cap high = {}
  PROVE  Cardinality(Octets(map))
           = Cardinality(Octets(Only(map, low))) + Cardinality(Octets(Only(map, high)))
<1> DEFINE L == Octets(Only(map, low))
           H == Octets(Only(map, high))
<1>1. Octets(map) = L \cup H
  BY DEF Octets, Only
<1>2. L \cap H = {}
  BY DEF Octets, Only
<1>3. IsFiniteSet(DOMAIN Only(map, low)) /\ IsFiniteSet(DOMAIN Only(map, high))
  BY FS_Intersection DEF Only
<1>4. /\ IsFiniteSet(L) /\ Cardinality(L) \in Nat
      /\ IsFiniteSet(H) /\ Cardinality(H) \in Nat
  BY <1>3, OctetsFinite
<1>5. Cardinality(L \cap H) = 0
  BY <1>2, FS_EmptySet
<1> HIDE DEF L, H
<1>6. Cardinality(L \cup H) = Cardinality(L) + Cardinality(H) - Cardinality(L \cap H)
  BY <1>4, FS_Union
<1>7. QED
  BY <1>1, <1>4, <1>5, <1>6 DEF L, H

Added(map, pn, packet) ==
  [p \in DOMAIN map \cup {pn} |-> IF p = pn THEN packet ELSE map[p]]

(***************************************************************************)
(* Recording a packet adds exactly its bytes.                              *)
(***************************************************************************)
LEMMA OctetsAdded ==
  ASSUME NEW map, IsFiniteSet(DOMAIN map), NEW pn, pn \notin DOMAIN map,
         NEW packet \in PacketType
  PROVE  Cardinality(Octets(Added(map, pn, packet)))
           = Cardinality(Octets(map)) + packet.bytes
<1> DEFINE N == {pn} \X (1..packet.bytes)
           M == Octets(map)
<1>0. packet.bytes \in 1..MaxPacketSize /\ MaxPacketSize \in Nat
  BY BbrAssumption DEF PacketType
<1>1. Octets(Added(map, pn, packet)) = M \cup N
  BY <1>0 DEF Octets, Added
<1>2. M \cap N = {}
  BY DEF Octets
<1>3. IsFiniteSet(N) /\ Cardinality(N) = packet.bytes
  <2>1. IsFiniteSet({pn}) /\ Cardinality({pn}) = 1
    BY FS_Singleton
  <2>2. IsFiniteSet(1..packet.bytes) /\ Cardinality(1..packet.bytes) = packet.bytes
    BY <1>0, FS_Interval
  <2>3. IsFiniteSet(N) /\ Cardinality(N) = Cardinality({pn}) * Cardinality(1..packet.bytes)
    BY <2>1, <2>2, FS_Product
  <2>4. QED
    BY <1>0, <2>1, <2>2, <2>3
<1>4. IsFiniteSet(M) /\ Cardinality(M) \in Nat
  BY OctetsFinite
<1> HIDE DEF M, N
<1>5. Cardinality(M \cup N) = Cardinality(M) + Cardinality(N) - Cardinality(M \cap N)
  BY <1>3, <1>4, FS_Union
<1>6. Cardinality(M \cap N) = 0
  BY <1>2, FS_EmptySet
<1>7. QED
  BY <1>0, <1>1, <1>3, <1>4, <1>5, <1>6 DEF M
-----------------------------------------------------------------------------
\* What the snapshots need of the sampler's own counters.
CountersSound ==
  /\ sampler.last_acked_packet_sent_time <= now
  /\ sampler.last_acked_packet_ack_time <= now
  /\ sampler.total_bytes_sent_at_last_acked_packet <= sampler.total_bytes_sent
  /\ flight.last_ack_seq <= flight.last_sent_packet

\* The inductive invariant: SnapshotsSound needs CountersSound when a packet is
\* sent and is what restores it when one is acked; InflightExact needs MapsAgree
\* for the finiteness of the map and for a new packet number to be new.
AInv ==
  /\ now \in 0..MaxTime
  /\ FlightOK
  /\ SamplerOK
  /\ InflightExact
  /\ MapsAgree
  /\ SnapshotsSound
  /\ CountersSound

(***************************************************************************)
(* sent_packets_map_ is finite.                                            *)
(***************************************************************************)
LEMMA OutstandingFinite ==
  ASSUME AInv
  PROVE  IsFiniteSet(Outstanding)
<1>1. flight.last_ack_seq + 1 \in Int /\ flight.last_sent_packet \in Int
  BY DEF AInv, FlightOK
<1>2. IsFiniteSet(flight.last_ack_seq + 1 .. flight.last_sent_packet)
  BY <1>1, FS_Interval
<1>3. QED
  BY <1>2, FS_Subset DEF AInv, MapsAgree

(***************************************************************************)
(* The sending of a packet keeps the accounting.                           *)
(***************************************************************************)
LEMMA SentAccounting ==
  ASSUME AInv, NEW step \in 1..MaxStep, NEW bytes \in 1..MaxPacketSize,
         OnPacketSent(flight.last_sent_packet + step, bytes)
  PROVE  AInv'
<1> USE BbrAssumption
<1> DEFINE pn == flight.last_sent_packet + step
           packet == [sent_ts |-> now, bytes |-> bytes]
<1>1. /\ now' = now /\ now \in Nat /\ MaxTime \in Nat
      /\ packet \in PacketType
      /\ pn \in Nat /\ pn > flight.last_sent_packet
      /\ flight.last_sent_packet \in Nat /\ flight.last_ack_seq \in Nat
      /\ flight.bytes_in_flight \in Nat /\ bytes \in Nat
  BY DEF AInv, FlightOK, OnPacketSent, PacketType
<1>2. pn \notin Outstanding
  BY <1>1 DEF AInv, MapsAgree
<1>3. IsFiniteSet(Outstanding)
  BY OutstandingFinite
<1>4. /\ flight'.last_sent_packet = pn
      /\ flight'.last_ack_seq = flight.last_ack_seq
      /\ flight'.bytes_in_flight = flight.bytes_in_flight + bytes
      /\ flight'.sent_packets_map = Added(Map, pn, packet)
      /\ flight' = [last_sent_packet |-> flight'.last_sent_packet,
                    last_ack_seq |-> flight'.last_ack_seq,
                    bytes_in_flight |-> flight'.bytes_in_flight,
                    sent_packets_map |-> flight'.sent_packets_map]
  BY DEF OnPacketSent, AInv, FlightOK, Added, Map
<1>5. Outstanding' = Outstanding \cup {pn}
  BY <1>4 DEF Outstanding, Map, Added
<1>6. FlightOK'
  <2>1. Added(Map, pn, packet) \in [Outstanding \cup {pn} -> PacketType]
    BY <1>1 DEF AInv, FlightOK, Added, Outstanding, Map
  <2>2. QED
    BY <1>1, <1>4, <1>5, <2>1 DEF FlightOK
<1>7. InflightExact'
  <2>1. Cardinality(Octets(Added(Map, pn, packet))) = Cardinality(Octets(Map)) + bytes
    BY <1>1, <1>2, <1>3, OctetsAdded DEF Outstanding
  <2>2. QED
    BY <1>4, <2>1 DEF AInv, InflightExact, Map
<1> DEFINE counted == CountSent(sampler, now, bytes, flight.bytes_in_flight)
           state == PacketState(counted, now, bytes)
<1>8. /\ counted.total_bytes_sent = sampler.total_bytes_sent + bytes
      /\ counted.total_bytes_acked = sampler.total_bytes_acked
      /\ counted.packet_infos = sampler.packet_infos
      /\ \/ /\ counted.total_bytes_sent_at_last_acked_packet = counted.total_bytes_sent
            /\ counted.last_acked_packet_sent_time = now
            /\ counted.last_acked_packet_ack_time = now
         \/ /\ counted.total_bytes_sent_at_last_acked_packet
                 = sampler.total_bytes_sent_at_last_acked_packet
            /\ counted.last_acked_packet_sent_time = sampler.last_acked_packet_sent_time
            /\ counted.last_acked_packet_ack_time = sampler.last_acked_packet_ack_time
      /\ counted \in [total_bytes_sent : Nat, total_bytes_acked : Nat,
                      total_bytes_sent_at_last_acked_packet : Nat,
                      last_acked_packet_sent_time : Nat, last_acked_packet_ack_time : Nat,
                      packet_infos : [DOMAIN sampler.packet_infos -> PacketStateType]]
  <2> DEFINE infos == sampler.packet_infos
             total == sampler.total_bytes_sent + bytes
  <2>1. /\ sampler \in [total_bytes_sent : Nat, total_bytes_acked : Nat,
                        total_bytes_sent_at_last_acked_packet : Nat,
                        last_acked_packet_sent_time : Nat, last_acked_packet_ack_time : Nat,
                        packet_infos : [DOMAIN infos -> PacketStateType]]
        /\ total \in Nat
    BY <1>1 DEF AInv, SamplerOK
  <2> HIDE DEF total
  <2>2. CASE flight.bytes_in_flight = 0
    <3>1. counted = [sampler EXCEPT !.total_bytes_sent = total,
                                    !.last_acked_packet_ack_time = now,
                                    !.total_bytes_sent_at_last_acked_packet = total,
                                    !.last_acked_packet_sent_time = now]
      BY <2>2 DEF CountSent, total
    <3> HIDE DEF counted
    <3>2. QED
      BY <1>1, <2>1, <3>1 DEF total
  <2>3. CASE flight.bytes_in_flight # 0
    <3>1. counted = [sampler EXCEPT !.total_bytes_sent = total]
      BY <2>3 DEF CountSent, total
    <3> HIDE DEF counted
    <3>2. QED
      BY <1>1, <2>1, <3>1 DEF total
  <2>4. QED
    BY <2>2, <2>3
<1> HIDE DEF counted
<1>9. /\ state \in PacketStateType
      /\ state.sent_time = now /\ state.size = bytes
      /\ state.total_bytes_sent = counted.total_bytes_sent
      /\ state.total_bytes_sent_at_last_acked_packet
           = counted.total_bytes_sent_at_last_acked_packet
      /\ state.last_acked_packet_sent_time = counted.last_acked_packet_sent_time
      /\ state.last_acked_packet_ack_time = counted.last_acked_packet_ack_time
      /\ state.total_bytes_acked_at_the_last_acked_packet = counted.total_bytes_acked
  BY <1>1, <1>8 DEF PacketState, PacketStateType
<1> HIDE DEF state
<1>10. sampler' = [counted EXCEPT !.packet_infos = InsertInfo(@, pn, state)]
  BY DEF OnPacketSent, SamplerOnPacketSent, counted, state
<1>11. /\ DOMAIN sampler'.packet_infos = DOMAIN sampler.packet_infos \cup {pn}
       /\ sampler'.packet_infos[pn] = state
       /\ \A p \in DOMAIN sampler.packet_infos :
            sampler'.packet_infos[p] = sampler.packet_infos[p]
       /\ sampler'.packet_infos \in [DOMAIN sampler'.packet_infos -> PacketStateType]
  BY <1>2, <1>8, <1>9, <1>10 DEF AInv, MapsAgree, InsertInfo
<1>12. SamplerOK'
  BY <1>8, <1>10, <1>11 DEF SamplerOK
<1>13. MapsAgree'
  <2>1. Outstanding' = DOMAIN sampler'.packet_infos
    BY <1>5, <1>11 DEF AInv, MapsAgree
  <2>2. Outstanding' \subseteq flight'.last_ack_seq + 1 .. flight'.last_sent_packet
    BY <1>1, <1>4, <1>5 DEF AInv, MapsAgree, CountersSound
  <2>3. \A p \in Outstanding' : /\ sampler'.packet_infos[p].sent_time = Map'[p].sent_ts
                                /\ sampler'.packet_infos[p].size = Map'[p].bytes
    BY <1>2, <1>4, <1>5, <1>9, <1>11 DEF AInv, MapsAgree, Added, Map, Outstanding
  <2>4. QED
    BY <2>1, <2>2, <2>3 DEF MapsAgree
<1>14. SnapshotsSound'
  <2>1. /\ sampler'.total_bytes_sent = sampler.total_bytes_sent + bytes
        /\ sampler'.total_bytes_acked = sampler.total_bytes_acked
    BY <1>8, <1>10
  <2>2. ASSUME NEW p \in DOMAIN sampler.packet_infos
        PROVE  /\ sampler.packet_infos[p].total_bytes_sent <= sampler'.total_bytes_sent
               /\ sampler'.packet_infos[p] = sampler.packet_infos[p]
    BY <1>1, <1>11, <2>1 DEF AInv, SnapshotsSound, SamplerOK, PacketStateType
  <2>3. QED
    BY <1>1, <1>8, <1>9, <1>11, <2>1, <2>2
       DEF AInv, SnapshotsSound, CountersSound, SamplerOK, PacketStateType
<1>15. CountersSound'
  BY <1>1, <1>4, <1>8, <1>10 DEF AInv, CountersSound, SamplerOK
<1>16. QED
  BY <1>1, <1>6, <1>7, <1>12, <1>13, <1>14, <1>15 DEF AInv

(***************************************************************************)
(* The sampler after an ack: every packet up to pn is gone, the others are *)
(* untouched, and its counters are those of the acked packet if it was     *)
(* there.                                                                  *)
(***************************************************************************)
LEMMA AckSampler ==
  ASSUME AInv, NEW pn \in 1..flight.last_sent_packet, pn > flight.last_ack_seq,
         SampledAck(pn)
  PROVE  /\ SamplerOK'
         /\ DOMAIN sampler'.packet_infos = DOMAIN sampler.packet_infos \ (0..pn)
         /\ \A p \in DOMAIN sampler'.packet_infos :
              sampler'.packet_infos[p] = sampler.packet_infos[p]
         /\ sampler'.total_bytes_sent = sampler.total_bytes_sent
         /\ sampler'.total_bytes_acked >= sampler.total_bytes_acked
         /\ \/ /\ sampler'.total_bytes_sent_at_last_acked_packet
                    = sampler.total_bytes_sent_at_last_acked_packet
               /\ sampler'.last_acked_packet_sent_time = sampler.last_acked_packet_sent_time
               /\ sampler'.last_acked_packet_ack_time = sampler.last_acked_packet_ack_time
            \/ /\ pn \in DOMAIN sampler.packet_infos
               /\ sampler'.total_bytes_sent_at_last_acked_packet
                    = sampler.packet_infos[pn].total_bytes_sent
               /\ sampler'.last_acked_packet_sent_time = sampler.packet_infos[pn].sent_time
               /\ sampler'.last_acked_packet_ack_time = now
<1> DEFINE infos == sampler.packet_infos
           lost == flight.last_ack_seq + 1 .. pn - 1
           kept == PacketInfoRemove(sampler, lost)
<1>1. /\ flight.last_sent_packet \in Nat /\ flight.last_ack_seq \in Nat /\ pn \in Nat
      /\ now \in Nat
  BY BbrAssumption DEF AInv, FlightOK
<1>2. sampler \in [total_bytes_sent : Nat, total_bytes_acked : Nat,
                   total_bytes_sent_at_last_acked_packet : Nat,
                   last_acked_packet_sent_time : Nat, last_acked_packet_ack_time : Nat,
                   packet_infos : [DOMAIN infos -> PacketStateType]]
  BY DEF AInv, SamplerOK
<1>3. DOMAIN infos \subseteq flight.last_ack_seq + 1 .. flight.last_sent_packet
  BY DEF AInv, MapsAgree
<1>4. /\ (DOMAIN infos \ lost) \ {pn} = DOMAIN infos \ (0..pn)
      /\ pn \in DOMAIN infos \ lost <=> pn \in DOMAIN infos
  BY <1>1, <1>3
<1>5. /\ kept.packet_infos = [p \in DOMAIN infos \ lost |-> infos[p]]
      /\ kept \in [total_bytes_sent : Nat, total_bytes_acked : Nat,
                   total_bytes_sent_at_last_acked_packet : Nat,
                   last_acked_packet_sent_time : Nat, last_acked_packet_ack_time : Nat,
                   packet_infos : [DOMAIN infos \ lost -> PacketStateType]]
      /\ kept.total_bytes_sent = sampler.total_bytes_sent
      /\ kept.total_bytes_acked = sampler.total_bytes_acked
      /\ kept.total_bytes_sent_at_last_acked_packet
           = sampler.total_bytes_sent_at_last_acked_packet
      /\ kept.last_acked_packet_sent_time = sampler.last_acked_packet_sent_time
      /\ kept.last_acked_packet_ack_time = sampler.last_acked_packet_ack_time
  BY <1>2 DEF PacketInfoRemove
<1>6. sampler' = SamplerOnPacketAcknowledged(kept, now, pn)
  BY DEF SampledAck
<1> HIDE DEF kept, lost
<1>7. CASE pn \in DOMAIN infos
  <2> DEFINE sent == infos[pn]
             acked == CountAcked(kept, now, sent)
  <2>1. sent \in PacketStateType /\ kept.packet_infos[pn] = sent
        /\ pn \in DOMAIN kept.packet_infos
    BY <1>2, <1>4, <1>5, <1>7
  <2> HIDE DEF sent
  <2>0. sent.size \in Nat /\ sent.total_bytes_sent \in Nat /\ sent.sent_time \in Nat
    BY <2>1 DEF PacketStateType
  <2>2. /\ acked.packet_infos = kept.packet_infos
        /\ acked.total_bytes_sent = kept.total_bytes_sent
        /\ acked.total_bytes_acked = kept.total_bytes_acked + sent.size
        /\ acked.total_bytes_sent_at_last_acked_packet = sent.total_bytes_sent
        /\ acked.last_acked_packet_sent_time = sent.sent_time
        /\ acked.last_acked_packet_ack_time = now
        /\ acked \in [total_bytes_sent : Nat, total_bytes_acked : Nat,
                      total_bytes_sent_at_last_acked_packet : Nat,
                      last_acked_packet_sent_time : Nat, last_acked_packet_ack_time : Nat,
                      packet_infos : [DOMAIN infos \ lost -> PacketStateType]]
    <3> DEFINE T == [DOMAIN infos \ lost -> PacketStateType]
               total == kept.total_bytes_acked + sent.size
    <3>1. /\ kept \in [total_bytes_sent : Nat, total_bytes_acked : Nat,
                       total_bytes_sent_at_last_acked_packet : Nat,
                       last_acked_packet_sent_time : Nat, last_acked_packet_ack_time : Nat,
                       packet_infos : T]
          /\ total \in Nat
      BY <1>5, <2>0
    <3>2. acked = [kept EXCEPT !.total_bytes_acked = total,
                               !.total_bytes_sent_at_last_acked_packet = sent.total_bytes_sent,
                               !.last_acked_packet_sent_time = sent.sent_time,
                               !.last_acked_packet_ack_time = now]
      BY DEF CountAcked
    <3> HIDE DEF T, total, acked
    <3>3. QED
      BY <1>1, <2>0, <3>1, <3>2 DEF total, T
  <2>3. sampler' = [acked EXCEPT !.packet_infos =
                      [p \in DOMAIN acked.packet_infos \ {pn} |-> acked.packet_infos[p]]]
    BY <1>6, <2>1 DEF SamplerOnPacketAcknowledged, PacketInfoRemove
  <2> HIDE DEF acked
  <2>4. /\ sampler'.packet_infos = [p \in DOMAIN infos \ (0..pn) |-> infos[p]]
        /\ sampler'.packet_infos \in [DOMAIN infos \ (0..pn) -> PacketStateType]
    BY <1>2, <1>4, <1>5, <2>2, <2>3
  <2>5. SamplerOK'
    BY <2>2, <2>3, <2>4 DEF SamplerOK
  <2>6. sampler'.total_bytes_acked >= sampler.total_bytes_acked
    BY <1>2, <1>5, <2>2, <2>3, <2>0
  <2>7. QED
    BY <1>5, <1>7, <2>2, <2>3, <2>4, <2>5, <2>6 DEF sent
<1>8. CASE pn \notin DOMAIN infos
  <2>1. sampler' = kept
    BY <1>4, <1>5, <1>6, <1>8 DEF SamplerOnPacketAcknowledged
  <2>2. DOMAIN infos \ lost = DOMAIN infos \ (0..pn)
    BY <1>4, <1>8
  <2>3. SamplerOK'
    BY <1>5, <2>1 DEF SamplerOK
  <2>4. QED
    BY <1>2, <1>5, <2>1, <2>2, <2>3
<1>9. QED
  BY <1>7, <1>8

(***************************************************************************)
(* An ack, in the first round or later, keeps the accounting.              *)
(***************************************************************************)
LEMMA AckAccounting ==
  ASSUME AInv, NEW pn \in 1..flight.last_sent_packet, pn > flight.last_ack_seq,
         SampledAck(pn), now' = now
  PROVE  AInv'
<1> USE BbrAssumption
<1> DEFINE above == pn + 1 .. flight.last_sent_packet
           acked == Cardinality(Octets(Only(Map, 0..pn)))
           left == Cardinality(Octets(Only(Map, above)))
<1>1. /\ flight.last_sent_packet \in Nat /\ flight.last_ack_seq \in Nat /\ pn \in Nat
      /\ now \in Nat /\ flight.bytes_in_flight \in Nat /\ MaxTime \in Nat
      /\ Outstanding \subseteq flight.last_ack_seq + 1 .. flight.last_sent_packet
  BY DEF AInv, FlightOK, MapsAgree
<1>2. /\ flight'.last_sent_packet = flight.last_sent_packet
      /\ flight'.last_ack_seq = pn
      /\ flight'.bytes_in_flight = flight.bytes_in_flight - acked
      /\ flight'.sent_packets_map = Only(Map, above)
      /\ flight' = [last_sent_packet |-> flight'.last_sent_packet,
                    last_ack_seq |-> flight'.last_ack_seq,
                    bytes_in_flight |-> flight'.bytes_in_flight,
                    sent_packets_map |-> flight'.sent_packets_map]
  BY DEF SampledAck, UpdateInflight, AInv, FlightOK
<1>3. Outstanding' = Outstanding \cap above /\ Outstanding \cap above = Outstanding \ (0..pn)
  BY <1>1, <1>2 DEF Outstanding, Map, Only
<1>4. /\ acked \in Nat /\ left \in Nat
      /\ flight.bytes_in_flight = acked + left
  <2>1. IsFiniteSet(Outstanding)
    BY OutstandingFinite
  <2>2. Outstanding \subseteq (0..pn) \cup above /\ (0..pn) \cap above = {}
    BY <1>1
  <2>3. IsFiniteSet(DOMAIN Only(Map, 0..pn)) /\ IsFiniteSet(DOMAIN Only(Map, above))
    BY <2>1, FS_Intersection DEF Only, Outstanding
  <2>4. acked \in Nat /\ left \in Nat
    BY <2>3, OctetsFinite
  <2>5. Cardinality(Octets(Map)) = acked + left
    BY <2>1, <2>2, OctetsSplit DEF Outstanding
  <2>6. QED
    BY <2>4, <2>5 DEF AInv, InflightExact
<1> HIDE DEF acked, left
<1>5. flight'.bytes_in_flight = left /\ left \in Nat
  <2> DEFINE before == flight.bytes_in_flight
             after == flight'.bytes_in_flight
  <2>1. after = before - acked
    BY <1>2
  <2>2. before = acked + left /\ acked \in Nat /\ left \in Nat
    BY <1>4
  <2> HIDE DEF before, after
  <2>3. after = left
    BY <2>1, <2>2
  <2>4. QED
    BY <2>2, <2>3 DEF after
<1>6. InflightExact'
  BY <1>2, <1>5 DEF InflightExact, Map, left
<1>7. FlightOK'
  <2>1. Only(Map, above) \in [Outstanding \cap above -> PacketType]
    BY DEF AInv, FlightOK, Only, Outstanding, Map
  <2>2. QED
    BY <1>1, <1>2, <1>3, <1>5, <2>1 DEF FlightOK
<1>8. /\ SamplerOK'
      /\ DOMAIN sampler'.packet_infos = DOMAIN sampler.packet_infos \ (0..pn)
      /\ \A p \in DOMAIN sampler'.packet_infos :
           sampler'.packet_infos[p] = sampler.packet_infos[p]
      /\ sampler'.total_bytes_sent = sampler.total_bytes_sent
      /\ sampler'.total_bytes_acked >= sampler.total_bytes_acked
  BY AckSampler
<1>9. MapsAgree'
  <2>1. Outstanding' = DOMAIN sampler'.packet_infos
    BY <1>3, <1>8 DEF AInv, MapsAgree
  <2>2. Outstanding' \subseteq flight'.last_ack_seq + 1 .. flight'.last_sent_packet
    BY <1>1, <1>2, <1>3
  <2>3. \A p \in Outstanding' : Map'[p] = Map[p] /\ p \in Outstanding
    BY <1>2, <1>3 DEF Map, Only, Outstanding
  <2>4. QED
    BY <1>8, <2>1, <2>2, <2>3 DEF AInv, MapsAgree
<1>10. SnapshotsSound'
  <2>1. \A p \in DOMAIN sampler'.packet_infos :
          /\ p \in DOMAIN sampler.packet_infos
          /\ sampler.packet_infos[p].total_bytes_acked_at_the_last_acked_packet \in Nat
    BY <1>8 DEF AInv, SamplerOK, PacketStateType
  <2>2. sampler.total_bytes_acked \in Nat /\ sampler'.total_bytes_acked \in Nat
    BY <1>8 DEF AInv, SamplerOK
  <2>3. QED
    BY <1>8, <2>1, <2>2 DEF AInv, SnapshotsSound
<1>11. CountersSound'
  <2>1. pn \in DOMAIN sampler.packet_infos =>
          /\ sampler.packet_infos[pn].total_bytes_sent <= sampler.total_bytes_sent
          /\ sampler.packet_infos[pn].sent_time <= now
    BY DEF AInv, SnapshotsSound
  <2>2. /\ sampler'.total_bytes_sent = sampler.total_bytes_sent
        /\ \/ /\ sampler'.total_bytes_sent_at_last_acked_packet
                   = sampler.total_bytes_sent_at_last_acked_packet
              /\ sampler'.last_acked_packet_sent_time = sampler.last_acked_packet_sent_time
              /\ sampler'.last_acked_packet_ack_time = sampler.last_acked_packet_ack_time
           \/ /\ pn \in DOMAIN sampler.packet_infos
              /\ sampler'.total_bytes_sent_at_last_acked_packet
                   = sampler.packet_infos[pn].total_bytes_sent
              /\ sampler'.last_acked_packet_sent_time = sampler.packet_infos[pn].sent_time
              /\ sampler'.last_acked_packet_ack_time = now
    BY AckSampler
  <2>3. /\ sampler'.last_acked_packet_sent_time <= now
        /\ sampler'.last_acked_packet_ack_time <= now
        /\ sampler'.total_bytes_sent_at_last_acked_packet <= sampler'.total_bytes_sent
    BY <1>1, <2>1, <2>2 DEF AInv, CountersSound
  <2>4. flight'.last_ack_seq <= flight'.last_sent_packet
    BY <1>1, <1>2
  <2>5. QED
    BY <2>3, <2>4 DEF CountersSound
<1>12. QED
  BY <1>1, <1>6, <1>7, <1>8, <1>9, <1>10, <1>11 DEF AInv

(***************************************************************************)
(* The clock keeps the accounting.                                         *)
(***************************************************************************)
LEMMA TickAccounting ==
  ASSUME AInv, Tick
  PROVE  AInv'
<1>1. /\ now \in Nat /\ now' = now + 1 /\ now' \in 0..MaxTime
      /\ flight' = flight /\ sampler' = sampler
  BY BbrAssumption DEF AInv, Tick
<1>2. FlightOK' /\ SamplerOK' /\ InflightExact' /\ MapsAgree'
  BY <1>1 DEF AInv, FlightOK, SamplerOK, InflightExact, MapsAgree, Outstanding, Map
<1>3. CountersSound'
  BY <1>1 DEF AInv, CountersSound, SamplerOK
<1>4. SnapshotsSound'
  BY <1>1 DEF AInv, SnapshotsSound, SamplerOK, PacketStateType
<1>5. QED
  BY <1>1, <1>2, <1>3, <1>4 DEF AInv

(***************************************************************************)
(* Every step of the controller keeps the accounting.                      *)
(***************************************************************************)
LEMMA NextAccounting ==
  ASSUME AInv, [Next]_vars
  PROVE  AInv'
<1>1. CASE Tick
  BY <1>1, TickAccounting
<1>2. CASE \E step \in 1..MaxStep, bytes \in 1..MaxPacketSize :
             OnPacketSent(flight.last_sent_packet + step, bytes)
  BY <1>2, SentAccounting
<1>3. ASSUME NEW pn \in 1..flight.last_sent_packet, OnAckInFirstRound(pn)
      PROVE  AInv'
  BY <1>3, AckAccounting DEF OnAckInFirstRound
<1>4. ASSUME NEW pn \in 1..flight.last_sent_packet, NEW offset \in EntryOffsets,
             OnAck(pn, offset)
      PROVE  AInv'
  BY <1>4, AckAccounting DEF OnAck
<1>5. CASE UNCHANGED vars
  BY <1>5 DEF vars, AInv, FlightOK, SamplerOK, InflightExact, MapsAgree, SnapshotsSound,
     CountersSound, Outstanding, Map
<1>6. QED
  BY <1>1, <1>2, <1>3, <1>4, <1>5 DEF Next

(***************************************************************************)
(* The accounting holds when MyBbrSenderV5 is constructed.                 *)
(***************************************************************************)
LEMMA InitAccounting ==
  ASSUME Init
  PROVE  AInv
<1> USE BbrAssumption
<1>1. Map = [p \in {} |-> 0] /\ Outstanding = {} /\ sampler.packet_infos = [p \in {} |-> 0]
  BY DEF Init, Map, Outstanding, SamplerInit
<1>2. Octets(Map) = {}
  BY <1>1 DEF Octets
<1>3. InflightExact
  BY <1>2, FS_EmptySet DEF Init, InflightExact
<1>4. FlightOK
  BY <1>1 DEF Init, FlightOK, Map
<1>5. SamplerOK
  BY <1>1 DEF Init, SamplerOK, SamplerInit, Zero
<1>6. MapsAgree /\ SnapshotsSound
  BY <1>1 DEF MapsAgree, SnapshotsSound
<1>7. CountersSound
  BY DEF Init, CountersSound, SamplerInit, Zero
<1>8. now \in 0..MaxTime
  BY DEF Init
<1>9. QED
  BY <1>3, <1>4, <1>5, <1>6, <1>7, <1>8 DEF AInv

(***************************************************************************)
(* bytes_in_flight_ is always the bytes of sent_packets_map_, the sampler  *)
(* holds the same packets, and no subtraction that makes a bandwidth       *)
(* sample can wrap or divide by zero: for every packet size, every bound   *)
(* and every order of sends, acks and losses.                              *)
(***************************************************************************)
THEOREM AccountingCorrect == Spec => [](InflightExact /\ MapsAgree /\ SnapshotsSound)
<1>1. Init => AInv
  BY InitAccounting
<1>2. AInv /\ [Next]_vars => AInv'
  BY NextAccounting
<1>3. AInv => InflightExact /\ MapsAgree /\ SnapshotsSound
  BY DEF AInv
<1>4. QED
  BY <1>1, <1>2, <1>3, PTL DEF Spec
-----------------------------------------------------------------------------
(* Modes *)

\* The members the state machine is about.
SameMode(r, b) ==
  /\ r.mode = b.mode
  /\ r.pacing_gain = b.pacing_gain
  /\ r.cycle_current_offset = b.cycle_current_offset
  /\ r.is_at_full_bandwidth = b.is_at_full_bandwidth
  /\ r.min_rtt_expired = b.min_rtt_expired
  /\ r.bdp = b.bdp
  /\ r.exit_probe_rtt_at = b.exit_probe_rtt_at
  /\ r.last_cycle_start = b.last_cycle_start

\* The members that hold the minimum round trip and its probe.
SameProbe(r, b) ==
  /\ r.min_rtt_timestamp = b.min_rtt_timestamp
  /\ r.min_rtt_in_decrease = b.min_rtt_in_decrease
  /\ r.min_rtt_timestamp_in_decrease = b.min_rtt_timestamp_in_decrease

SameRound(r, b) ==
  /\ r.round_trip_count = b.round_trip_count
  /\ r.current_round_trip_end = b.current_round_trip_end
-----------------------------------------------------------------------------
(* The arithmetic *)

\* llround of a scaled natural number is one.
LEMMA ScaledType ==
  ASSUME NEW num \in Nat, NEW den \in Nat \ {0}, NEW x \in Nat
  PROVE  Scaled(num, den, x) \in Nat
BY DEF Scaled

\* A rate over a positive time is a natural number.
LEMMA RateType ==
  ASSUME NEW bytes \in Nat, NEW delta \in Nat \ {0}
  PROVE  FromBytesAndTimeDelta(bytes, delta) \in Nat
BY TicksPerSecondAssumption DEF FromBytesAndTimeDelta

\* Bytes per period are a natural number.
LEMMA PeriodType ==
  ASSUME NEW bw \in Nat, NEW period \in Nat
  PROVE  ToBytesPerPeriod(bw, period) \in Nat
BY TicksPerSecondAssumption DEF ToBytesPerPeriod

\* GetMinRtt and the congestion window are positive.
LEMMA WindowType ==
  ASSUME NEW b \in BbrType, NEW best \in Nat
  PROVE  GetMinRtt(b) \in Nat \ {0} /\ GetTargetCongestionWindow(b, best) \in Nat \ {0}
<1>1. GetMinRtt(b) \in Nat \ {0}
  BY BbrAssumption DEF BbrType, GetMinRtt
<1>2. ToBytesPerPeriod(best, GetMinRtt(b)) \in Nat
  BY <1>1, PeriodType
<1>3. QED
  BY <1>1, <1>2, BbrAssumption DEF GetTargetCongestionWindow
-----------------------------------------------------------------------------
(* UpdateRttAndInflight and UpdateRoundTripCounter *)

\* What the measurement of a round trip leaves of the members.
MeasuredFrom(r, b) ==
  /\ r \in BbrType
  /\ SameMode(r, b)
  /\ b.mode = "DECREASE" /\ r.min_rtt_in_decrease # InfiniteDelta =>
       \/ r.min_rtt_timestamp_in_decrease = now
       \/ /\ b.min_rtt_in_decrease # InfiniteDelta
          /\ r.min_rtt_timestamp_in_decrease = b.min_rtt_timestamp_in_decrease

\* A new minimum leaves the mode, the round and the probe alone.
LEMMA UpdateMinRttKeeps ==
  ASSUME NEW b \in BbrType, now \in Nat, NEW rtt \in Nat
  PROVE  LET r == UpdateMinRtt(b, rtt)
         IN  /\ r \in BbrType /\ SameMode(r, b) /\ SameRound(r, b)
             /\ r.min_rtt_in_decrease = b.min_rtt_in_decrease
             /\ r.min_rtt_timestamp_in_decrease = b.min_rtt_timestamp_in_decrease
<1> DEFINE lower == [b EXCEPT !.min_rtt = rtt, !.min_rtt_timestamp = now]
           similar == [b EXCEPT !.min_rtt_timestamp = now]
<1>1. UpdateMinRtt(b, rtt) \in {lower, similar, b}
  BY DEF UpdateMinRtt
<1>2. /\ lower \in BbrType /\ SameMode(lower, b) /\ SameRound(lower, b)
      /\ lower.min_rtt_in_decrease = b.min_rtt_in_decrease
      /\ lower.min_rtt_timestamp_in_decrease = b.min_rtt_timestamp_in_decrease
  BY DEF BbrType, SameMode, SameRound
<1>3. /\ similar \in BbrType /\ SameMode(similar, b) /\ SameRound(similar, b)
      /\ similar.min_rtt_in_decrease = b.min_rtt_in_decrease
      /\ similar.min_rtt_timestamp_in_decrease = b.min_rtt_timestamp_in_decrease
  BY DEF BbrType, SameMode, SameRound
<1> HIDE DEF lower, similar
<1>4. QED
  BY <1>1, <1>2, <1>3 DEF SameMode, SameRound

\* A probe measurement is kept with its time.
LEMMA UpdateMinRttInDecreaseKeeps ==
  ASSUME NEW b \in BbrType, now \in Nat, NEW rtt \in Nat
  PROVE  LET r == UpdateMinRttInDecrease(b, rtt)
         IN  MeasuredFrom(r, b) /\ SameRound(r, b)
BY DEF UpdateMinRttInDecrease, BbrType, SameMode, SameRound, MeasuredFrom

\* The smoothed round trip is a natural number.
LEMMA SmoothType ==
  ASSUME NEW s \in Nat, NEW rtt \in Nat
  PROVE  Smooth(s, rtt) \in Nat
<1>1. ToMilliseconds(s) \in Nat /\ ToMilliseconds(rtt) \in Nat
  BY BbrAssumption DEF ToMilliseconds
<1>2. (5 * ToMilliseconds(s) + 95 * ToMilliseconds(rtt)) \div 100 \in Nat
  BY <1>1
<1>3. QED
  BY <1>2, BbrAssumption DEF Smooth

\* Smoothing leaves everything but s_rtt_ and base_line_rtt_ alone.
LEMMA UpdateSmoothedRttKeeps ==
  ASSUME NEW b \in BbrType, NEW rtt \in Nat, NEW pn \in Nat
  PROVE  LET r == UpdateSmoothedRtt(b, rtt, pn)
         IN  r \in BbrType /\ SameMode(r, b) /\ SameRound(r, b) /\ SameProbe(r, b)
<1> DEFINE base == IF rtt < b.base_line_rtt
                     THEN [b EXCEPT !.base_line_rtt = rtt, !.s_rtt = rtt] ELSE b
           smooth == IF base.s_rtt = 0 THEN rtt ELSE Smooth(base.s_rtt, rtt)
<1>1. base \in BbrType /\ SameMode(base, b) /\ SameRound(base, b) /\ SameProbe(base, b)
  BY DEF BbrType, SameMode, SameRound, SameProbe
<1>2. base.s_rtt \in Nat
  BY <1>1 DEF BbrType
<1> HIDE DEF base
<1>3. smooth \in Nat
  BY <1>2, SmoothType
<1>4. UpdateSmoothedRtt(b, rtt, pn)
        = IF b.mode = "INCREASE" /\ pn > b.seq_at_backoff
            THEN [base EXCEPT !.s_rtt = smooth] ELSE b
  BY DEF UpdateSmoothedRtt, base
<1> HIDE DEF smooth
<1>5. QED
  BY <1>1, <1>3, <1>4 DEF BbrType, SameMode, SameRound, SameProbe

\* UpdateRttAndInflight leaves the mode alone and dates its probe measurement.
LEMMA UpdateRttKeeps ==
  ASSUME AInv, NEW b \in BbrType, NEW pn \in Nat, Ackable(pn)
  PROVE  MeasuredFrom(UpdateRtt(b, pn), b) /\ SameRound(UpdateRtt(b, pn), b)
<1>1. now \in Nat
  BY BbrAssumption DEF AInv
<1>2. CASE pn \in DOMAIN Map
  <2> DEFINE rtt == now - Map[pn].sent_ts
             r1 == UpdateMinRtt(b, rtt)
             r2 == UpdateMinRttInDecrease(r1, rtt)
             r3 == UpdateSmoothedRtt(r2, rtt, pn)
  <2>1. rtt \in Nat
    BY <1>1, <1>2, BbrAssumption DEF Ackable, AInv, FlightOK, Outstanding, Map, PacketType
  <2>2. UpdateRtt(b, pn) = r3
    BY <1>2 DEF UpdateRtt
  <2> HIDE DEF rtt
  <2>3. /\ r1 \in BbrType /\ SameMode(r1, b) /\ SameRound(r1, b)
        /\ r1.min_rtt_in_decrease = b.min_rtt_in_decrease
        /\ r1.min_rtt_timestamp_in_decrease = b.min_rtt_timestamp_in_decrease
    BY <1>1, <2>1, UpdateMinRttKeeps
  <2> HIDE DEF r1
  <2>4. MeasuredFrom(r2, r1) /\ SameRound(r2, r1)
    BY <1>1, <2>1, <2>3, UpdateMinRttInDecreaseKeeps
  <2> HIDE DEF r2
  <2>5. r3 \in BbrType /\ SameMode(r3, r2) /\ SameRound(r3, r2) /\ SameProbe(r3, r2)
    BY <2>1, <2>4, UpdateSmoothedRttKeeps DEF MeasuredFrom
  <2> HIDE DEF r3
  <2>6. QED
    BY <2>2, <2>3, <2>4, <2>5 DEF MeasuredFrom, SameMode, SameRound, SameProbe
<1>3. CASE pn \notin DOMAIN Map
  BY <1>3 DEF UpdateRtt, MeasuredFrom, SameMode, SameRound
<1>4. QED
  BY <1>2, <1>3

\* Measured: as above, and the round advances exactly when RoundUpdate says so.
LEMMA MeasuredKeeps ==
  ASSUME AInv, bbr \in BbrType, NEW pn \in Nat, Ackable(pn)
  PROVE  /\ MeasuredFrom(Measured(pn), bbr)
         /\ Measured(pn).round_trip_count
              = IF RoundUpdate(pn) THEN bbr.round_trip_count + 1 ELSE bbr.round_trip_count
<1> DEFINE r == UpdateRtt(bbr, pn)
           count == r.round_trip_count + 1
           ended == [r EXCEPT !.round_trip_count = count,
                              !.current_round_trip_end = flight.last_sent_packet]
<1>1. MeasuredFrom(r, bbr) /\ SameRound(r, bbr)
  BY UpdateRttKeeps
<1>2. flight.last_sent_packet \in Nat
  BY DEF AInv, FlightOK
<1>3. Measured(pn) = IF RoundUpdate(pn) THEN ended ELSE r
  BY <1>1 DEF Measured, UpdateRoundTripCounter, RoundUpdate, SameRound
<1> HIDE DEF r
<1>4. r \in BbrType /\ count \in Nat
  BY <1>1 DEF MeasuredFrom, BbrType
<1> HIDE DEF count
<1>5. /\ ended \in BbrType /\ SameMode(ended, r) /\ SameProbe(ended, r)
      /\ ended.round_trip_count = count
  BY <1>2, <1>4 DEF BbrType, SameMode, SameProbe
<1> HIDE DEF ended
<1>6. QED
  BY <1>1, <1>3, <1>5 DEF MeasuredFrom, SameMode, SameRound, SameProbe, count
-----------------------------------------------------------------------------
(* The modes *)

\* Recording a gap in the acks touches nothing else.
LEMMA RecordGapKeeps ==
  ASSUME NEW b \in BbrType, NEW pn \in Nat, flight.last_sent_packet \in Nat
  PROVE  LET r == RecordGap(b, pn)
         IN  /\ r \in BbrType /\ SameMode(r, b) /\ SameProbe(r, b)
             /\ r.round_trip_count = b.round_trip_count
BY DEF RecordGap, BbrType, SameMode, SameProbe

\* EnterDecrease leaves the members alone or starts a backoff.
LEMMA EnterDecreaseResult ==
  ASSUME NEW b \in BbrType, NEW expired \in BOOLEAN, NEW best \in Nat,
         flight.last_sent_packet \in Nat
  PROVE  LET r == EnterDecrease(b, expired, best)
         IN  /\ r \in BbrType
             /\ r.round_trip_count = b.round_trip_count
             /\ \/ r = b
                \/ /\ b.mode # "DECREASE"
                   /\ r.mode = "DECREASE"
                   /\ r.pacing_gain = BackoffGain
                   /\ r.is_at_full_bandwidth = b.is_at_full_bandwidth
                   /\ r.exit_probe_rtt_at = Zero
                   /\ r.min_rtt_in_decrease = InfiniteDelta
<1> DEFINE window == GetTargetCongestionWindow(b, best)
           b1 == [b EXCEPT !.seq_at_backoff = flight.last_sent_packet,
                           !.s_rtt = 0,
                           !.base_line_rtt = InfiniteDelta,
                           !.mode = "DECREASE"]
           b2 == [b1 EXCEPT !.min_rtt_record = b.min_rtt,
                            !.exit_probe_rtt_at = Zero,
                            !.max_bw_in_increase = Zero,
                            !.min_rtt_in_decrease = InfiniteDelta]
           b3 == [b2 EXCEPT !.pacing_gain = BackoffGain,
                            !.bdp = window,
                            !.min_rtt_expired = expired]
<1>1. EnterDecrease(b, expired, best) \in {b, b3}
  BY DEF EnterDecrease
<1>2. EnterDecrease(b, expired, best) # b => b.mode # "DECREASE"
  BY DEF EnterDecrease
<1>3. window \in Nat
  BY WindowType
<1> HIDE DEF window
<1>4. /\ b1 \in BbrType /\ b1.mode = "DECREASE"
      /\ b1.round_trip_count = b.round_trip_count
      /\ b1.is_at_full_bandwidth = b.is_at_full_bandwidth
  BY BbrAssumption DEF BbrType, Modes
<1>5. b.min_rtt \in Nat
  BY DEF BbrType
<1> HIDE DEF b1
<1>6. /\ b2 \in BbrType /\ b2.mode = b1.mode
      /\ b2.round_trip_count = b1.round_trip_count
      /\ b2.is_at_full_bandwidth = b1.is_at_full_bandwidth
      /\ b2.exit_probe_rtt_at = Zero /\ b2.min_rtt_in_decrease = InfiniteDelta
  BY <1>4, <1>5, BbrAssumption DEF BbrType, Zero
<1> HIDE DEF b2
<1>7. b3 \in BbrType
  BY <1>3, <1>6, ZenonT(60) DEF BbrType, BackoffGain
<1>8. /\ b3.mode = b2.mode
      /\ b3.round_trip_count = b2.round_trip_count
      /\ b3.is_at_full_bandwidth = b2.is_at_full_bandwidth
      /\ b3.exit_probe_rtt_at = b2.exit_probe_rtt_at
      /\ b3.min_rtt_in_decrease = b2.min_rtt_in_decrease
      /\ b3.pacing_gain = BackoffGain
  BY <1>6 DEF BbrType
<1> HIDE DEF b3
<1>9. QED
  BY <1>1, <1>2, <1>4, <1>6, <1>7, <1>8

\* The end of a probe renews min_rtt_ with a measurement and its time.
LEMMA RenewMinRttResult ==
  ASSUME NEW b \in BbrType, now \in Nat
  PROVE  LET r == RenewMinRtt(b)
         IN  /\ r \in BbrType
             /\ r.round_trip_count = b.round_trip_count
             /\ r.is_at_full_bandwidth = b.is_at_full_bandwidth
             /\ r.min_rtt_expired = FALSE
             /\ b.min_rtt_expired =>
                  \/ r.min_rtt_timestamp = now
                  \/ /\ b.min_rtt_in_decrease # InfiniteDelta
                     /\ r.min_rtt_timestamp = b.min_rtt_timestamp_in_decrease
<1> DEFINE old == [b EXCEPT !.min_rtt = b.min_rtt_record, !.min_rtt_timestamp = now,
                            !.min_rtt_expired = FALSE]
           new == [b EXCEPT !.min_rtt = b.min_rtt_in_decrease,
                            !.min_rtt_timestamp = b.min_rtt_timestamp_in_decrease,
                            !.min_rtt_expired = FALSE]
<1>1. b.min_rtt_record \in Nat /\ b.min_rtt_in_decrease \in Nat
      /\ b.min_rtt_timestamp_in_decrease \in Nat /\ b.min_rtt_expired \in BOOLEAN
  BY DEF BbrType
<1>2. /\ old \in BbrType
      /\ old.round_trip_count = b.round_trip_count
      /\ old.is_at_full_bandwidth = b.is_at_full_bandwidth
      /\ old.min_rtt_expired = FALSE /\ old.min_rtt_timestamp = now
  BY <1>1 DEF BbrType
<1>3. /\ new \in BbrType
      /\ new.round_trip_count = b.round_trip_count
      /\ new.is_at_full_bandwidth = b.is_at_full_bandwidth
      /\ new.min_rtt_expired = FALSE
      /\ new.min_rtt_timestamp = b.min_rtt_timestamp_in_decrease
  BY <1>1 DEF BbrType
<1>4. \/ b.min_rtt_expired = FALSE /\ RenewMinRtt(b) = b
      \/ RenewMinRtt(b) = old
      \/ b.min_rtt_in_decrease # InfiniteDelta /\ RenewMinRtt(b) = new
  BY <1>1 DEF RenewMinRtt
<1> HIDE DEF old, new
<1>5. QED
  BY <1>1, <1>2, <1>3, <1>4

\* ST_INCREASE is entered at the drawn phase, which starts now.
LEMMA EnterIncreaseResult ==
  ASSUME NEW b \in BbrType, now \in Nat, NEW offset \in EntryOffsets
  PROVE  LET r == EnterIncreaseMode(b, offset)
         IN  /\ r \in BbrType
             /\ r.mode = "INCREASE"
             /\ r.cycle_current_offset = offset
             /\ r.pacing_gain = kPacingGain[offset]
             /\ r.last_cycle_start = now
             /\ r.round_trip_count = b.round_trip_count
             /\ r.is_at_full_bandwidth = b.is_at_full_bandwidth
             /\ r.min_rtt_expired = b.min_rtt_expired
             /\ r.min_rtt_timestamp = b.min_rtt_timestamp
<1>1. offset \in Phases /\ kPacingGain[offset] \in Nat
  BY BbrAssumption DEF EntryOffsets
<1>2. QED
  BY <1>1 DEF EnterIncreaseMode, BbrType, Modes

\* Not in ST_DECREASE, staying in it, or leaving it for ST_INCREASE.
ExitedFrom(r, b, inflight, offset) ==
  /\ r \in BbrType
  /\ r.round_trip_count = b.round_trip_count
  /\ r.is_at_full_bandwidth = b.is_at_full_bandwidth
  /\ \/ b.mode # "DECREASE" /\ r = b
     \/ /\ b.mode = "DECREASE" /\ r.mode = "DECREASE"
        /\ inflight > b.bdp /\ r.bdp = b.bdp
        /\ r.pacing_gain = b.pacing_gain
        /\ r.min_rtt_expired = b.min_rtt_expired
        /\ r.exit_probe_rtt_at
             = IF b.exit_probe_rtt_at = Zero THEN now ELSE b.exit_probe_rtt_at
        /\ SameProbe(r, b)
     \/ /\ b.mode = "DECREASE" /\ r.mode = "INCREASE"
        /\ r.cycle_current_offset = offset
        /\ r.pacing_gain = kPacingGain[offset]
        /\ r.last_cycle_start = now
        /\ r.min_rtt_expired = FALSE
        /\ b.min_rtt_expired =>
             \/ r.min_rtt_timestamp = now
             \/ /\ b.min_rtt_in_decrease # InfiniteDelta
                /\ r.min_rtt_timestamp = b.min_rtt_timestamp_in_decrease

\* Where a controller is after it considered the end of a backoff.
LEMMA ExitDecreaseResult ==
  ASSUME NEW b \in BbrType, now \in Nat, NEW inflight \in Nat, NEW offset \in EntryOffsets
  PROVE  ExitedFrom(ExitDecrease(b, inflight, offset), b, inflight, offset)
<1> DEFINE timed == IF b.exit_probe_rtt_at = Zero THEN [b EXCEPT !.exit_probe_rtt_at = now]
                    ELSE b
           done == \/ inflight <= b.bdp
                   \/ b.min_rtt_expired /\ now - timed.exit_probe_rtt_at > 4 * b.min_rtt_record
           renewed == RenewMinRtt(timed)
           r == ExitDecrease(b, inflight, offset)
<1>1. /\ timed \in BbrType /\ SameProbe(timed, b)
      /\ timed.mode = b.mode /\ timed.bdp = b.bdp
      /\ timed.pacing_gain = b.pacing_gain
      /\ timed.min_rtt_expired = b.min_rtt_expired
      /\ timed.round_trip_count = b.round_trip_count
      /\ timed.is_at_full_bandwidth = b.is_at_full_bandwidth
      /\ timed.exit_probe_rtt_at
           = IF b.exit_probe_rtt_at = Zero THEN now ELSE b.exit_probe_rtt_at
  BY DEF BbrType, SameProbe
<1>2. \/ b.mode # "DECREASE" /\ r = b
      \/ b.mode = "DECREASE" /\ ~done /\ r = timed
      \/ b.mode = "DECREASE" /\ r = EnterIncreaseMode(renewed, offset)
  BY DEF ExitDecrease
<1>3. ~done => inflight > b.bdp
  BY DEF BbrType
<1> HIDE DEF timed, done
<1>4. /\ renewed \in BbrType
      /\ renewed.round_trip_count = b.round_trip_count
      /\ renewed.is_at_full_bandwidth = b.is_at_full_bandwidth
      /\ renewed.min_rtt_expired = FALSE
      /\ b.min_rtt_expired =>
           \/ renewed.min_rtt_timestamp = now
           \/ /\ b.min_rtt_in_decrease # InfiniteDelta
              /\ renewed.min_rtt_timestamp = b.min_rtt_timestamp_in_decrease
  BY <1>1, RenewMinRttResult DEF SameProbe
<1> HIDE DEF renewed, r
<1>5. CASE b.mode = "DECREASE" /\ r = EnterIncreaseMode(renewed, offset)
  <2>1. /\ r \in BbrType
        /\ r.mode = "INCREASE"
        /\ r.cycle_current_offset = offset
        /\ r.pacing_gain = kPacingGain[offset]
        /\ r.last_cycle_start = now
        /\ r.round_trip_count = renewed.round_trip_count
        /\ r.is_at_full_bandwidth = renewed.is_at_full_bandwidth
        /\ r.min_rtt_expired = renewed.min_rtt_expired
        /\ r.min_rtt_timestamp = renewed.min_rtt_timestamp
    BY <1>4, <1>5, EnterIncreaseResult
  <2>2. QED
    BY <1>4, <1>5, <2>1 DEF ExitedFrom, r
<1>6. CASE b.mode = "DECREASE" /\ ~done /\ r = timed
  BY <1>1, <1>3, <1>6 DEF ExitedFrom, r
<1>7. CASE b.mode # "DECREASE" /\ r = b
  BY <1>7 DEF ExitedFrom, r
<1>8. QED
  BY <1>2, <1>5, <1>6, <1>7
-----------------------------------------------------------------------------
(* The rest of OnAck *)

\* All of SameMode but is_at_full_bandwidth_, with the members around it.
SameButFull(r, b) ==
  /\ r \in BbrType
  /\ r.mode = b.mode
  /\ r.pacing_gain = b.pacing_gain
  /\ r.cycle_current_offset = b.cycle_current_offset
  /\ r.min_rtt_expired = b.min_rtt_expired
  /\ r.bdp = b.bdp
  /\ r.exit_probe_rtt_at = b.exit_probe_rtt_at
  /\ r.last_cycle_start = b.last_cycle_start
  /\ r.round_trip_count = b.round_trip_count
  /\ SameProbe(r, b)

\* CheckIfFullBandwidthReached only raises is_at_full_bandwidth_.
LEMMA FullBandwidthKeeps ==
  ASSUME NEW b \in BbrType, NEW best \in Nat
  PROVE  LET r == CheckIfFullBandwidthReached(b, best)
         IN  SameButFull(r, b) /\ (b.is_at_full_bandwidth => r.is_at_full_bandwidth)
<1> DEFINE stalled == b.rounds_without_bandwidth_gain + 1
           full == stalled >= kRoundTripsWithoutGrowth
           grown == [b EXCEPT !.bandwidth_at_last_round = best,
                              !.rounds_without_bandwidth_gain = 0]
           flat == [b EXCEPT !.rounds_without_bandwidth_gain = stalled,
                             !.is_at_full_bandwidth = full]
<1>1. \/ CheckIfFullBandwidthReached(b, best) = b
      \/ CheckIfFullBandwidthReached(b, best) = grown
      \/ ~b.is_at_full_bandwidth /\ CheckIfFullBandwidthReached(b, best) = flat
  BY DEF CheckIfFullBandwidthReached
<1>2. stalled \in Nat /\ full \in BOOLEAN
  BY BbrAssumption DEF BbrType
<1>3. SameButFull(grown, b) /\ grown.is_at_full_bandwidth = b.is_at_full_bandwidth
  BY DEF BbrType, SameButFull, SameProbe
<1> HIDE DEF stalled, full
<1>4. SameButFull(flat, b)
  BY <1>2 DEF BbrType, SameButFull, SameProbe
<1>5. SameButFull(b, b)
  BY DEF SameButFull, SameProbe
<1> HIDE DEF grown, flat
<1>6. QED
  BY <1>1, <1>3, <1>4, <1>5

\* UpdateMaxBw only touches max_bw_in_increase_.
LEMMA UpdateMaxBwKeeps ==
  ASSUME NEW b \in BbrType, NEW best \in Nat
  PROVE  LET r == UpdateMaxBw(b, best)
         IN  SameButFull(r, b) /\ r.is_at_full_bandwidth = b.is_at_full_bandwidth
BY DEF UpdateMaxBw, BbrType, SameButFull, SameProbe

\* Startup is left, for ST_DRAIN, as soon as the bandwidth is full.
LEMMA ExitStartupResult ==
  ASSUME NEW b \in BbrType
  PROVE  LET r == ExitStartup(b)
         IN  /\ r \in BbrType
             /\ r.round_trip_count = b.round_trip_count
             /\ r.min_rtt_expired = b.min_rtt_expired
             /\ r.min_rtt_timestamp = b.min_rtt_timestamp
             /\ r.is_at_full_bandwidth = b.is_at_full_bandwidth
             /\ \/ r = b /\ (b.mode = "START" => ~b.is_at_full_bandwidth)
                \/ /\ b.mode = "START" /\ b.is_at_full_bandwidth
                   /\ r.mode = "DRAIN" /\ r.pacing_gain = DrainGain
<1> DEFINE drain == [b EXCEPT !.mode = "DRAIN", !.pacing_gain = DrainGain]
<1>1. /\ drain \in BbrType
      /\ drain.round_trip_count = b.round_trip_count
      /\ drain.min_rtt_expired = b.min_rtt_expired
      /\ drain.min_rtt_timestamp = b.min_rtt_timestamp
      /\ drain.is_at_full_bandwidth = b.is_at_full_bandwidth
      /\ drain.mode = "DRAIN" /\ drain.pacing_gain = DrainGain
  BY DEF BbrType, Modes, DrainGain
<1>2. \/ ExitStartup(b) = b /\ (b.mode = "START" => ~b.is_at_full_bandwidth)
      \/ ExitStartup(b) = drain /\ b.mode = "START" /\ b.is_at_full_bandwidth
  BY DEF ExitStartup
<1> HIDE DEF drain
<1>3. QED
  BY <1>1, <1>2

\* Staying in the mode, or leaving ST_DRAIN for ST_INCREASE.
DrainedFrom(r, b, inflight, offset) ==
  /\ r \in BbrType
  /\ r.round_trip_count = b.round_trip_count
  /\ r.min_rtt_expired = b.min_rtt_expired
  /\ r.min_rtt_timestamp = b.min_rtt_timestamp
  /\ r.is_at_full_bandwidth = b.is_at_full_bandwidth
  /\ \/ r = b /\ (b.mode = "DRAIN" => inflight > 0)
     \/ /\ b.mode = "DRAIN" /\ r.mode = "INCREASE"
        /\ r.cycle_current_offset = offset
        /\ r.pacing_gain = kPacingGain[offset]
        /\ r.last_cycle_start = now

\* ST_DRAIN is left once the packets in flight fit the window.
LEMMA ExitDrainResult ==
  ASSUME NEW b \in BbrType, now \in Nat, NEW best \in Nat, NEW inflight \in Nat,
         NEW offset \in EntryOffsets
  PROVE  DrainedFrom(ExitDrain(b, best, inflight, offset), b, inflight, offset)
<1>1. GetTargetCongestionWindow(b, best) \in Nat
  BY WindowType
<1>2. \/ /\ ExitDrain(b, best, inflight, offset) = b
         /\ b.mode = "DRAIN" => inflight > 0
      \/ ExitDrain(b, best, inflight, offset) = EnterIncreaseMode(b, offset) /\ b.mode = "DRAIN"
  BY <1>1 DEF ExitDrain
<1>3. QED
  BY <1>2, EnterIncreaseResult DEF DrainedFrom

\* A phase of the gain cycle is followed by the next one, a round trip later.
LEMMA GainCycleResult ==
  ASSUME NEW b \in BbrType, now \in Nat
  PROVE  LET r == UpdateGainCyclePhase(b)
         IN  \/ r = b
             \/ /\ r \in BbrType
                /\ b.mode = "INCREASE" /\ now - b.last_cycle_start > 0
                /\ r.mode = "INCREASE"
                /\ r.cycle_current_offset = NextPhase(b.cycle_current_offset)
                /\ r.pacing_gain = kPacingGain[r.cycle_current_offset]
                /\ r.round_trip_count = b.round_trip_count
                /\ r.is_at_full_bandwidth = b.is_at_full_bandwidth
                /\ r.min_rtt_expired = b.min_rtt_expired
                /\ r.min_rtt_timestamp = b.min_rtt_timestamp
<1> DEFINE phase == NextPhase(b.cycle_current_offset)
           gain == kPacingGain[phase]
           next == [b EXCEPT !.cycle_current_offset = phase, !.last_cycle_start = now,
                             !.pacing_gain = gain]
<1>1. b.cycle_current_offset \in Phases /\ b.last_cycle_start \in Nat
  BY DEF BbrType
<1>2. phase \in Phases /\ gain \in Nat
  <2> DEFINE next_offset == b.cycle_current_offset + 1
  <2>1. next_offset \in Nat /\ kGainCycleLength \in Nat \ {0}
    BY <1>1, BbrAssumption DEF Phases
  <2> HIDE DEF next_offset
  <2>2. next_offset % kGainCycleLength \in 0..kGainCycleLength - 1
    BY <2>1
  <2>3. phase \in Phases
    BY <2>2 DEF NextPhase, Phases, next_offset
  <2> HIDE DEF phase
  <2>4. QED
    BY <2>3, BbrAssumption
<1>3. GetMinRtt(b) \in Nat \ {0}
  BY BbrAssumption DEF BbrType, GetMinRtt
<1>4. \/ UpdateGainCyclePhase(b) = b
      \/ /\ UpdateGainCyclePhase(b) = next
         /\ b.mode = "INCREASE" /\ now - b.last_cycle_start > 0
  BY <1>1, <1>3 DEF UpdateGainCyclePhase
<1> HIDE DEF phase, gain
<1>5. next \in BbrType
  BY <1>2, ZenonT(60) DEF BbrType
<1>6. /\ next.mode = b.mode
      /\ next.cycle_current_offset = phase
      /\ next.pacing_gain = gain
      /\ next.round_trip_count = b.round_trip_count
      /\ next.is_at_full_bandwidth = b.is_at_full_bandwidth
      /\ next.min_rtt_expired = b.min_rtt_expired
      /\ next.min_rtt_timestamp = b.min_rtt_timestamp
  BY ZenonT(60) DEF BbrType
<1> HIDE DEF next
<1>7. QED
  BY <1>4, <1>5, <1>6 DEF phase, gain

\* CalculatePacingRate only touches the two rates.
LEMMA PacingRateKeeps ==
  ASSUME NEW b \in BbrType, NEW best \in Nat
  PROVE  LET r == CalculatePacingRate(b, best)
         IN  SameButFull(r, b) /\ r.is_at_full_bandwidth = b.is_at_full_bandwidth
<1> DEFINE scaled == Scaled(b.pacing_gain, 100, best)
           initial == FromBytesAndTimeDelta(InitialCongestionWindow, GetMinRtt(b))
           rate == IF scaled = Zero THEN initial ELSE scaled
           low == [b EXCEPT !.pacing_rate = MinBw, !.reference_rate = MinBw]
           set == [b EXCEPT !.pacing_rate = rate, !.reference_rate = best]
<1>1. b.pacing_gain \in Nat
  BY DEF BbrType
<1>2. scaled \in Nat
  BY <1>1, ScaledType
<1>3. initial \in Nat
  BY WindowType, RateType, BbrAssumption
<1>4. rate \in Nat
  BY <1>2, <1>3
<1>5. CalculatePacingRate(b, best) \in {low, set}
  BY DEF CalculatePacingRate
<1> HIDE DEF rate
<1>6. SameButFull(low, b) /\ low.is_at_full_bandwidth = b.is_at_full_bandwidth
  BY BbrAssumption DEF BbrType, SameButFull, SameProbe
<1>7. SameButFull(set, b) /\ set.is_at_full_bandwidth = b.is_at_full_bandwidth
  BY <1>4 DEF BbrType, SameButFull, SameProbe
<1> HIDE DEF low, set
<1>8. QED
  BY <1>5, <1>6, <1>7
-----------------------------------------------------------------------------
(* The two halves of OnAck *)

\* ModeConsistent without its conjunct on startup, which only holds once
\* MaybeExitStartupOrDrain has run.
Coherent(b) ==
  /\ b.pacing_gain = GainOf(b)
  /\ b.mode = "DRAIN" => b.is_at_full_bandwidth
  /\ b.min_rtt_expired => b.mode = "DECREASE"

\* ProbeMeasurementFresh of a record.
Probed(b) ==
  /\ b.exit_probe_rtt_at > 0
  /\ b.exit_probe_rtt_at <= now
  /\ b.min_rtt_in_decrease # InfiniteDelta =>
       b.min_rtt_timestamp_in_decrease >= b.exit_probe_rtt_at

\* The first phase is the only one the second follows.
LEMMA SecondPhase ==
  ASSUME NEW phase \in Phases, NextPhase(phase) = 1
  PROVE  phase = 0
<1> DEFINE turns == (phase + 1) \div kGainCycleLength
<1>1. /\ kGainCycleLength \in Nat /\ kGainCycleLength >= 2
      /\ phase \in Nat /\ phase < kGainCycleLength
  BY BbrAssumption DEF Phases
<1>2. turns \in Nat /\ phase + 1 = kGainCycleLength * turns + NextPhase(phase)
  BY <1>1 DEF NextPhase
<1> HIDE DEF turns
<1>3. phase = kGainCycleLength * turns
  BY <1>1, <1>2
<1>4. turns >= 1 => kGainCycleLength * turns >= kGainCycleLength
  BY <1>1, <1>2
<1>5. turns = 0
  BY <1>1, <1>2, <1>3, <1>4
<1>6. QED
  BY <1>1, <1>3, <1>5

\* Congestion check and backoff: stay, be in ST_DECREASE, or enter ST_INCREASE.
LEMMA BackoffResult ==
  ASSUME AInv, now > 0, max_bandwidth \in Estimates, NEW b \in BbrType, Coherent(b),
         b.mode = "DECREASE" => Probed(b),
         NEW pn \in Nat, NEW inflight \in Nat, NEW offset \in EntryOffsets
  PROVE  LET r == Backoff(b, pn, inflight, offset)
         IN  /\ r \in BbrType
             /\ r.round_trip_count = b.round_trip_count
             /\ Coherent(r)
             /\ r.mode = "DECREASE" => Probed(r) /\ inflight > r.bdp
             /\ b.min_rtt_expired /\ ~r.min_rtt_expired =>
                  r.min_rtt_timestamp >= b.exit_probe_rtt_at
             /\ \/ /\ b.mode # "DECREASE" /\ r.mode = b.mode
                   /\ r.cycle_current_offset = b.cycle_current_offset
                   /\ r.last_cycle_start = b.last_cycle_start
                \/ r.mode = "DECREASE"
                \/ /\ r.mode = "INCREASE"
                   /\ r.cycle_current_offset = offset /\ r.last_cycle_start = now
<1> DEFINE expired == now > b.min_rtt_timestamp + kMinRttExpiry
           best == GetBest(max_bandwidth)
           g == RecordGap(b, pn)
           e == EnterDecrease(g, expired, best)
           r == ExitDecrease(e, inflight, offset)
<1>1. Backoff(b, pn, inflight, offset) = r
  BY DEF Backoff, MaybeEnterOrExitDecrease
<1>2. now \in Nat /\ flight.last_sent_packet \in Nat
  BY BbrAssumption DEF AInv, FlightOK
<1>3. best \in Nat
  BY DEF GetBest, Estimates
<1>4. expired \in BOOLEAN
  OBVIOUS
<1> HIDE DEF expired, best
<1>5. /\ g \in BbrType /\ SameMode(g, b) /\ SameProbe(g, b)
      /\ g.round_trip_count = b.round_trip_count
  BY <1>2, RecordGapKeeps
<1> HIDE DEF g
<1>6. /\ e \in BbrType
      /\ e.round_trip_count = g.round_trip_count
      /\ \/ e = g
         \/ /\ g.mode # "DECREASE"
            /\ e.mode = "DECREASE"
            /\ e.pacing_gain = BackoffGain
            /\ e.is_at_full_bandwidth = g.is_at_full_bandwidth
            /\ e.exit_probe_rtt_at = Zero
            /\ e.min_rtt_in_decrease = InfiniteDelta
  BY <1>2, <1>3, <1>4, <1>5, EnterDecreaseResult
<1> HIDE DEF e
<1>7. ExitedFrom(r, e, inflight, offset)
  BY <1>2, <1>6, ExitDecreaseResult
<1> HIDE DEF r
<1>8. /\ Coherent(g) /\ (g.mode = "DECREASE" => Probed(g))
      /\ g.mode = b.mode
      /\ g.cycle_current_offset = b.cycle_current_offset
      /\ g.last_cycle_start = b.last_cycle_start
      /\ g.min_rtt_expired = b.min_rtt_expired
      /\ g.exit_probe_rtt_at = b.exit_probe_rtt_at
  BY <1>5 DEF Coherent, Probed, SameMode, SameProbe, GainOf
<1>9. e.mode = "DECREASE" => e.pacing_gain = BackoffGain
  BY <1>6, <1>8 DEF Coherent, GainOf
<1>10. Coherent(r)
  BY <1>6, <1>7, <1>8, <1>9 DEF ExitedFrom, Coherent, GainOf
<1>11. r.mode = "DECREASE" => Probed(r) /\ inflight > r.bdp
  BY <1>2, <1>6, <1>7, <1>8 DEF ExitedFrom, Probed, SameProbe, Zero, BbrType
<1>12. b.min_rtt_expired /\ ~r.min_rtt_expired => r.min_rtt_timestamp >= b.exit_probe_rtt_at
  BY <1>2, <1>6, <1>7, <1>8 DEF ExitedFrom, Coherent, Probed, BbrType
<1>13. QED
  BY <1>1, <1>5, <1>6, <1>7, <1>8, <1>10, <1>11, <1>12 DEF ExitedFrom

\* The rest of OnAck leaves a backoff alone, and the others in a mode that fits.
AdvancedFrom(r, b, inflight, offset) ==
  /\ r \in BbrType
  /\ r.round_trip_count = b.round_trip_count
  /\ r.min_rtt_expired = b.min_rtt_expired
  /\ r.min_rtt_timestamp = b.min_rtt_timestamp
  /\ Coherent(r)
  /\ r.mode = "START" => b.mode = "START" /\ ~r.is_at_full_bandwidth
  /\ r.mode = "DRAIN" => b.mode \in {"START", "DRAIN"} /\ inflight > 0
  /\ b.mode = "INCREASE" => r.mode = "INCREASE"
  /\ r.mode = "DECREASE" <=> b.mode = "DECREASE"
  /\ r.mode = "DECREASE" => /\ r.bdp = b.bdp
                            /\ r.exit_probe_rtt_at = b.exit_probe_rtt_at
                            /\ SameProbe(r, b)
  /\ r.mode = "INCREASE" /\ r.cycle_current_offset = 1 =>
       /\ b.mode = "INCREASE"
       /\ \/ b.cycle_current_offset = 1
          \/ b.cycle_current_offset = 0 /\ now - b.last_cycle_start > 0

\* Startup and drain, the gain cycle and the pacing rate.
LEMMA AdvanceResult ==
  ASSUME NEW b \in BbrType, Coherent(b), now \in Nat, NEW pn \in Nat, NEW best \in Nat,
         NEW inflight \in Nat, NEW offset \in EntryOffsets
  PROVE  AdvancedFrom(Advance(b, pn, best, inflight, offset), b, inflight, offset)
<1> DEFINE m == UpdateMaxBw(b, best)
           c == CheckIfFullBandwidthReached(m, best)
           g == IF RoundUpdate(pn) THEN c ELSE b
           x == ExitStartup(g)
           d == ExitDrain(x, best, inflight, offset)
           u == UpdateGainCyclePhase(d)
           r == CalculatePacingRate(u, best)
<1>1. Advance(b, pn, best, inflight, offset) = r
  BY DEF Advance, MaybeExitStartupOrDrain
<1>2. SameButFull(m, b) /\ m.is_at_full_bandwidth = b.is_at_full_bandwidth
  BY UpdateMaxBwKeeps
<1>3. m \in BbrType
  BY <1>2 DEF SameButFull
<1> HIDE DEF m
<1>4. SameButFull(c, m) /\ (m.is_at_full_bandwidth => c.is_at_full_bandwidth)
  BY <1>3, FullBandwidthKeeps
<1> HIDE DEF c
<1>5. SameButFull(g, b) /\ (b.is_at_full_bandwidth => g.is_at_full_bandwidth)
  BY <1>2, <1>4 DEF SameButFull, SameProbe
<1>6. g \in BbrType
  BY <1>5 DEF SameButFull
<1> HIDE DEF g
<1>7. /\ x \in BbrType
      /\ x.round_trip_count = g.round_trip_count
      /\ x.min_rtt_expired = g.min_rtt_expired
      /\ x.min_rtt_timestamp = g.min_rtt_timestamp
      /\ x.is_at_full_bandwidth = g.is_at_full_bandwidth
      /\ \/ x = g /\ (g.mode = "START" => ~g.is_at_full_bandwidth)
         \/ /\ g.mode = "START" /\ g.is_at_full_bandwidth
            /\ x.mode = "DRAIN" /\ x.pacing_gain = DrainGain
  BY <1>6, ExitStartupResult
<1> HIDE DEF x
<1>8. DrainedFrom(d, x, inflight, offset)
  BY <1>7, ExitDrainResult
<1> HIDE DEF d
<1>9. \/ u = d
      \/ /\ u \in BbrType
         /\ d.mode = "INCREASE" /\ now - d.last_cycle_start > 0
         /\ u.mode = "INCREASE"
         /\ u.cycle_current_offset = NextPhase(d.cycle_current_offset)
         /\ u.pacing_gain = kPacingGain[u.cycle_current_offset]
         /\ u.round_trip_count = d.round_trip_count
         /\ u.is_at_full_bandwidth = d.is_at_full_bandwidth
         /\ u.min_rtt_expired = d.min_rtt_expired
         /\ u.min_rtt_timestamp = d.min_rtt_timestamp
  BY <1>8, GainCycleResult DEF DrainedFrom
<1>10. u \in BbrType
  BY <1>8, <1>9 DEF DrainedFrom
<1> HIDE DEF u
<1>11. SameButFull(r, u) /\ r.is_at_full_bandwidth = u.is_at_full_bandwidth
  BY <1>10, PacingRateKeeps
<1> HIDE DEF r
<1>12. Coherent(g)
  BY <1>5 DEF SameButFull, Coherent, GainOf
<1>13. AdvancedFrom(d, b, inflight, offset) /\ d.last_cycle_start \in Nat
  <2>1. offset # 1 /\ offset \in Phases
    BY DEF EntryOffsets
  <2>2. CASE d = g
    BY <2>2, <1>5, <1>6, <1>7, <1>8, <1>12
       DEF DrainedFrom, AdvancedFrom, SameButFull, SameProbe, Coherent, BbrType
  <2>3. CASE d # g
    BY <2>1, <2>3, <1>5, <1>6, <1>7, <1>8, <1>12
       DEF DrainedFrom, AdvancedFrom, SameButFull, SameProbe, Coherent, GainOf, BbrType
  <2>4. QED
    BY <2>2, <2>3
<1>14. AdvancedFrom(u, b, inflight, offset)
  <2>1. CASE u = d
    BY <2>1, <1>13
  <2>2. CASE u # d
    <3>1. d.cycle_current_offset \in Phases
      BY <1>8 DEF DrainedFrom, BbrType
    <3>2. u.cycle_current_offset = 1 => d.cycle_current_offset = 0
      BY <2>2, <3>1, <1>9, SecondPhase
    <3>3. u.cycle_current_offset = 1 =>
            /\ b.mode = "INCREASE" /\ b.cycle_current_offset = 0
            /\ now - b.last_cycle_start > 0
      BY <2>2, <3>2, <1>5, <1>7, <1>8, <1>9 DEF DrainedFrom, SameButFull
    <3>4. Coherent(u)
      BY <2>2, <1>9, <1>13 DEF AdvancedFrom, Coherent, GainOf
    <3>5. QED
      BY <2>2, <3>3, <3>4, <1>9, <1>13 DEF AdvancedFrom
  <2>3. QED
    BY <2>1, <2>2
<1>15. QED
  BY <1>1, <1>11, <1>14 DEF AdvancedFrom, SameButFull, SameProbe, Coherent, GainOf

\* A bandwidth sample is a natural number: SnapshotsSound is what it takes.
LEMMA SampleNat ==
  ASSUME AInv, NEW pn \in Nat, NEW update \in BOOLEAN
  PROVE  BandwidthSample(sampler, now, pn, update) \in Nat
<1>1. CASE pn \notin DOMAIN sampler.packet_infos
  BY <1>1 DEF BandwidthSample, Zero
<1>2. CASE pn \in DOMAIN sampler.packet_infos
  <2> DEFINE sent == sampler.packet_infos[pn]
             acked == sampler.total_bytes_acked + sent.size
             rate == AckRate(acked, now, sent)
  <2>1. sent \in PacketStateType /\ acked \in Nat /\ now \in Nat
    BY <1>2, BbrAssumption DEF AInv, SamplerOK, PacketStateType
  <2>2. /\ sent.total_bytes_acked_at_the_last_acked_packet <= acked
        /\ sent.total_bytes_sent_at_last_acked_packet <= sent.total_bytes_sent
    BY <1>2, <2>1 DEF AInv, SnapshotsSound, SamplerOK, PacketStateType
  <2> HIDE DEF sent, acked
  <2>3. now > sent.last_acked_packet_ack_time => rate \in Nat
    <3>1. SUFFICES ASSUME now > sent.last_acked_packet_ack_time PROVE rate \in Nat
      OBVIOUS
    <3>2. /\ acked - sent.total_bytes_acked_at_the_last_acked_packet \in Nat
          /\ now - sent.last_acked_packet_ack_time \in Nat \ {0}
      BY <2>1, <2>2, <3>1 DEF PacketStateType
    <3>3. QED
      BY <3>2, RateType DEF AckRate
  <2>4. sent.sent_time > sent.last_acked_packet_sent_time => SendRate(sent) \in Nat
    <3>1. SUFFICES ASSUME sent.sent_time > sent.last_acked_packet_sent_time
                   PROVE  SendRate(sent) \in Nat
      OBVIOUS
    <3>2. /\ sent.total_bytes_sent - sent.total_bytes_sent_at_last_acked_packet \in Nat
          /\ sent.sent_time - sent.last_acked_packet_sent_time \in Nat \ {0}
      BY <2>1, <2>2, <3>1 DEF PacketStateType
    <3>3. QED
      BY <3>2, RateType DEF SendRate
  <2>5. /\ sent.last_acked_packet_ack_time \in Nat
        /\ sent.sent_time \in Nat /\ sent.last_acked_packet_sent_time \in Nat
    BY <2>1 DEF PacketStateType
  <2>6. BandwidthSample(sampler, now, pn, update)
          = IF ~update THEN Zero
            ELSE IF \/ sent.last_acked_packet_sent_time = Zero
                    \/ now <= sent.last_acked_packet_ack_time THEN Zero
            ELSE IF /\ sent.sent_time > sent.last_acked_packet_sent_time
                    /\ SendRate(sent) < rate THEN SendRate(sent)
            ELSE rate
    BY <1>2 DEF BandwidthSample, sent, acked
  <2> HIDE DEF rate
  <2>7. QED
    BY <2>1, <2>3, <2>4, <2>5, <2>6 DEF Zero
<1>3. QED
  BY <1>1, <1>2
-----------------------------------------------------------------------------
(* The inductive invariant *)

\* Until the first round trip is over the controller is in startup and the
\* filter holds its initial estimates.
FirstRound ==
  bbr.round_trip_count = 0 => bbr.mode = "START" /\ max_bandwidth[2].time = 0

BInv ==
  /\ AInv
  /\ max_bandwidth \in Estimates
  /\ bbr \in BbrType
  /\ ModeConsistent
  /\ FilterBehindRound
  /\ NeverStuck
  /\ ProbeMeasurementFresh
  /\ FirstRound

\* Bytes belong to packets.
LEMMA BytesHavePackets ==
  ASSUME NEW map, Cardinality(Octets(map)) > 0
  PROVE  DOMAIN map # {}
<1>1. SUFFICES ASSUME DOMAIN map = {} PROVE FALSE
  OBVIOUS
<1>2. Octets(map) = {}
  BY <1>1 DEF Octets
<1>3. QED
  BY <1>2, FS_EmptySet

\* The initial state satisfies the invariant.
LEMMA InitModes ==
  ASSUME Init
  PROVE  BInv
<1>1. AInv
  BY InitAccounting
<1>2. max_bandwidth \in Estimates
  BY DEF Init, FilterInit, Reset, Sample, ZeroValue, Estimates
<1>3. bbr \in BbrType
  BY BbrAssumption DEF Init, BbrType, Modes, HighGain, Zero, Phases
<1>4. ModeConsistent /\ NeverStuck /\ ProbeMeasurementFresh
  BY DEF Init, ModeConsistent, GainOf, NeverStuck, ProbeMeasurementFresh
<1>5. FilterBehindRound /\ FirstRound
  <2>1. max_bandwidth = [i \in 0..2 |-> [sample |-> ZeroValue, time |-> 0]]
    BY Zenon DEF Init, FilterInit, Reset, Sample
  <2>2. /\ max_bandwidth[0].time = 0 /\ max_bandwidth[1].time = 0
        /\ max_bandwidth[2].time = 0
    BY ONLY <2>1
  <2>3. bbr.round_trip_count = 0 /\ bbr.mode = "START"
    BY DEF Init
  <2>4. QED
    BY ONLY <2>2, <2>3 DEF FilterBehindRound, FirstRound
<1>6. QED
  BY <1>1, <1>2, <1>3, <1>4, <1>5 DEF BInv

\* An ack of the first round.
LEMMA FirstRoundAck ==
  ASSUME BInv, AInv', NEW pn \in Nat, Ackable(pn), OnAckInFirstRound(pn)
  PROVE  BInv' /\ bbr'.mode = "START" /\ ~bbr'.min_rtt_expired
<1> DEFINE best == GetBest(max_bandwidth)
           m == Measured(pn)
<1>1. best \in Nat
  BY DEF BInv, GetBest, Estimates
<1>2. /\ MeasuredFrom(m, bbr)
      /\ m.round_trip_count
           = IF RoundUpdate(pn) THEN bbr.round_trip_count + 1 ELSE bbr.round_trip_count
  BY MeasuredKeeps DEF BInv
<1>3. m \in BbrType
  BY <1>2 DEF MeasuredFrom
<1> HIDE DEF best, m
<1>4. SameButFull(bbr', m) /\ bbr'.is_at_full_bandwidth = m.is_at_full_bandwidth
  BY <1>1, <1>3, PacingRateKeeps DEF OnAckInFirstRound, best, m
<1>5. bbr.mode = "START" /\ bbr.round_trip_count = 0 /\ max_bandwidth[2].time = 0
  BY DEF BInv, FirstRound, OnAckInFirstRound
<1>6. max_bandwidth' = max_bandwidth /\ bbr' \in BbrType
  BY <1>4 DEF OnAckInFirstRound, SameButFull
<1>7. bbr'.mode = "START" /\ ModeConsistent'
  BY <1>2, <1>4, <1>5 DEF BInv, ModeConsistent, GainOf, MeasuredFrom, SameMode, SameButFull
<1>8. NeverStuck' /\ ProbeMeasurementFresh' /\ FirstRound'
  BY <1>5, <1>6, <1>7 DEF NeverStuck, ProbeMeasurementFresh, FirstRound
<1>9. FilterBehindRound'
  BY <1>2, <1>4, <1>5, <1>6 DEF BInv, FilterBehindRound, SameButFull
<1>10. QED
  BY <1>6, <1>7, <1>8, <1>9 DEF BInv, ModeConsistent

SampleType == [sample : Nat, time : Nat]

\* Oldest estimate first, none later than t.
OrderedBy(est, t) ==
  /\ est[0].time <= est[1].time
  /\ est[1].time <= est[2].time
  /\ est[2].time <= t

(***************************************************************************)
(* Update keeps three well-typed estimates.                                *)
(***************************************************************************)
LEMMA UpdateType ==
  ASSUME NEW est \in Estimates, NEW new \in SampleType
  PROVE  Update(est, new) \in Estimates
<1> USE WindowLengthAssumption DEF Estimates, SampleType
<1>1. Insert(est, new) \in Estimates
  BY DEF Insert
<1>2. Reset(new) \in Estimates
  BY DEF Reset
<1>3. Expire(Insert(est, new), new) \in Estimates
  BY <1>1 DEF Expire
<1>4. Refresh(Insert(est, new), new) \in Estimates
  BY <1>1 DEF Refresh
<1>5. QED
  BY <1>2, <1>3, <1>4 DEF Update

(***************************************************************************)
(* windowed_filter.h:11: Update keeps the estimates ordered in time.       *)
(***************************************************************************)
LEMMA UpdateOrdered ==
  ASSUME NEW est \in Estimates, NEW new \in SampleType, OrderedBy(est, new.time)
  PROVE  OrderedBy(Update(est, new), new.time)
<1> USE WindowLengthAssumption DEF Estimates, SampleType, OrderedBy
<1>1. OrderedBy(Insert(est, new), new.time) /\ Insert(est, new) \in Estimates
  BY DEF Insert
<1>2. OrderedBy(Reset(new), new.time)
  BY DEF Reset
<1>3. OrderedBy(Expire(Insert(est, new), new), new.time)
  BY <1>1 DEF Expire
<1>4. OrderedBy(Refresh(Insert(est, new), new), new.time)
  <2>1. PICK ins : ins = Insert(est, new)
    OBVIOUS
  <2>2. PICK r : r = Refresh(ins, new)
    OBVIOUS
  <2>3. \/ r = [ins EXCEPT ![1] = new, ![2] = new]
        \/ r = [ins EXCEPT ![2] = new]
        \/ r = ins
    BY <2>2 DEF Refresh
  <2>4. ins \in Estimates /\ OrderedBy(ins, new.time)
    BY <1>1, <2>1
  <2>5. OrderedBy(r, new.time)
    BY <2>3, <2>4
  <2>6. QED
    BY <2>1, <2>2, <2>5
<1>5. QED
  BY <1>2, <1>3, <1>4 DEF Update

\* max_bandwidth_.Update is given a later round than the estimates it holds.
LEMMA FilterUpdated ==
  ASSUME BInv, NEW pn \in Nat, bbr.round_trip_count > 0
  PROVE  LET est == UpdateMaxBandwidth(pn)
         IN  /\ est \in Estimates
             /\ est[0].time <= est[1].time /\ est[1].time <= est[2].time
             /\ est[2].time < IF RoundUpdate(pn) THEN bbr.round_trip_count + 1
                              ELSE bbr.round_trip_count
<1> DEFINE bw == BandwidthSample(sampler, now, pn, TRUE)
           new == Sample(bw, bbr.round_trip_count)
           est == Update(max_bandwidth, new)
<1>1. bw \in Nat /\ bbr.round_trip_count \in Nat
  BY SampleNat DEF BInv, BbrType
<1> HIDE DEF bw
<1>2. new \in SampleType /\ new.time = bbr.round_trip_count
  BY <1>1 DEF Sample, SampleType
<1>3. max_bandwidth \in Estimates /\ \A i \in 0..2 : max_bandwidth[i].time \in Nat
  BY DEF BInv, Estimates
<1>4. OrderedBy(max_bandwidth, new.time)
  BY <1>1, <1>2, <1>3 DEF BInv, FilterBehindRound, OrderedBy
<1> HIDE DEF new
<1>5. est \in Estimates /\ OrderedBy(est, new.time)
  BY <1>2, <1>3, <1>4, UpdateType, UpdateOrdered
<1>6. UpdateMaxBandwidth(pn) = IF RoundUpdate(pn) THEN est ELSE max_bandwidth
  BY DEF UpdateMaxBandwidth, new, bw
<1> HIDE DEF est
<1>7. \A i \in 0..2 : est[i].time \in Nat
  BY <1>5 DEF Estimates
<1>8. CASE RoundUpdate(pn)
  BY <1>1, <1>2, <1>5, <1>6, <1>7, <1>8 DEF OrderedBy
<1>9. CASE ~RoundUpdate(pn)
  BY <1>3, <1>6, <1>9 DEF BInv, FilterBehindRound
<1>10. QED
  BY <1>8, <1>9

\* What GainCycleOrder, ModeTransitions and MinRttRenewed ask of a step.
ModeStep ==
  /\ bbr'.mode = "INCREASE" /\ bbr'.cycle_current_offset = 1 =>
       bbr.mode = "INCREASE" /\ bbr.cycle_current_offset \in {0, 1}
  /\ bbr'.mode = "START" => bbr.mode = "START"
  /\ bbr'.mode = "DRAIN" => bbr.mode \in {"START", "DRAIN"}
  /\ bbr.mode = "DECREASE" => bbr'.mode \in {"DECREASE", "INCREASE"}
  /\ bbr.min_rtt_expired /\ ~bbr'.min_rtt_expired =>
       bbr'.min_rtt_timestamp >= bbr.exit_probe_rtt_at

\* An ack after the first round.
LEMMA LaterAck ==
  ASSUME BInv, AInv', NEW pn \in Nat, Ackable(pn), NEW offset \in EntryOffsets,
         OnAck(pn, offset)
  PROVE  BInv' /\ ModeStep
<1> DEFINE inflight == flight'.bytes_in_flight
           best == GetBest(max_bandwidth')
           m == Measured(pn)
           k == Backoff(m, pn, inflight, offset)
<1>1. /\ bbr' = Advance(k, pn, best, inflight, offset)
      /\ max_bandwidth' = UpdateMaxBandwidth(pn)
      /\ bbr.round_trip_count > 0 /\ now' = now
  BY DEF OnAck, SampledAck
<1>2. now \in Nat /\ now > 0 /\ inflight \in Nat
  BY BbrAssumption DEF BInv, AInv, FlightOK, Ackable
<1>3. /\ max_bandwidth' \in Estimates
      /\ max_bandwidth'[0].time <= max_bandwidth'[1].time
      /\ max_bandwidth'[1].time <= max_bandwidth'[2].time
      /\ max_bandwidth'[2].time < IF RoundUpdate(pn) THEN bbr.round_trip_count + 1
                                  ELSE bbr.round_trip_count
  BY <1>1, FilterUpdated
<1>4. best \in Nat
  BY <1>3 DEF GetBest, Estimates
<1>5. /\ MeasuredFrom(m, bbr)
      /\ m.round_trip_count
           = IF RoundUpdate(pn) THEN bbr.round_trip_count + 1 ELSE bbr.round_trip_count
  BY MeasuredKeeps DEF BInv
<1> HIDE DEF inflight, best, m
<1>6. m \in BbrType /\ Coherent(m)
  BY <1>5 DEF BInv, ModeConsistent, GainOf, Coherent, MeasuredFrom, SameMode
<1>7. m.mode = "DECREASE" => Probed(m)
  BY <1>2, <1>5 DEF BInv, ProbeMeasurementFresh, Probed, MeasuredFrom, SameMode, BbrType
<1>8. /\ k \in BbrType
      /\ k.round_trip_count = m.round_trip_count
      /\ Coherent(k)
      /\ k.mode = "DECREASE" => Probed(k) /\ inflight > k.bdp
      /\ m.min_rtt_expired /\ ~k.min_rtt_expired =>
           k.min_rtt_timestamp >= m.exit_probe_rtt_at
      /\ \/ /\ m.mode # "DECREASE" /\ k.mode = m.mode
            /\ k.cycle_current_offset = m.cycle_current_offset
            /\ k.last_cycle_start = m.last_cycle_start
         \/ k.mode = "DECREASE"
         \/ /\ k.mode = "INCREASE"
            /\ k.cycle_current_offset = offset /\ k.last_cycle_start = now
  BY <1>2, <1>6, <1>7, BackoffResult DEF BInv
<1> HIDE DEF k
<1>9. AdvancedFrom(bbr', k, inflight, offset)
  BY <1>1, <1>2, <1>4, <1>8, AdvanceResult
<1>10. ModeConsistent'
  BY <1>9 DEF AdvancedFrom, Coherent, GainOf, ModeConsistent
<1>11. FilterBehindRound' /\ FirstRound'
  <2>1. bbr'.round_trip_count = m.round_trip_count /\ bbr.round_trip_count \in Nat
    BY <1>8, <1>9 DEF AdvancedFrom, BInv, BbrType
  <2>2. bbr'.round_trip_count
          = IF RoundUpdate(pn) THEN bbr.round_trip_count + 1 ELSE bbr.round_trip_count
    BY <2>1, <1>5
  <2>3. bbr'.round_trip_count > 0
    BY <2>1, <2>2, <1>1
  <2>4. max_bandwidth'[2].time < bbr'.round_trip_count
    BY <2>2, <1>3
  <2>5. FilterBehindRound'
    BY <2>4, <1>3 DEF FilterBehindRound
  <2>6. FirstRound'
    BY <2>3 DEF FirstRound
  <2>7. QED
    BY <2>5, <2>6
<1>12. ProbeMeasurementFresh'
  BY <1>1, <1>8, <1>9 DEF AdvancedFrom, Probed, SameProbe, ProbeMeasurementFresh
<1>13. NeverStuck'
  <2>1. bbr'.mode = "DECREASE" => inflight > bbr'.bdp
    BY <1>8, <1>9 DEF AdvancedFrom
  <2>2. bbr'.mode \in {"DRAIN", "DECREASE"} => inflight > 0
    BY <2>1, <1>2, <1>9 DEF AdvancedFrom, BbrType
  <2>3. inflight = Cardinality(Octets(flight'.sent_packets_map))
    BY DEF AInv, InflightExact, Map, inflight
  <2>4. inflight > 0 => DOMAIN flight'.sent_packets_map # {}
    BY <2>3, BytesHavePackets
  <2>5. QED
    BY <2>1, <2>2, <2>4 DEF NeverStuck, Outstanding, Map, inflight
<1>14. ModeStep
  <2>1. offset # 1 /\ now - now = 0
    BY <1>2 DEF EntryOffsets
  <2>2. SameMode(m, bbr)
    BY <1>5 DEF MeasuredFrom
  <2>3. bbr'.mode = "INCREASE" /\ bbr'.cycle_current_offset = 1 =>
          bbr.mode = "INCREASE" /\ bbr.cycle_current_offset \in {0, 1}
    <3> SUFFICES ASSUME bbr'.mode = "INCREASE", bbr'.cycle_current_offset = 1
                 PROVE  bbr.mode = "INCREASE" /\ bbr.cycle_current_offset \in {0, 1}
      OBVIOUS
    <3>1. /\ k.mode = "INCREASE"
          /\ \/ k.cycle_current_offset = 1
             \/ k.cycle_current_offset = 0 /\ now - k.last_cycle_start > 0
      BY <1>9, Zenon DEF AdvancedFrom
    <3>2. \/ k.mode = m.mode /\ k.cycle_current_offset = m.cycle_current_offset
          \/ k.mode = "DECREASE"
          \/ k.cycle_current_offset = offset /\ k.last_cycle_start = now
      BY <1>8, Zenon
    <3>3. m.mode = bbr.mode /\ m.cycle_current_offset = bbr.cycle_current_offset
      BY <2>2, Zenon DEF SameMode
    <3>4. QED
      BY ONLY <2>1, <3>1, <3>2, <3>3
  <2>4. /\ bbr'.mode = "START" => bbr.mode = "START"
        /\ bbr'.mode = "DRAIN" => bbr.mode \in {"START", "DRAIN"}
        /\ bbr.mode = "DECREASE" => bbr'.mode \in {"DECREASE", "INCREASE"}
    BY <2>2, <1>8, <1>9 DEF AdvancedFrom, SameMode
  <2>5. bbr.min_rtt_expired /\ ~bbr'.min_rtt_expired =>
          bbr'.min_rtt_timestamp >= bbr.exit_probe_rtt_at
    BY <2>2, <1>8, <1>9 DEF AdvancedFrom, SameMode
  <2>6. QED
    BY <2>3, <2>4, <2>5 DEF ModeStep
<1>15. QED
  BY <1>3, <1>9, <1>10, <1>11, <1>12, <1>13, <1>14 DEF BInv, AdvancedFrom

\* Sending only adds to what is in flight.
LEMMA SentModes ==
  ASSUME BInv, AInv', NEW pn \in Nat, NEW bytes \in 1..MaxPacketSize, OnPacketSent(pn, bytes)
  PROVE  BInv'
<1>1. /\ now' = now /\ max_bandwidth' = max_bandwidth /\ bbr' = bbr
  BY DEF OnPacketSent
<1>2. flight'.bytes_in_flight = flight.bytes_in_flight + bytes
  BY DEF BInv, AInv, FlightOK, OnPacketSent
<1>3. pn \in DOMAIN flight'.sent_packets_map
  BY DEF BInv, AInv, FlightOK, OnPacketSent, Map
<1>4. flight.bytes_in_flight \in Nat /\ bytes \in Nat /\ bbr.bdp \in Nat
  BY DEF BInv, AInv, FlightOK, BbrType
<1>5. NeverStuck'
  BY <1>1, <1>2, <1>3, <1>4 DEF BInv, NeverStuck, Outstanding, Map
<1>6. ModeConsistent' /\ FilterBehindRound' /\ ProbeMeasurementFresh' /\ FirstRound'
  BY <1>1 DEF BInv, ModeConsistent, GainOf, FilterBehindRound, ProbeMeasurementFresh, FirstRound
<1>7. QED
  BY <1>1, <1>5, <1>6 DEF BInv

\* The clock only makes the past older.
LEMMA TickModes ==
  ASSUME BInv, AInv', Tick
  PROVE  BInv'
<1>1. /\ now' = now + 1 /\ flight' = flight
      /\ max_bandwidth' = max_bandwidth /\ bbr' = bbr
  BY DEF Tick
<1>2. now \in Nat /\ bbr.exit_probe_rtt_at \in Nat
  BY BbrAssumption DEF BInv, AInv, BbrType
<1>3. ProbeMeasurementFresh'
  BY <1>1, <1>2 DEF BInv, ProbeMeasurementFresh
<1>4. ModeConsistent' /\ FilterBehindRound' /\ NeverStuck' /\ FirstRound'
  BY <1>1 DEF BInv, ModeConsistent, GainOf, FilterBehindRound, NeverStuck, Outstanding, Map,
              FirstRound
<1>5. QED
  BY <1>1, <1>3, <1>4 DEF BInv

\* Every step keeps the invariant and moves the modes as it may.
LEMMA NextModes ==
  ASSUME BInv, [Next]_vars
  PROVE  BInv' /\ [ModeStep]_vars
<1>1. AInv'
  BY NextAccounting DEF BInv
<1>2. flight.last_sent_packet \in Nat
  BY DEF BInv, AInv, FlightOK
<1>3. bbr' = bbr => ModeStep
  BY DEF BInv, ModeStep, ModeConsistent, BbrType, Modes
<1>4. CASE Tick
  BY <1>1, <1>3, <1>4, TickModes DEF Tick
<1>5. ASSUME NEW step \in 1..MaxStep, NEW bytes \in 1..MaxPacketSize,
             OnPacketSent(flight.last_sent_packet + step, bytes)
      PROVE  BInv' /\ ModeStep
  <2>1. flight.last_sent_packet + step \in Nat
    BY <1>2
  <2>2. BInv'
    BY <1>1, <1>5, <2>1, SentModes
  <2>3. QED
    BY <1>3, <1>5, <2>2 DEF OnPacketSent
<1>6. ASSUME NEW pn \in 1..flight.last_sent_packet, Ackable(pn), OnAckInFirstRound(pn)
      PROVE  BInv' /\ ModeStep
  <2>1. pn \in Nat
    BY <1>2
  <2>2. BInv' /\ bbr'.mode = "START" /\ ~bbr'.min_rtt_expired
    BY <1>1, <1>6, <2>1, FirstRoundAck
  <2>3. bbr.mode = "START" /\ ~bbr.min_rtt_expired
    BY <1>6 DEF BInv, FirstRound, ModeConsistent, OnAckInFirstRound
  <2>4. QED
    BY <2>2, <2>3 DEF ModeStep
<1>7. ASSUME NEW pn \in 1..flight.last_sent_packet, NEW offset \in EntryOffsets,
             Ackable(pn), OnAck(pn, offset)
      PROVE  BInv' /\ ModeStep
  <2>1. pn \in Nat
    BY <1>2
  <2>2. QED
    BY <1>1, <1>7, <2>1, LaterAck
<1>8. CASE UNCHANGED vars
  <2>1. BInv'
    BY <1>1, <1>8 DEF vars, BInv, ModeConsistent, GainOf, FilterBehindRound, NeverStuck,
                      Outstanding, Map, ProbeMeasurementFresh, FirstRound
  <2>2. QED
    BY <1>8, <2>1
<1>9. QED
  BY <1>4, <1>5, <1>6, <1>7, <1>8 DEF Next

(***************************************************************************)
(* For every gain cycle, window length, expiry time and bound: the members *)
(* keep their types, the gain and the flags agree with mode_, the filter   *)
(* only sees growing rounds, a draining mode has packets to wait for, and  *)
(* what a min_rtt_ probe measured is younger than the probe.               *)
(***************************************************************************)
THEOREM ModesCorrect ==
  Spec => [](/\ TypeOK /\ ModeConsistent /\ FilterBehindRound
             /\ NeverStuck /\ ProbeMeasurementFresh)
<1>1. Init => BInv
  BY InitModes
<1>2. BInv /\ [Next]_vars => BInv'
  BY NextModes
<1>3. BInv => /\ TypeOK /\ ModeConsistent /\ FilterBehindRound
              /\ NeverStuck /\ ProbeMeasurementFresh
  BY DEF BInv, AInv, TypeOK
<1>4. QED
  BY <1>1, <1>2, <1>3, PTL DEF Spec

(***************************************************************************)
(* Steps of OnAck: the low phase of the gain cycle is only entered from    *)
(* the high one (EnterIncreaseMode and UpdateGainCyclePhase), startup is   *)
(* left for good and drain follows it only, a backoff ends in ST_INCREASE, *)
(* and a min_rtt_ probe leaves a minimum measured or confirmed since it    *)
(* began.                                                                  *)
(***************************************************************************)
THEOREM ModeStepsCorrect ==
  Spec => GainCycleOrder /\ ModeTransitions /\ MinRttRenewed
<1>1. Init => BInv
  BY InitModes
<1>2. BInv /\ [Next]_vars => BInv'
  BY NextModes
<1>3. BInv /\ [Next]_vars =>
        [bbr'.mode = "INCREASE" /\ bbr'.cycle_current_offset = 1 =>
           bbr.mode = "INCREASE" /\ bbr.cycle_current_offset \in {0, 1}]_vars
  BY NextModes DEF ModeStep
<1>4. BInv /\ [Next]_vars =>
        [/\ bbr'.mode = "START" => bbr.mode = "START"
         /\ bbr'.mode = "DRAIN" => bbr.mode \in {"START", "DRAIN"}
         /\ bbr.mode = "DECREASE" => bbr'.mode \in {"DECREASE", "INCREASE"}]_vars
  BY NextModes DEF ModeStep
<1>5. BInv /\ [Next]_vars =>
        [bbr.min_rtt_expired /\ ~bbr'.min_rtt_expired =>
           bbr'.min_rtt_timestamp >= bbr.exit_probe_rtt_at]_vars
  BY NextModes DEF ModeStep
<1>6. QED
  BY <1>1, <1>2, <1>3, <1>4, <1>5, PTL
     DEF Spec, GainCycleOrder, ModeTransitions, MinRttRenewed

-----------------------------------------------------------------------------
(* The pacing rate *)

\* The round trips the controller remembers were measured by its clock.
RttsOK(b) ==
  /\ b.min_rtt \in 0..MaxTime
  /\ b.min_rtt_record \in 0..MaxTime
  /\ b.min_rtt_in_decrease # InfiniteDelta => b.min_rtt_in_decrease \in 0..MaxTime

SameRtts(r, b) ==
  /\ r.min_rtt = b.min_rtt
  /\ r.min_rtt_record = b.min_rtt_record
  /\ r.min_rtt_in_decrease = b.min_rtt_in_decrease

\* A positive rate, not below min_bw_ at gain 1.
Paced(b) ==
  /\ b.pacing_rate > 0
  /\ b.mode = "INCREASE" /\ b.pacing_gain = 100 => b.pacing_rate >= MinBw

\* A number divided by a positive one that is not larger is positive.
LEMMA QuotientPositive ==
  ASSUME NEW n \in Nat, NEW d \in Nat \ {0}, d <= n
  PROVE  n \div d \in Nat /\ n \div d > 0
<1> DEFINE q == n \div d
<1>1. q \in Nat /\ n % d \in 0..d-1 /\ n = d * q + (n % d)
  OBVIOUS
<1> HIDE DEF q
<1>2. q # 0
  <2> SUFFICES ASSUME q = 0 PROVE FALSE
    OBVIOUS
  <2>1. d * q = 0
    OBVIOUS
  <2>2. QED
    BY <1>1, <2>1
<1>3. QED
  BY <1>1, <1>2 DEF q

\* The fallback of CalculatePacingRate is positive.
LEMMA InitialRatePositive ==
  ASSUME NEW b \in BbrType, RttsOK(b)
  PROVE  /\ FromBytesAndTimeDelta(InitialCongestionWindow, GetMinRtt(b)) \in Nat
         /\ FromBytesAndTimeDelta(InitialCongestionWindow, GetMinRtt(b)) > 0
<1> DEFINE n == InitialCongestionWindow * TicksPerSecond
           d == GetMinRtt(b)
<1>1. /\ InitialCongestionWindow \in Nat /\ TicksPerSecond \in Nat /\ MaxTime \in Nat
      /\ DefaultMinRtt \in Nat \ {0}
  BY BbrAssumption, TicksPerSecondAssumption
<1>2. n \in Nat
  BY <1>1
<1>3. MaxTime <= n /\ DefaultMinRtt <= n
  BY RateAssumption
<1> HIDE DEF n
<1>4. d \in Nat \ {0} /\ d <= n
  BY <1>1, <1>2, <1>3 DEF RttsOK, GetMinRtt
<1> HIDE DEF d
<1>5. n \div d \in Nat /\ n \div d > 0
  BY <1>2, <1>4, QuotientPositive
<1>6. FromBytesAndTimeDelta(InitialCongestionWindow, d) = (n \div d) * 8
  BY DEF FromBytesAndTimeDelta, n
<1>7. QED
  BY <1>5, <1>6 DEF d

\* CalculatePacingRate sets a rate to pace with.
LEMMA PacingRateSet ==
  ASSUME NEW b \in BbrType, NEW best \in Nat, RttsOK(b)
  PROVE  LET r == CalculatePacingRate(b, best) IN Paced(r) /\ RttsOK(r)
<1> DEFINE scaled == Scaled(b.pacing_gain, 100, best)
           initial == FromBytesAndTimeDelta(InitialCongestionWindow, GetMinRtt(b))
           rate == IF scaled = Zero THEN initial ELSE scaled
           floor == b.mode = "INCREASE" /\ b.pacing_gain = 100 /\ rate < MinBw
           low == [b EXCEPT !.pacing_rate = MinBw, !.reference_rate = MinBw]
           set == [b EXCEPT !.pacing_rate = rate, !.reference_rate = best]
<1>1. b.pacing_gain \in Nat /\ MinBw \in Nat
  BY BbrAssumption DEF BbrType
<1>2. scaled \in Nat
  BY <1>1, ScaledType
<1>3. initial \in Nat /\ initial > 0
  BY InitialRatePositive
<1> HIDE DEF scaled, initial
<1>4. rate \in Nat /\ rate > 0
  BY <1>2, <1>3 DEF Zero
<1>5. CalculatePacingRate(b, best) = IF floor THEN low ELSE set
  BY DEF CalculatePacingRate, scaled, initial
<1> HIDE DEF rate
<1>6. /\ low.mode = b.mode /\ low.pacing_gain = b.pacing_gain /\ low.pacing_rate = MinBw
      /\ SameRtts(low, b)
  BY DEF BbrType, SameRtts
<1>7. /\ set.mode = b.mode /\ set.pacing_gain = b.pacing_gain /\ set.pacing_rate = rate
      /\ SameRtts(set, b)
  BY DEF BbrType, SameRtts
<1> HIDE DEF low, set
<1>8. CASE floor
  BY <1>1, <1>4, <1>5, <1>6, <1>8 DEF Paced, RttsOK, SameRtts
<1>9. CASE ~floor
  BY <1>1, <1>4, <1>5, <1>7, <1>9 DEF Paced, RttsOK, SameRtts
<1>10. QED
  BY <1>8, <1>9

\* A measurement is at most the clock.
LEMMA MeasuredRtts ==
  ASSUME AInv, bbr \in BbrType, RttsOK(bbr), NEW pn \in Nat, Ackable(pn)
  PROVE  RttsOK(Measured(pn))
<1> DEFINE u == UpdateRtt(bbr, pn)
<1>1. u \in BbrType /\ RttsOK(u)
  <2>1. CASE pn \in DOMAIN Map
    <3> DEFINE rtt == now - Map[pn].sent_ts
               r1 == UpdateMinRtt(bbr, rtt)
               r2 == UpdateMinRttInDecrease(r1, rtt)
               r3 == UpdateSmoothedRtt(r2, rtt, pn)
    <3>1. now \in Nat /\ rtt \in Nat /\ rtt \in 0..MaxTime
      BY <2>1, BbrAssumption DEF Ackable, AInv, FlightOK, Outstanding, Map, PacketType
    <3>2. u = r3
      BY <2>1 DEF UpdateRtt
    <3> HIDE DEF rtt
    <3>3. r1 \in BbrType
      BY <3>1, UpdateMinRttKeeps
    <3>4. RttsOK(r1)
      BY <3>1 DEF UpdateMinRtt, BbrType, RttsOK
    <3> HIDE DEF r1
    <3>5. r2 \in BbrType
      BY <3>1, <3>3, UpdateMinRttInDecreaseKeeps DEF MeasuredFrom
    <3>6. RttsOK(r2)
      BY <3>1, <3>3, <3>4 DEF UpdateMinRttInDecrease, BbrType, RttsOK
    <3> HIDE DEF r2
    <3>7. r3 \in BbrType
      BY <3>1, <3>5, UpdateSmoothedRttKeeps
    <3>8. SameRtts(r3, r2)
      BY <3>5 DEF UpdateSmoothedRtt, BbrType, SameRtts
    <3> HIDE DEF r3
    <3>9. QED
      BY <3>2, <3>6, <3>7, <3>8 DEF RttsOK, SameRtts
  <2>2. CASE pn \notin DOMAIN Map
    BY <2>2 DEF UpdateRtt
  <2>3. QED
    BY <2>1, <2>2
<1> HIDE DEF u
<1>2. SameRtts(UpdateRoundTripCounter(u, pn), u)
  BY <1>1 DEF UpdateRoundTripCounter, BbrType, SameRtts
<1>3. QED
  BY <1>1, <1>2 DEF Measured, RttsOK, SameRtts, u

\* A backoff records the minimum, and its end adopts the record or a measurement.
LEMMA BackoffRtts ==
  ASSUME AInv, max_bandwidth \in Estimates, NEW b \in BbrType, RttsOK(b),
         NEW pn \in Nat, NEW inflight \in Nat, NEW offset \in EntryOffsets
  PROVE  RttsOK(Backoff(b, pn, inflight, offset))
<1> DEFINE expired == now > b.min_rtt_timestamp + kMinRttExpiry
           best == GetBest(max_bandwidth)
           g == RecordGap(b, pn)
           e == EnterDecrease(g, expired, best)
           t == IF e.exit_probe_rtt_at = Zero THEN [e EXCEPT !.exit_probe_rtt_at = now] ELSE e
           n == RenewMinRtt(t)
           i == EnterIncreaseMode(n, offset)
<1>1. now \in Nat /\ flight.last_sent_packet \in Nat /\ best \in Nat /\ expired \in BOOLEAN
  BY BbrAssumption DEF AInv, FlightOK, GetBest, Estimates
<1>2. Backoff(b, pn, inflight, offset) \in {e, t, i}
  BY DEF Backoff, MaybeEnterOrExitDecrease, ExitDecrease
<1> HIDE DEF expired, best
<1>3. g \in BbrType
  BY <1>1, RecordGapKeeps
<1>4. SameRtts(g, b)
  BY DEF RecordGap, BbrType, SameRtts
<1> HIDE DEF g
<1>5. RttsOK(g)
  BY <1>4 DEF RttsOK, SameRtts
<1>6. e \in BbrType
  BY <1>1, <1>3, EnterDecreaseResult
<1>7. SameRtts(e, g) \/ /\ e.min_rtt = g.min_rtt /\ e.min_rtt_record = g.min_rtt
                        /\ e.min_rtt_in_decrease = InfiniteDelta
  BY <1>3 DEF EnterDecrease, BbrType, SameRtts
<1> HIDE DEF e
<1>8. RttsOK(e)
  BY <1>5, <1>7 DEF RttsOK, SameRtts
<1>9. t \in BbrType /\ SameRtts(t, e)
  BY <1>1, <1>6 DEF BbrType, SameRtts
<1> HIDE DEF t
<1>10. RttsOK(t)
  BY <1>8, <1>9 DEF RttsOK, SameRtts
<1>11. n \in BbrType
  BY <1>1, <1>9, RenewMinRttResult
<1>12. \/ n = t
       \/ /\ n.min_rtt = t.min_rtt_record /\ n.min_rtt_record = t.min_rtt_record
          /\ n.min_rtt_in_decrease = t.min_rtt_in_decrease
       \/ /\ t.min_rtt_in_decrease # InfiniteDelta
          /\ n.min_rtt = t.min_rtt_in_decrease /\ n.min_rtt_record = t.min_rtt_record
          /\ n.min_rtt_in_decrease = t.min_rtt_in_decrease
  BY <1>9 DEF RenewMinRtt, BbrType
<1> HIDE DEF n
<1>13. RttsOK(n)
  BY <1>10, <1>12 DEF RttsOK
<1>14. SameRtts(i, n)
  BY <1>11 DEF EnterIncreaseMode, BbrType, SameRtts
<1> HIDE DEF i
<1>15. RttsOK(i)
  BY <1>13, <1>14 DEF RttsOK, SameRtts
<1>16. QED
  BY <1>2, <1>8, <1>10, <1>15

\* The rest of OnAck keeps the round trips and ends with a rate to pace with.
LEMMA AdvanceRate ==
  ASSUME NEW b \in BbrType, RttsOK(b), now \in Nat, NEW pn \in Nat, NEW best \in Nat,
         NEW inflight \in Nat, NEW offset \in EntryOffsets
  PROVE  LET r == Advance(b, pn, best, inflight, offset) IN Paced(r) /\ RttsOK(r)
<1> DEFINE m == UpdateMaxBw(b, best)
           c == CheckIfFullBandwidthReached(m, best)
           g == IF RoundUpdate(pn) THEN c ELSE b
           x == ExitStartup(g)
           d == ExitDrain(x, best, inflight, offset)
           u == UpdateGainCyclePhase(d)
           r == CalculatePacingRate(u, best)
<1>1. Advance(b, pn, best, inflight, offset) = r
  BY DEF Advance, MaybeExitStartupOrDrain
<1>2. m \in BbrType
  BY UpdateMaxBwKeeps DEF SameButFull
<1>3. SameRtts(m, b)
  BY DEF UpdateMaxBw, BbrType, SameRtts
<1> HIDE DEF m
<1>4. c \in BbrType
  BY <1>2, FullBandwidthKeeps DEF SameButFull
<1>5. SameRtts(c, m)
  BY <1>2 DEF CheckIfFullBandwidthReached, BbrType, SameRtts
<1> HIDE DEF c
<1>6. g \in BbrType /\ SameRtts(g, b)
  BY <1>3, <1>4, <1>5 DEF SameRtts
<1> HIDE DEF g
<1>7. x \in BbrType
  BY <1>6, ExitStartupResult
<1>8. SameRtts(x, g)
  BY <1>6 DEF ExitStartup, BbrType, SameRtts
<1> HIDE DEF x
<1>9. d \in BbrType
  BY <1>7, ExitDrainResult DEF DrainedFrom
<1>10. SameRtts(d, x)
  BY <1>7 DEF ExitDrain, EnterIncreaseMode, BbrType, SameRtts
<1> HIDE DEF d
<1>11. u \in BbrType
  BY <1>9, GainCycleResult
<1>12. SameRtts(u, d)
  BY <1>9 DEF UpdateGainCyclePhase, BbrType, SameRtts
<1> HIDE DEF u
<1>13. RttsOK(u)
  BY <1>6, <1>8, <1>10, <1>12 DEF RttsOK, SameRtts
<1>14. QED
  BY <1>1, <1>11, <1>13, PacingRateSet

\* Every step keeps the round trips measured and the controller paced.
LEMMA NextRate ==
  ASSUME BInv, BInv', RttsOK(bbr), PacingRateSound, [Next]_vars
  PROVE  RttsOK(bbr') /\ PacingRateSound'
<1>1. now \in Nat /\ flight.last_sent_packet \in Nat /\ AInv /\ bbr \in BbrType
      /\ max_bandwidth \in Estimates
  BY BbrAssumption DEF BInv, AInv, FlightOK
<1>2. ASSUME bbr' = bbr, flight'.last_ack_seq = flight.last_ack_seq
      PROVE  RttsOK(bbr') /\ PacingRateSound'
  BY <1>2 DEF PacingRateSound
<1>3. CASE Tick
  BY <1>2, <1>3 DEF Tick
<1>4. ASSUME NEW pn, NEW bytes, OnPacketSent(pn, bytes)
      PROVE  RttsOK(bbr') /\ PacingRateSound'
  <2>1. bbr' = bbr /\ flight'.last_ack_seq = flight.last_ack_seq
    BY <1>1, <1>4 DEF OnPacketSent, AInv, FlightOK
  <2>2. QED
    BY <1>2, <2>1
<1>5. ASSUME NEW pn \in 1..flight.last_sent_packet, Ackable(pn), OnAckInFirstRound(pn)
      PROVE  RttsOK(bbr') /\ PacingRateSound'
  <2>1. pn \in Nat
    BY <1>1
  <2>2. Measured(pn) \in BbrType /\ RttsOK(Measured(pn))
    BY <1>1, <1>5, <2>1, MeasuredKeeps, MeasuredRtts DEF MeasuredFrom
  <2>3. GetBest(max_bandwidth) \in Nat
    BY <1>1 DEF GetBest, Estimates
  <2>4. Paced(bbr') /\ RttsOK(bbr')
    BY <1>5, <2>2, <2>3, PacingRateSet DEF OnAckInFirstRound
  <2>5. QED
    BY <2>4 DEF Paced, PacingRateSound
<1>6. ASSUME NEW pn \in 1..flight.last_sent_packet, NEW offset \in EntryOffsets,
             Ackable(pn), OnAck(pn, offset)
      PROVE  RttsOK(bbr') /\ PacingRateSound'
  <2> DEFINE inflight == flight'.bytes_in_flight
             best == GetBest(max_bandwidth')
             m == Measured(pn)
             k == Backoff(m, pn, inflight, offset)
  <2>1. pn \in Nat /\ now > 0 /\ inflight \in Nat /\ best \in Nat
    <3>1. pn \in Nat
      BY <1>1
    <3>2. now > 0
      BY <1>1, <1>6, BbrAssumption DEF Ackable
    <3>3. inflight \in Nat
      BY DEF BInv, AInv, FlightOK
    <3>4. max_bandwidth' \in Estimates
      BY DEF BInv
    <3>5. best \in Nat
      BY ONLY <3>4 DEF GetBest, Estimates
    <3>6. QED
      BY <3>1, <3>2, <3>3, <3>5
  <2>2. bbr' = Advance(k, pn, best, inflight, offset)
    BY <1>6 DEF OnAck, SampledAck
  <2>3. MeasuredFrom(m, bbr) /\ RttsOK(m)
    BY <1>1, <1>6, <2>1, MeasuredKeeps, MeasuredRtts
  <2>4. m \in BbrType /\ Coherent(m)
    BY <2>3 DEF BInv, ModeConsistent, GainOf, Coherent, MeasuredFrom, SameMode
  <2>5. m.mode = "DECREASE" => Probed(m)
    BY <1>1, <2>3 DEF BInv, ProbeMeasurementFresh, Probed, MeasuredFrom, SameMode, BbrType
  <2> HIDE DEF inflight, best, m
  <2>6. k \in BbrType
    BY <1>1, <2>1, <2>4, <2>5, BackoffResult
  <2>7. RttsOK(k)
    BY <1>1, <2>1, <2>3, <2>4, BackoffRtts
  <2> HIDE DEF k
  <2>8. Paced(bbr') /\ RttsOK(bbr')
    BY <1>1, <2>1, <2>2, <2>6, <2>7, AdvanceRate
  <2>9. QED
    BY <2>8 DEF Paced, PacingRateSound
<1>7. CASE UNCHANGED vars
  BY <1>2, <1>7 DEF vars
<1>8. QED
  BY <1>3, <1>4, <1>5, <1>6, <1>7 DEF Next

(***************************************************************************)
(* Once an ack was processed CalculatePacingRate left a positive rate, at  *)
(* least min_bw_ at gain 1: with no bandwidth sample the initial window    *)
(* over a round trip that was measured takes its place.                    *)
(***************************************************************************)
THEOREM PacingCorrect == Spec => []PacingRateSound
<1>1. Init => BInv /\ RttsOK(bbr) /\ PacingRateSound
  <2>1. Init => RttsOK(bbr) /\ PacingRateSound
    <3> SUFFICES ASSUME Init PROVE RttsOK(bbr) /\ PacingRateSound
      OBVIOUS
    <3>1. bbr.min_rtt = 0 /\ bbr.min_rtt_record = 0 /\ bbr.min_rtt_in_decrease = InfiniteDelta
      BY DEF Init
    <3>2. flight.last_ack_seq = 0
      BY DEF Init
    <3>3. MaxTime \in Nat
      BY BbrAssumption
    <3>4. RttsOK(bbr)
      BY ONLY <3>1, <3>3 DEF RttsOK
    <3>5. PacingRateSound
      BY ONLY <3>2 DEF PacingRateSound
    <3>6. QED
      BY <3>4, <3>5
  <2>2. QED
    BY <2>1, InitModes
<1>2. BInv /\ RttsOK(bbr) /\ PacingRateSound /\ [Next]_vars
        => BInv' /\ RttsOK(bbr)' /\ PacingRateSound'
  BY NextModes, NextRate
<1>3. QED
  BY <1>1, <1>2, PTL DEF Spec
=============================================================================
