--------------------------- MODULE ManagerProofs ----------------------------
(***************************************************************************)
(* The packet manager and its unacked packet map, for every ack, every     *)
(* congestion window and every number of nacks.                            *)
(*                                                                         *)
(* First what the operations do to the data the manager keeps: an ack gives*)
(* up only the data of the packets it acks, a transmission gives up none,  *)
(* and neither takes back what least_unacked has passed.  They are the     *)
(* steps of QuicTransfer's ImplementsDelivery.                             *)
(*                                                                         *)
(* Then the invariant.  What makes it inductive is an order: losses are    *)
(* declared and repaired from the oldest packet on, so everything below a  *)
(* pending packet is settled or already repaired.  When a retransmission is*)
(* itself declared lost, the packet it repaired has therefore left the map,*)
(* and no chain of transmissions is longer than two.                       *)
(***************************************************************************)
EXTENDS SentPackets, WellFoundedInduction, FiniteSetTheorems, TLAPS

Fields == {"infos", "least_unacked", "largest_sent", "largest_acked", "bytes_in_flight",
           "pending", "acked", "largest_newly_acked", "largest_lost"}

\* The manager has an entry for each packet from least_unacked to largest_sent.
WellFormed(m) ==
  /\ DOMAIN m = Fields
  /\ m.least_unacked \in Nat \ {0} /\ m.largest_sent \in Nat
  /\ m.least_unacked <= m.largest_sent + 1
  /\ DOMAIN m.infos = Tracked(m)
  /\ \A p \in Tracked(m) :
       DOMAIN m.infos[p] = {"state", "in_flight", "frames", "retransmission"}

DataOf(m) == UNION {m.infos[p].frames : p \in Tracked(m)}

\* What RemoveObsoletePackets makes of prior.
Cleaned(prior, m) ==
  /\ m.least_unacked >= prior.least_unacked
  /\ m.largest_sent = prior.largest_sent /\ m.pending = prior.pending
  /\ m.largest_acked = prior.largest_acked /\ m.acked = prior.acked
  /\ m.bytes_in_flight = prior.bytes_in_flight /\ m.largest_lost = prior.largest_lost
  /\ m.largest_newly_acked = prior.largest_newly_acked
  /\ \A p \in Tracked(m) : p \in Tracked(prior) /\ m.infos[p] = prior.infos[p]
  /\ \A p \in Tracked(prior) \ Tracked(m) : IsPacketUseless(prior, p)
  /\ \A p \in Tracked(prior) :
       (\A q \in Tracked(prior) : q <= p => IsPacketUseless(prior, q)) => p < m.least_unacked

\* What MarkPacketsHandled makes of prior.
Handled(prior, m, handled) ==
  /\ m.least_unacked = prior.least_unacked /\ m.largest_sent = prior.largest_sent
  /\ Tracked(m) = Tracked(prior)
  /\ m.pending = prior.pending \ {Newest(prior.infos)[p] : p \in handled}
  /\ m.largest_acked = prior.largest_acked /\ m.acked = prior.acked \cup handled
  /\ m.bytes_in_flight = prior.bytes_in_flight - Cardinality(InFlight(prior) \cap handled)
  /\ m.largest_lost = prior.largest_lost
  /\ m.largest_newly_acked = prior.largest_newly_acked
  /\ \A p \in Tracked(prior) :
       /\ m.infos[p].state = IF p \in handled THEN "ACKED" ELSE prior.infos[p].state
       /\ m.infos[p].in_flight = (prior.infos[p].in_flight /\ p \notin handled)
       /\ m.infos[p].frames = IF \E q \in handled : p = Newest(prior.infos)[q] THEN {}
                              ELSE prior.infos[p].frames
       /\ m.infos[p].retransmission \in {0, prior.infos[p].retransmission}

\* What InvokeLossDetection makes of prior.
Detected(prior, m, lost) ==
  /\ m.least_unacked = prior.least_unacked /\ m.largest_sent = prior.largest_sent
  /\ Tracked(m) = Tracked(prior)
  /\ m.pending = prior.pending \cup {p \in lost : prior.infos[p].frames # {}}
  /\ m.largest_acked = prior.largest_acked /\ m.acked = prior.acked
  /\ m.bytes_in_flight = prior.bytes_in_flight - Cardinality(lost)
  /\ m.largest_lost = IF lost = {} THEN prior.largest_lost ELSE Max(lost)
  /\ m.largest_newly_acked = prior.largest_newly_acked
  /\ \A p \in Tracked(prior) :
       /\ m.infos[p].state = prior.infos[p].state
       /\ m.infos[p].in_flight = (prior.infos[p].in_flight /\ p \notin lost)
       /\ m.infos[p].frames = prior.infos[p].frames
       /\ m.infos[p].retransmission = prior.infos[p].retransmission

\* What OnPacketSent makes of prior when old is retransmitted, or data sent.
Sent(prior, m, old, data) ==
  LET pn == prior.largest_sent + 1
  IN  /\ m.least_unacked >= prior.least_unacked /\ m.least_unacked <= pn
      /\ m.largest_sent = pn /\ m.pending = prior.pending \ {old}
      /\ m.largest_acked = prior.largest_acked /\ m.acked = prior.acked
      /\ m.bytes_in_flight = prior.bytes_in_flight + 1
      /\ m.largest_lost = prior.largest_lost
      /\ m.largest_newly_acked = prior.largest_newly_acked
      /\ m.infos[pn].state = "OUTSTANDING" /\ m.infos[pn].in_flight
      /\ m.infos[pn].frames = IF old = 0 THEN data ELSE prior.infos[old].frames
      /\ m.infos[pn].retransmission = 0
      /\ \A p \in Tracked(m) \ {pn} :
           /\ p \in Tracked(prior)
           /\ m.infos[p].state = prior.infos[p].state
           /\ m.infos[p].in_flight = prior.infos[p].in_flight
           /\ m.infos[p].frames = IF p = old THEN {} ELSE prior.infos[p].frames
           /\ m.infos[p].retransmission = IF p = old THEN pn ELSE prior.infos[p].retransmission
      /\ \A p \in Tracked(prior) \ Tracked(m) :
           ~prior.infos[p].in_flight /\ (p = old \/ prior.infos[p].frames = {})
      /\ old # 0 =>
           \A p \in Tracked(prior) :
             (p < old /\ \A q \in Tracked(prior) : q <= p =>
                /\ ~(q > prior.largest_acked) /\ ~prior.infos[q].in_flight
                /\ prior.infos[q].frames = {}
                /\ ~(prior.infos[q].retransmission > prior.largest_acked))
             => p < m.least_unacked

(***************************************************************************)
(* A set of natural numbers that is not empty has the minimum that Min     *)
(* chooses, the front of the unacked packet map being one.                 *)
(***************************************************************************)
LEMMA MinOfNat ==
  ASSUME NEW S \in SUBSET Nat, S # {}
  PROVE  Min(S) \in S /\ \A y \in S : Min(S) <= y
<1> DEFINE less == OpToRel(<, Nat)
<1>1. IsWellFoundedOn(less, Nat)
  BY NatLessThanWellFounded
<1>2. \A x, y \in Nat : x < y => <<x, y>> \in less
  BY DEF OpToRel
<1> HIDE DEF less
<1>3. PICK x \in S : \A y \in S : ~(<<y, x>> \in less)
  BY <1>1, WFMin
<1>4. ASSUME NEW y \in S PROVE x <= y
  <2>1. ~(y < x)
    BY <1>2, <1>3
  <2>2. QED
    BY <2>1
<1>5. QED
  BY <1>4 DEF Min

(***************************************************************************)
(* Where the largest packet of a set is looked for, Max chooses it.        *)
(***************************************************************************)
LEMMA MaxOfBounded ==
  ASSUME NEW n \in Nat, NEW S \in SUBSET (0..n), S # {}
  PROVE  Max(S) \in S /\ \A y \in S : y <= Max(S)
<1> DEFINE R == {n - x : x \in S}
<1>1. R \in SUBSET Nat /\ R # {}
  <2>1. \A x \in S : n - x \in Nat
    OBVIOUS
  <2>2. QED
    BY <2>1
<1>2. PICK r \in R : \A y \in R : r <= y
  BY <1>1, MinOfNat
<1>3. PICK x \in S : r = n - x
  BY <1>2
<1>4. ASSUME NEW y \in S PROVE y <= x
  <2>1. n - y \in R
    OBVIOUS
  <2>2. r <= n - y
    BY <1>2, <2>1
  <2>3. QED
    BY <1>3, <2>2
<1>5. QED
  BY <1>4 DEF Max

(***************************************************************************)
(* RemoveObsoletePackets removes useless packets from the front of the     *)
(* unacked packet map, all of them up to the first that is useful, and     *)
(* changes none of those it leaves.                                        *)
(***************************************************************************)
LEMMA RemoveObsoleteResult ==
  ASSUME NEW m, WellFormed(m)
  PROVE  WellFormed(RemoveObsoletePackets(m)) /\ Cleaned(m, RemoveObsoletePackets(m))
<1> DEFINE useful == {p \in Tracked(m) : ~IsPacketUseless(m, p)}
           least  == IF useful = {} THEN m.largest_sent + 1 ELSE Min(useful)
           infos  == [p \in least .. m.largest_sent |-> m.infos[p]]
           after  == RemoveObsoletePackets(m)
<1>1. after = [m EXCEPT !.least_unacked = least, !.infos = infos]
  BY DEF RemoveObsoletePackets
<1>2. m.least_unacked \in Nat \ {0} /\ m.largest_sent \in Nat
      /\ Tracked(m) = m.least_unacked .. m.largest_sent
  BY DEF WellFormed, Tracked
<1>3. /\ least \in Nat \ {0} /\ m.least_unacked <= least /\ least <= m.largest_sent + 1
      /\ \A p \in Tracked(m) : p < least => IsPacketUseless(m, p)
      /\ \A p \in Tracked(m) :
           (\A q \in Tracked(m) : q <= p => IsPacketUseless(m, q)) => p < least
  <2>1. useful \in SUBSET Nat
    BY <1>2
  <2>2. CASE useful = {}
    BY <1>2, <2>2 DEF WellFormed
  <2>3. CASE useful # {}
    <3>1. least \in useful /\ \A y \in useful : least <= y
      BY <2>1, <2>3, MinOfNat
    <3> HIDE DEF least
    <3>2. least \in Tracked(m) /\ ~IsPacketUseless(m, least)
      BY <3>1
    <3>3. QED
      BY <1>2, <3>1, <3>2
  <2>4. QED
    BY <2>2, <2>3
<1> HIDE DEF least, useful
<1>4. /\ DOMAIN after = Fields
      /\ after.least_unacked = least /\ after.infos = infos
      /\ after.largest_sent = m.largest_sent /\ after.pending = m.pending
      /\ after.largest_acked = m.largest_acked /\ after.acked = m.acked
      /\ after.bytes_in_flight = m.bytes_in_flight /\ after.largest_lost = m.largest_lost
      /\ after.largest_newly_acked = m.largest_newly_acked
  BY <1>1 DEF WellFormed, Fields
<1> HIDE DEF after
<1>5. Tracked(after) = least .. m.largest_sent
  BY <1>4 DEF Tracked
<1>6. Tracked(after) \subseteq Tracked(m)
  BY <1>2, <1>3, <1>5
<1>7. WellFormed(after)
  BY <1>3, <1>4, <1>5, <1>6 DEF WellFormed
<1>8. ASSUME NEW p \in Tracked(m) \ Tracked(after) PROVE IsPacketUseless(m, p)
  BY <1>2, <1>3, <1>5
<1>9. Cleaned(m, after)
  <2>1. \A p \in Tracked(after) : p \in Tracked(m) /\ after.infos[p] = m.infos[p]
    BY <1>4, <1>5, <1>6
  <2>2. QED
    BY <1>2, <1>3, <1>4, <1>8, <2>1 DEF Cleaned
<1>10. QED
  BY <1>7, <1>9 DEF after

(***************************************************************************)
(* InvokeLossDetection takes the lost packets out of flight, and makes     *)
(* pending those that have data, which they keep.                          *)
(***************************************************************************)
LEMMA LossResult ==
  ASSUME NEW m, WellFormed(m), NEW old
  PROVE  LET after == InvokeLossDetection(m, old)
         IN  WellFormed(after) /\ Detected(m, after, LostPackets(m, old))
<1> DEFINE lost    == LostPackets(m, old)
           infos   == [p \in DOMAIN m.infos |->
                         [m.infos[p] EXCEPT !.in_flight = m.infos[p].in_flight
                                                /\ p \notin lost]]
           last    == IF lost = {} THEN m.largest_lost ELSE Max(lost)
           bytes   == m.bytes_in_flight - Cardinality(lost)
           pending == m.pending \cup {p \in lost : m.infos[p].frames # {}}
           after   == InvokeLossDetection(m, old)
<1> HIDE DEF lost
<1>1. /\ DOMAIN after = Fields /\ after.infos = infos /\ after.pending = pending
      /\ after.least_unacked = m.least_unacked /\ after.largest_sent = m.largest_sent
      /\ after.largest_acked = m.largest_acked /\ after.acked = m.acked
      /\ after.bytes_in_flight = bytes /\ after.largest_lost = last
      /\ after.largest_newly_acked = m.largest_newly_acked
  <2>1. after = [m EXCEPT !.largest_lost = last, !.bytes_in_flight = bytes,
                          !.pending = pending, !.infos = infos]
    BY DEF InvokeLossDetection, lost
  <2> HIDE DEF after, infos, last, bytes, pending
  <2>2. QED
    BY <2>1 DEF WellFormed, Fields
<1>2. Tracked(after) = Tracked(m)
  BY <1>1 DEF Tracked
<1>3. ASSUME NEW p \in Tracked(m)
      PROVE  /\ infos[p].state = m.infos[p].state
             /\ infos[p].in_flight = (m.infos[p].in_flight /\ p \notin lost)
             /\ infos[p].frames = m.infos[p].frames
             /\ infos[p].retransmission = m.infos[p].retransmission
             /\ DOMAIN infos[p] = {"state", "in_flight", "frames", "retransmission"}
  BY DEF WellFormed
<1>4. DOMAIN infos = Tracked(m)
  BY DEF WellFormed
<1> HIDE DEF after, infos
<1>5. WellFormed(after)
  BY <1>1, <1>2, <1>3, <1>4 DEF WellFormed
<1>6. Detected(m, after, lost)
  BY <1>1, <1>2, <1>3 DEF Detected
<1>7. QED
  BY <1>5, <1>6 DEF after, lost

(***************************************************************************)
(* MarkPacketHandled takes the data of the newest transmissions of the     *)
(* packets it is called with, and of no other packet.                      *)
(***************************************************************************)
LEMMA HandledResult ==
  ASSUME NEW m, WellFormed(m), NEW handled
  PROVE  LET after == MarkPacketsHandled(m, handled)
         IN  WellFormed(after) /\ Handled(m, after, handled)
<1> DEFINE newest == Newest(m.infos)
           ends   == {newest[p] : p \in handled}
           cut    == {q \in Tracked(m) : \E p \in handled : p <= q /\ newest[p] = newest[q]}
           infos  == [p \in DOMAIN m.infos |->
                        [state |-> IF p \in handled THEN "ACKED" ELSE m.infos[p].state,
                         in_flight |-> m.infos[p].in_flight /\ p \notin handled,
                         frames |-> IF p \in ends THEN {} ELSE m.infos[p].frames,
                         retransmission |->
                           IF p \in cut THEN 0 ELSE m.infos[p].retransmission]]
           bytes  == m.bytes_in_flight - Cardinality(InFlight(m) \cap handled)
           after  == MarkPacketsHandled(m, handled)
<1> HIDE DEF newest, cut
<1>1. /\ DOMAIN after = Fields /\ after.infos = infos /\ after.pending = m.pending \ ends
      /\ after.least_unacked = m.least_unacked /\ after.largest_sent = m.largest_sent
      /\ after.largest_acked = m.largest_acked /\ after.acked = m.acked \cup handled
      /\ after.bytes_in_flight = bytes /\ after.largest_lost = m.largest_lost
      /\ after.largest_newly_acked = m.largest_newly_acked
  <2>1. after = [m EXCEPT !.pending = m.pending \ ends, !.bytes_in_flight = bytes,
                          !.acked = m.acked \cup handled, !.infos = infos]
    BY DEF MarkPacketsHandled, newest, cut
  <2> HIDE DEF after, infos, bytes, ends
  <2>2. QED
    BY <2>1 DEF WellFormed, Fields
<1>2. Tracked(after) = Tracked(m)
  BY <1>1 DEF Tracked
<1>3. ASSUME NEW p \in Tracked(m)
      PROVE  /\ infos[p].state = IF p \in handled THEN "ACKED" ELSE m.infos[p].state
             /\ infos[p].in_flight = (m.infos[p].in_flight /\ p \notin handled)
             /\ infos[p].frames = IF \E q \in handled : p = newest[q] THEN {}
                                  ELSE m.infos[p].frames
             /\ infos[p].retransmission \in {0, m.infos[p].retransmission}
             /\ DOMAIN infos[p] = {"state", "in_flight", "frames", "retransmission"}
  BY DEF WellFormed
<1>4. DOMAIN infos = Tracked(m)
  BY DEF WellFormed
<1> HIDE DEF after, infos
<1>5. WellFormed(after)
  BY <1>1, <1>2, <1>3, <1>4 DEF WellFormed
<1>6. Handled(m, after, handled)
  BY <1>1, <1>2, <1>3 DEF Handled, newest
<1>7. QED
  BY <1>5, <1>6 DEF after

\* The manager RemoveObsoletePackets is called with in LinkRetransmission.
Moved(m, old, pn) == [m EXCEPT !.infos[old].frames = {}, !.infos[old].retransmission = pn]

(***************************************************************************)
(* TransferRetransmissionInfo moves the data of the packet retransmitted   *)
(* and links it to the new one; then the front of the map is cleaned.      *)
(***************************************************************************)
LEMMA LinkResult ==
  ASSUME NEW m, WellFormed(m), NEW old \in Tracked(m), NEW pn, NEW moved,
         moved = Moved(m, old, pn)
  PROVE  /\ WellFormed(moved) /\ Tracked(moved) = Tracked(m)
         /\ \A f \in Fields \ {"infos"} : moved[f] = m[f]
         /\ \A p \in Tracked(m) \ {old} : moved.infos[p] = m.infos[p]
         /\ moved.infos[old].state = m.infos[old].state
         /\ moved.infos[old].in_flight = m.infos[old].in_flight
         /\ moved.infos[old].frames = {} /\ moved.infos[old].retransmission = pn
<1> DEFINE entry == [m.infos[old] EXCEPT !.frames = {}, !.retransmission = pn]
           table == [m.infos EXCEPT ![old] = entry]
<1>1. old \in DOMAIN m.infos
  BY DEF WellFormed
<1>2. moved = [m EXCEPT !.infos = table]
  BY <1>1 DEF WellFormed, Fields, Moved
<1>3. /\ entry.state = m.infos[old].state /\ entry.in_flight = m.infos[old].in_flight
      /\ entry.frames = {} /\ entry.retransmission = pn
      /\ DOMAIN entry = {"state", "in_flight", "frames", "retransmission"}
  BY <1>1 DEF WellFormed
<1> HIDE DEF entry
<1>4. /\ DOMAIN table = Tracked(m)
      /\ \A p \in Tracked(m) : table[p] = IF p = old THEN entry ELSE m.infos[p]
  BY <1>1 DEF WellFormed
<1> HIDE DEF table
<1>5. DOMAIN moved = Fields /\ moved.infos = table /\ \A f \in Fields \ {"infos"} : moved[f] = m[f]
  BY <1>2 DEF WellFormed, Fields
<1>6. moved.least_unacked = m.least_unacked /\ moved.largest_sent = m.largest_sent
  BY <1>5 DEF Fields
<1>7. Tracked(moved) = Tracked(m)
  BY <1>6 DEF Tracked
<1>8. WellFormed(moved)
  BY <1>3, <1>4, <1>5, <1>6, <1>7 DEF WellFormed
<1>9. QED
  BY <1>3, <1>4, <1>5, <1>7, <1>8

(***************************************************************************)
(* OnPacketSent adds the packet at the end of the map, in flight, with new *)
(* data or with that of the packet it retransmits.                         *)
(***************************************************************************)
LEMMA SentResult ==
  ASSUME NEW m, WellFormed(m), NEW data, NEW old, old = 0 \/ old \in Tracked(m)
  PROVE  LET after == OnPacketSent(m, m.largest_sent + 1, old, data)
         IN  WellFormed(after) /\ Sent(m, after, old, data)
<1> DEFINE pn     == m.largest_sent + 1
           begun  == [m EXCEPT !.pending = @ \ {old}]
           frames == IF old = 0 THEN data
                     ELSE IF old < begun.least_unacked THEN {} ELSE begun.infos[old].frames
           moved  == Moved(begun, old, pn)
           linked == IF old = 0 THEN begun ELSE LinkRetransmission(begun, old, pn)
           info   == [state |-> "OUTSTANDING", in_flight |-> TRUE, frames |-> frames,
                      retransmission |-> 0]
           infos  == [p \in linked.least_unacked .. pn |->
                        IF p = pn THEN info ELSE linked.infos[p]]
           after  == OnPacketSent(m, pn, old, data)
<1>1. /\ WellFormed(begun) /\ begun.infos = m.infos /\ Tracked(begun) = Tracked(m)
      /\ begun.least_unacked = m.least_unacked /\ begun.largest_sent = m.largest_sent
      /\ begun.pending = m.pending \ {old}
      /\ begun.largest_acked = m.largest_acked /\ begun.acked = m.acked
      /\ begun.bytes_in_flight = m.bytes_in_flight /\ begun.largest_lost = m.largest_lost
      /\ begun.largest_newly_acked = m.largest_newly_acked
  BY DEF WellFormed, Fields, Tracked
<1>2. after = [linked EXCEPT !.largest_sent = pn, !.bytes_in_flight = @ + 1, !.infos = infos]
  BY DEF OnPacketSent, AddSentPacket
<1> HIDE DEF begun, after
<1>3. m.least_unacked \in Nat \ {0} /\ m.largest_sent \in Nat
      /\ m.least_unacked <= m.largest_sent + 1 /\ pn \in Nat
      /\ Tracked(m) = m.least_unacked .. m.largest_sent
  BY DEF WellFormed, Tracked
<1>4. /\ WellFormed(linked) /\ linked.least_unacked >= m.least_unacked
      /\ linked.largest_sent = m.largest_sent /\ linked.pending = m.pending \ {old}
      /\ linked.largest_acked = m.largest_acked /\ linked.acked = m.acked
      /\ linked.bytes_in_flight = m.bytes_in_flight /\ linked.largest_lost = m.largest_lost
      /\ linked.largest_newly_acked = m.largest_newly_acked
      /\ frames = IF old = 0 THEN data ELSE m.infos[old].frames
      /\ \A p \in Tracked(linked) :
           /\ p \in Tracked(m)
           /\ linked.infos[p].state = m.infos[p].state
           /\ linked.infos[p].in_flight = m.infos[p].in_flight
           /\ linked.infos[p].frames = IF p = old THEN {} ELSE m.infos[p].frames
           /\ linked.infos[p].retransmission = IF p = old THEN pn ELSE m.infos[p].retransmission
      /\ \A p \in Tracked(m) \ Tracked(linked) :
           ~m.infos[p].in_flight /\ (p = old \/ m.infos[p].frames = {})
      /\ old # 0 =>
           \A p \in Tracked(m) :
             (p < old /\ \A q \in Tracked(m) : q <= p =>
                /\ ~(q > m.largest_acked) /\ ~m.infos[q].in_flight
                /\ m.infos[q].frames = {} /\ ~(m.infos[q].retransmission > m.largest_acked))
             => p < linked.least_unacked
  <2>1. CASE old = 0
    <3>1. linked = begun /\ frames = data
      BY <2>1
    <3>2. old \notin Tracked(m)
      BY <1>3, <2>1
    <3>3. QED
      BY <1>1, <1>3, <2>1, <3>1, <3>2
  <2>2. CASE old # 0
    <3>1. old \in Tracked(m) /\ ~(old < m.least_unacked)
      BY <1>3, <2>2
    <3>2. linked = RemoveObsoletePackets(moved) /\ frames = m.infos[old].frames
      BY <1>1, <2>2, <3>1 DEF LinkRetransmission, Moved
    <3>3. /\ WellFormed(moved) /\ Tracked(moved) = Tracked(m)
          /\ \A f \in Fields \ {"infos"} : moved[f] = begun[f]
          /\ \A p \in Tracked(m) \ {old} : moved.infos[p] = m.infos[p]
          /\ moved.infos[old].state = m.infos[old].state
          /\ moved.infos[old].in_flight = m.infos[old].in_flight
          /\ moved.infos[old].frames = {} /\ moved.infos[old].retransmission = pn
      <4>1. /\ WellFormed(moved) /\ Tracked(moved) = Tracked(begun)
            /\ \A f \in Fields \ {"infos"} : moved[f] = begun[f]
            /\ \A p \in Tracked(begun) \ {old} : moved.infos[p] = begun.infos[p]
            /\ moved.infos[old].state = begun.infos[old].state
            /\ moved.infos[old].in_flight = begun.infos[old].in_flight
            /\ moved.infos[old].frames = {} /\ moved.infos[old].retransmission = pn
        BY <1>1, <3>1, LinkResult
      <4> HIDE DEF moved
      <4>2. QED
        BY <1>1, <4>1
    <3> HIDE DEF moved, linked, frames
    <3>4. /\ moved.least_unacked = m.least_unacked /\ moved.largest_sent = m.largest_sent
          /\ moved.pending = m.pending \ {old}
          /\ moved.largest_acked = m.largest_acked /\ moved.acked = m.acked
          /\ moved.bytes_in_flight = m.bytes_in_flight
          /\ moved.largest_lost = m.largest_lost
          /\ moved.largest_newly_acked = m.largest_newly_acked
      BY <1>1, <3>3 DEF Fields
    <3>5. WellFormed(linked) /\ Cleaned(moved, linked)
      BY <3>2, <3>3, RemoveObsoleteResult
    <3>6. ASSUME NEW p \in Tracked(linked)
          PROVE  /\ p \in Tracked(m)
                 /\ linked.infos[p].state = m.infos[p].state
                 /\ linked.infos[p].in_flight = m.infos[p].in_flight
                 /\ linked.infos[p].frames = IF p = old THEN {} ELSE m.infos[p].frames
                 /\ linked.infos[p].retransmission =
                      IF p = old THEN pn ELSE m.infos[p].retransmission
      <4>1. p \in Tracked(m) /\ linked.infos[p] = moved.infos[p]
        BY <3>3, <3>5 DEF Cleaned
      <4>2. QED
        BY <3>3, <4>1
    <3>7. ASSUME NEW p \in Tracked(m) \ Tracked(linked)
          PROVE  ~m.infos[p].in_flight /\ (p = old \/ m.infos[p].frames = {})
      <4>1. IsPacketUseless(moved, p)
        BY <3>3, <3>5 DEF Cleaned
      <4>2. QED
        BY <3>3, <4>1 DEF IsPacketUseless
    <3>8. ASSUME NEW p \in Tracked(m), p < old,
                 \A q \in Tracked(m) : q <= p =>
                    /\ ~(q > m.largest_acked) /\ ~m.infos[q].in_flight
                    /\ m.infos[q].frames = {} /\ ~(m.infos[q].retransmission > m.largest_acked)
          PROVE  p < linked.least_unacked
      <4>1. ASSUME NEW q \in Tracked(m), q <= p PROVE IsPacketUseless(moved, q)
        <5>1. q # old /\ q \in Nat
          BY <1>3, <3>1, <3>8, <4>1
        <5>2. ~m.infos[q].in_flight /\ m.infos[q].frames = {}
              /\ ~(q > m.largest_acked) /\ ~(m.infos[q].retransmission > m.largest_acked)
          BY <3>8, <4>1
        <5>3. QED
          BY <3>3, <3>4, <5>1, <5>2 DEF IsPacketUseless
      <4>2. QED
        BY <3>3, <3>5, <4>1 DEF Cleaned
    <3>9. QED
      BY <2>2, <3>2, <3>4, <3>5, <3>6, <3>7, <3>8 DEF Cleaned
  <2>3. QED
    BY <2>1, <2>2
<1> HIDE DEF linked, frames
<1>5. /\ info.frames = frames /\ info.state = "OUTSTANDING" /\ info.in_flight
      /\ info.retransmission = 0
      /\ DOMAIN info = {"state", "in_flight", "frames", "retransmission"}
  OBVIOUS
<1> HIDE DEF info
<1>6. /\ DOMAIN after = Fields /\ after.infos = infos /\ after.largest_sent = pn
      /\ after.least_unacked = linked.least_unacked /\ after.pending = linked.pending
      /\ after.largest_acked = linked.largest_acked /\ after.acked = linked.acked
      /\ after.bytes_in_flight = linked.bytes_in_flight + 1
      /\ after.largest_lost = linked.largest_lost
      /\ after.largest_newly_acked = linked.largest_newly_acked
  BY <1>2, <1>4 DEF WellFormed, Fields
<1>7. /\ linked.least_unacked \in Nat \ {0} /\ linked.least_unacked <= pn
      /\ Tracked(linked) = linked.least_unacked .. m.largest_sent
      /\ Tracked(after) = linked.least_unacked .. pn
  BY <1>4, <1>6 DEF WellFormed, Tracked
<1>8. Tracked(after) = Tracked(linked) \cup {pn} /\ pn \notin Tracked(linked) /\ pn \notin Tracked(m)
  BY <1>3, <1>7
<1>9. ASSUME NEW p \in Tracked(after)
      PROVE  infos[p] = IF p = pn THEN info ELSE linked.infos[p]
  BY <1>7
<1>10. DOMAIN infos = Tracked(after)
  BY <1>7
<1> HIDE DEF infos
<1>11. WellFormed(after)
  <2>1. ASSUME NEW p \in Tracked(after)
        PROVE  DOMAIN infos[p] = {"state", "in_flight", "frames", "retransmission"}
    <3>1. CASE p = pn
      BY <1>5, <1>9, <3>1
    <3>2. CASE p # pn
      <4>1. p \in Tracked(linked) /\ infos[p] = linked.infos[p]
        BY <1>8, <1>9, <3>2
      <4>2. QED
        BY <1>4, <4>1 DEF WellFormed
    <3>3. QED
      BY <3>1, <3>2
  <2>2. pn \in Nat /\ after.least_unacked \in Nat \ {0} /\ after.least_unacked <= pn + 1
    BY <1>3, <1>6, <1>7
  <2>3. QED
    BY <1>6, <1>10, <2>1, <2>2 DEF WellFormed
<1>12. ASSUME NEW p \in Tracked(after) \ {pn}
       PROVE  p \in Tracked(linked) /\ after.infos[p] = linked.infos[p]
  BY <1>6, <1>8, <1>9
<1>13. after.infos[pn] = info
  BY <1>6, <1>8, <1>9
<1>14. Sent(m, after, old, data)
  BY <1>4, <1>5, <1>6, <1>7, <1>8, <1>12, <1>13 DEF Sent
<1>15. QED
  BY <1>11, <1>14 DEF after

\* What OnAckFrameStart and OnAckRange make of prior, and OnAckFrameEnd at last.
Raised(prior, m, numbers) ==
  /\ Tracked(m) = Tracked(prior)
  /\ m.largest_acked = IF Max(numbers) > prior.largest_acked THEN Max(numbers)
                       ELSE prior.largest_acked
  /\ m.largest_newly_acked = IF NewlyAcked(prior, numbers) = {} THEN prior.largest_newly_acked
                             ELSE Max(NewlyAcked(prior, numbers))
  /\ \A f \in Fields \ {"largest_acked", "largest_newly_acked"} : m[f] = prior[f]

Pruned(prior, m) ==
  /\ Tracked(m) = Tracked(prior)
  /\ m.acked = {p \in prior.acked : p >= prior.least_unacked}
  /\ \A f \in Fields \ {"acked"} : m[f] = prior[f]

\* The packets OnAckFrameEnd handles.
ToHandle(m, numbers) == {p \in NewlyAcked(m, numbers) : m.infos[p].state # "ACKED"}

(***************************************************************************)
(* OnAckFrame in its stages: the largest numbers are raised, the packets   *)
(* acked are handled, those lost are detected and the map is cleaned.      *)
(***************************************************************************)
LEMMA AckStages ==
  ASSUME NEW m, WellFormed(m), NEW numbers, NEW old
  PROVE  \E raised, handled, detected, cleaned :
           /\ WellFormed(raised) /\ Raised(m, raised, numbers)
           /\ WellFormed(handled) /\ Handled(raised, handled, ToHandle(m, numbers))
           /\ WellFormed(detected)
           /\ Detected(handled, detected, LostPackets(handled, old))
           /\ WellFormed(cleaned) /\ Cleaned(detected, cleaned)
           /\ WellFormed(OnAckFrame(m, numbers, old))
           /\ Pruned(cleaned, OnAckFrame(m, numbers, old))
<1> DEFINE newly    == NewlyAcked(m, numbers)
           top      == IF Max(numbers) > m.largest_acked THEN Max(numbers) ELSE m.largest_acked
           newest   == IF newly = {} THEN m.largest_newly_acked ELSE Max(newly)
           raised   == [m EXCEPT !.largest_acked = top, !.largest_newly_acked = newest]
           handled  == MarkPacketsHandled(raised, ToHandle(m, numbers))
           detected == InvokeLossDetection(handled, old)
           cleaned  == RemoveObsoletePackets(detected)
           left     == {p \in cleaned.acked : p >= cleaned.least_unacked}
           after    == OnAckFrame(m, numbers, old)
<1>1. after = [cleaned EXCEPT !.acked = left]
  BY DEF OnAckFrame, ToHandle
<1> HIDE DEF newly, top, newest
<1>2. WellFormed(raised) /\ Raised(m, raised, numbers)
  BY DEF WellFormed, Fields, Tracked, Raised, newly, top, newest
<1> HIDE DEF raised
<1>3. WellFormed(handled) /\ Handled(raised, handled, ToHandle(m, numbers))
  BY <1>2, HandledResult
<1> HIDE DEF handled
<1>4. WellFormed(detected) /\ Detected(handled, detected, LostPackets(handled, old))
  BY <1>3, LossResult
<1> HIDE DEF detected
<1>5. WellFormed(cleaned) /\ Cleaned(detected, cleaned)
  BY <1>4, RemoveObsoleteResult
<1> SUFFICES WellFormed(after) /\ Pruned(cleaned, after)
  BY <1>2, <1>3, <1>4, <1>5, Zenon
<1> HIDE DEF cleaned, after
<1>6. DOMAIN after = Fields /\ after.acked = left
      /\ \A f \in Fields \ {"acked"} : after[f] = cleaned[f]
  <2> HIDE DEF left
  <2>1. QED
    BY <1>1, <1>5 DEF WellFormed, Fields
<1>7. /\ after.infos = cleaned.infos /\ after.least_unacked = cleaned.least_unacked
      /\ after.largest_sent = cleaned.largest_sent
  BY <1>6 DEF Fields
<1>8. Tracked(after) = Tracked(cleaned)
  BY <1>7 DEF Tracked
<1>9. QED
  BY <1>5, <1>6, <1>7, <1>8 DEF WellFormed, Pruned

\* What an ack of the numbers makes of m when it gives up no more data than it acks.
GivesUpAcked(m, after, numbers) ==
  /\ WellFormed(after) /\ after.least_unacked >= m.least_unacked
  /\ after.largest_sent = m.largest_sent
  /\ \A p \in Tracked(after) :
       /\ p \in Tracked(m) /\ after.infos[p].frames \subseteq m.infos[p].frames
       /\ after.infos[p].retransmission \in {0, m.infos[p].retransmission}
  /\ \A d \in DataOf(m) \ DataOf(after) :
       \E p \in NewlyAcked(m, numbers) : d \in m.infos[Newest(m.infos)[p]].frames

(***************************************************************************)
(* OnAckFrame: data the manager gives up when an ack comes is data of the  *)
(* newest transmission of a packet that this ack is the first to ack, and  *)
(* GetLeastUnacked, the number of the stop waiting frames, does not fall.  *)
(***************************************************************************)
THEOREM AckGivesUpOnlyAcked ==
  ASSUME NEW m, WellFormed(m), NEW numbers, NEW old
  PROVE  GivesUpAcked(m, OnAckFrame(m, numbers, old), numbers)
<1> DEFINE after == OnAckFrame(m, numbers, old)
<1>1. PICK raised, handled, detected, cleaned :
        /\ WellFormed(raised) /\ Raised(m, raised, numbers)
        /\ WellFormed(handled) /\ Handled(raised, handled, ToHandle(m, numbers))
        /\ WellFormed(detected)
        /\ Detected(handled, detected, LostPackets(handled, old))
        /\ WellFormed(cleaned) /\ Cleaned(detected, cleaned)
        /\ WellFormed(after) /\ Pruned(cleaned, after)
  BY AckStages
<1> HIDE DEF after
<1>2. /\ raised.infos = m.infos /\ Tracked(raised) = Tracked(m)
      /\ raised.least_unacked = m.least_unacked /\ raised.largest_sent = m.largest_sent
  BY <1>1 DEF Raised, Fields
<1>3. /\ after.infos = cleaned.infos /\ Tracked(after) = Tracked(cleaned)
      /\ after.least_unacked = cleaned.least_unacked
      /\ after.largest_sent = cleaned.largest_sent
  BY <1>1 DEF Pruned, Fields
<1>4. after.least_unacked >= m.least_unacked /\ after.largest_sent = m.largest_sent
  BY <1>1, <1>2, <1>3 DEF Handled, Detected, Cleaned
<1>5. Tracked(detected) = Tracked(m)
  BY <1>1, <1>2 DEF Handled, Detected
<1>6. ASSUME NEW p \in Tracked(m)
      PROVE  detected.infos[p].frames =
               IF \E q \in ToHandle(m, numbers) : p = Newest(m.infos)[q] THEN {}
               ELSE m.infos[p].frames
  <2>1. detected.infos[p].frames = handled.infos[p].frames
    <3>1. p \in Tracked(handled)
      BY <1>1, <1>2, Zenon DEF Handled
    <3>2. QED
      BY <1>1, <3>1, Zenon DEF Detected
  <2>2. QED
    BY <1>1, <1>2, <2>1 DEF Handled
<1>7. ASSUME NEW p \in Tracked(after)
      PROVE  /\ p \in Tracked(m) /\ after.infos[p].frames \subseteq m.infos[p].frames
             /\ after.infos[p].retransmission \in {0, m.infos[p].retransmission}
  <2>1. p \in Tracked(m) /\ after.infos[p] = detected.infos[p]
    BY <1>1, <1>3, <1>5 DEF Cleaned
  <2>2. detected.infos[p].retransmission = handled.infos[p].retransmission
    BY <1>1, <1>2, <2>1 DEF Handled, Detected
  <2>3. handled.infos[p].retransmission \in {0, m.infos[p].retransmission}
    BY <1>1, <1>2, <2>1 DEF Handled
  <2>4. QED
    BY <1>6, <2>1, <2>2, <2>3
<1>8. ASSUME NEW d \in DataOf(m) \ DataOf(after)
      PROVE  \E p \in NewlyAcked(m, numbers) : d \in m.infos[Newest(m.infos)[p]].frames
  <2>1. PICK q \in Tracked(m) : d \in m.infos[q].frames
    BY DEF DataOf
  <2>2. d \notin detected.infos[q].frames
    <3>1. CASE q \in Tracked(cleaned)
      BY <1>1, <1>3, <3>1 DEF Cleaned, DataOf
    <3>2. CASE q \notin Tracked(cleaned)
      BY <1>1, <1>5, <3>2 DEF Cleaned, IsPacketUseless
    <3>3. QED
      BY <3>1, <3>2
  <2>3. \E p \in ToHandle(m, numbers) : q = Newest(m.infos)[p]
    BY <1>6, <2>1, <2>2
  <2>4. QED
    BY <2>1, <2>3 DEF ToHandle
<1>9. QED
  <2>1. GivesUpAcked(m, after, numbers)
    BY <1>1, <1>4, <1>7, <1>8, Zenon DEF GivesUpAcked
  <2>2. QED
    BY <2>1 DEF after

(***************************************************************************)
(* OnPacketSent: a transmission keeps all data the manager has, adding new *)
(* data or moving that of the packet it retransmits to the new number, and *)
(* does not lower GetLeastUnacked.                                         *)
(***************************************************************************)
THEOREM SendingKeepsData ==
  ASSUME NEW m, WellFormed(m), NEW data, NEW old, old = 0 \/ old \in Tracked(m)
  PROVE  LET after == OnPacketSent(m, m.largest_sent + 1, old, data)
         IN  /\ WellFormed(after) /\ after.least_unacked >= m.least_unacked
             /\ DataOf(after) = DataOf(m) \cup (IF old = 0 THEN data ELSE {})
<1> DEFINE pn     == m.largest_sent + 1
           after  == OnPacketSent(m, pn, old, data)
<1>1. WellFormed(after) /\ Sent(m, after, old, data)
  BY SentResult
<1> HIDE DEF after
<1>2. /\ m.least_unacked \in Nat /\ m.largest_sent \in Nat /\ after.least_unacked \in Nat
      /\ Tracked(m) = m.least_unacked .. m.largest_sent
      /\ Tracked(after) = after.least_unacked .. pn
      /\ after.least_unacked >= m.least_unacked /\ after.least_unacked <= pn
  BY <1>1 DEF WellFormed, Tracked, Sent
<1>3. pn \in Tracked(after) /\ pn \notin Tracked(m) /\ (old = 0 => old \notin Tracked(m))
  BY <1>1, <1>2 DEF WellFormed
<1>4. after.infos[pn].frames = IF old = 0 THEN data ELSE m.infos[old].frames
  BY <1>1 DEF Sent
<1>5. ASSUME NEW p \in Tracked(after), p # pn
      PROVE  p \in Tracked(m)
             /\ after.infos[p].frames = IF p = old THEN {} ELSE m.infos[p].frames
  BY <1>1, <1>5 DEF Sent
<1>6. ASSUME NEW p \in Tracked(m) PROVE p \in Tracked(after) \/ p = old \/ m.infos[p].frames = {}
  BY <1>1 DEF Sent
<1>7. DataOf(after) \subseteq DataOf(m) \cup (IF old = 0 THEN data ELSE {})
  BY <1>4, <1>5 DEF DataOf
<1>8. DataOf(m) \subseteq DataOf(after)
  BY <1>3, <1>4, <1>5, <1>6 DEF DataOf
<1>9. (IF old = 0 THEN data ELSE {}) \subseteq DataOf(after)
  BY <1>3, <1>4 DEF DataOf
<1>10. QED
  BY <1>1, <1>2, <1>7, <1>8, <1>9 DEF after
-----------------------------------------------------------------------------
Link(m, p) == m.infos[p].retransmission

Bounds(m) ==
  /\ m.largest_acked \in 0..m.largest_sent
  /\ m.largest_newly_acked \in 0..m.largest_acked
  /\ m.largest_lost \in 0..m.largest_acked

\* A pending packet was lost and has the data to retransmit.
PendingOK(m) ==
  \A p \in m.pending : /\ p \in Tracked(m) /\ p <= m.largest_lost
                       /\ ~m.infos[p].in_flight /\ m.infos[p].frames # {}

\* Data that is not in flight is pending.
FlightOK(m) ==
  \A p \in Tracked(m) :
    /\ m.infos[p].state \in {"OUTSTANDING", "ACKED"}
    /\ m.infos[p].in_flight => p > m.largest_lost
    /\ ~m.infos[p].in_flight /\ m.infos[p].frames # {} => p \in m.pending
    /\ m.infos[p].state = "ACKED" => p \in m.acked

\* A packet that was retransmitted is older than all that are pending.
LinksOK(m) ==
  \A p \in Tracked(m) :
    /\ Link(m, p) \in Nat
    /\ Link(m, p) # 0 =>
         /\ Link(m, p) \in p+1 .. m.largest_sent /\ Link(m, Link(m, p)) = 0
         /\ m.infos[p].frames = {} /\ ~m.infos[p].in_flight /\ p <= m.largest_lost
         /\ \A q \in m.pending : p < q

LinksOrdered(m) ==
  \A p, q \in Tracked(m) : p < q /\ Link(m, p) # 0 /\ Link(m, q) # 0 => Link(m, p) < Link(m, q)

CountOK(m) == m.bytes_in_flight = Cardinality(InFlight(m))

ManagerOK(m) ==
  /\ WellFormed(m) /\ Bounds(m) /\ PendingOK(m) /\ FlightOK(m)
  /\ LinksOK(m) /\ LinksOrdered(m) /\ CountOK(m)

(***************************************************************************)
(* The tracked packets are a finite interval of positive numbers.          *)
(***************************************************************************)
LEMMA TrackedInterval ==
  ASSUME NEW m, WellFormed(m)
  PROVE  /\ m.least_unacked \in Nat \ {0} /\ m.largest_sent \in Nat
         /\ m.least_unacked <= m.largest_sent + 1
         /\ Tracked(m) = m.least_unacked .. m.largest_sent
         /\ \A p \in Tracked(m) : p \in Nat /\ p <= m.largest_sent
         /\ IsFiniteSet(Tracked(m)) /\ IsFiniteSet(InFlight(m)) /\ InFlight(m) \subseteq Tracked(m)
<1>1. /\ m.least_unacked \in Nat \ {0} /\ m.largest_sent \in Nat
      /\ m.least_unacked <= m.largest_sent + 1
      /\ Tracked(m) = m.least_unacked .. m.largest_sent
  BY DEF WellFormed, Tracked
<1>2. IsFiniteSet(Tracked(m))
  <2>1. m.least_unacked \in Int /\ m.largest_sent \in Int
    BY <1>1
  <2>2. IsFiniteSet(m.least_unacked .. m.largest_sent)
    BY ONLY <2>1, FS_Interval, Zenon
  <2>3. QED
    BY <1>1, <2>2, Zenon
<1>3. InFlight(m) \in SUBSET Tracked(m)
  BY DEF InFlight
<1>4. \A p \in Tracked(m) : p \in Nat /\ p <= m.largest_sent
  BY <1>1
<1>5. QED
  BY <1>1, <1>2, <1>3, <1>4, FS_Subset

(***************************************************************************)
(* A fresh packet manager tracks nothing.                                  *)
(***************************************************************************)
LEMMA InitManagerOK == ManagerOK(ManagerInit)
<1>1. Tracked(ManagerInit) = {}
  BY DEF Tracked, ManagerInit
<1>2. InFlight(ManagerInit) = {} /\ Cardinality({}) = 0
  BY <1>1, FS_EmptySet DEF InFlight
<1>3. WellFormed(ManagerInit)
  BY <1>1 DEF WellFormed, Fields, ManagerInit
<1>4. /\ Bounds(ManagerInit) /\ PendingOK(ManagerInit) /\ FlightOK(ManagerInit)
      /\ LinksOK(ManagerInit) /\ LinksOrdered(ManagerInit)
  <2>1. Bounds(ManagerInit)
    BY DEF Bounds, ManagerInit
  <2>2. ManagerInit.pending = {}
    BY DEF ManagerInit
  <2>3. PendingOK(ManagerInit)
    BY <2>2, Zenon DEF PendingOK
  <2>4. FlightOK(ManagerInit) /\ LinksOK(ManagerInit) /\ LinksOrdered(ManagerInit)
    BY <1>1, Zenon DEF FlightOK, LinksOK, LinksOrdered
  <2>5. QED
    BY <2>1, <2>3, <2>4
<1>5. CountOK(ManagerInit)
  BY <1>2 DEF CountOK, ManagerInit
<1>6. QED
  BY <1>3, <1>4, <1>5 DEF ManagerOK

(***************************************************************************)
(* GetNewestRetransmission follows at most one link.                       *)
(***************************************************************************)
LEMMA NewestIsNext ==
  ASSUME NEW m, WellFormed(m), LinksOK(m), NEW p \in Tracked(m)
  PROVE  Newest(m.infos)[p] = IF Link(m, p) = 0 THEN p ELSE Link(m, p)
<1> DEFINE D      == DOMAIN m.infos
           F(f)   == [x \in D |-> IF m.infos[x].retransmission = 0 THEN x
                                  ELSE f[m.infos[x].retransmission]]
           w      == [x \in D |-> IF m.infos[x].retransmission = 0 THEN x
                                  ELSE m.infos[x].retransmission]
           newest == Newest(m.infos)
<1>1. D = Tracked(m) /\ p \in D
  BY DEF WellFormed
<1>2. ASSUME NEW x \in D, m.infos[x].retransmission # 0
      PROVE  /\ m.infos[x].retransmission \in D
             /\ m.infos[m.infos[x].retransmission].retransmission = 0
  <2>1. /\ m.infos[x].retransmission \in x+1 .. m.largest_sent
        /\ m.infos[m.infos[x].retransmission].retransmission = 0
    BY <1>1, <1>2 DEF LinksOK, Link
  <2>2. m.infos[x].retransmission \in Tracked(m)
    BY <1>1, <2>1, TrackedInterval
  <2>3. QED
    BY <1>1, <2>1, <2>2
<1>3. w = F(w)
  BY <1>2
<1>4. newest = CHOOSE f : f = F(f)
  BY DEF Newest
<1>5. newest = F(newest)
  BY <1>3, <1>4
<1> HIDE DEF newest, D
<1>6. ASSUME NEW x \in D
      PROVE  newest[x] = IF m.infos[x].retransmission = 0 THEN x
                         ELSE newest[m.infos[x].retransmission]
  BY <1>5
<1>7. QED
  BY <1>1, <1>2, <1>6 DEF newest, Link

(***************************************************************************)
(* The largest numbers an ack raises stay below what has been sent.        *)
(***************************************************************************)
LEMMA RaisedOK ==
  ASSUME NEW m, ManagerOK(m), NEW after, WellFormed(after),
         NEW numbers \in SUBSET (1 .. m.largest_sent), numbers # {}, Raised(m, after, numbers)
  PROVE  ManagerOK(after)
<1>1. WellFormed(m) /\ Bounds(m) /\ m.largest_sent \in Nat
  BY DEF ManagerOK, WellFormed
<1>2. /\ Tracked(after) = Tracked(m) /\ after.infos = m.infos
      /\ after.largest_sent = m.largest_sent /\ after.pending = m.pending
      /\ after.acked = m.acked /\ after.largest_lost = m.largest_lost
      /\ after.bytes_in_flight = m.bytes_in_flight
  BY DEF Raised, Fields
<1>3. Max(numbers) \in numbers /\ \A y \in numbers : y <= Max(numbers)
  <2>1. numbers \in SUBSET (0 .. m.largest_sent)
    BY <1>1
  <2>2. QED
    BY <1>1, <2>1, MaxOfBounded
<1>4. NewlyAcked(m, numbers) # {} =>
        Max(NewlyAcked(m, numbers)) \in numbers
  <2>1. NewlyAcked(m, numbers) \in SUBSET (0 .. m.largest_sent)
        /\ NewlyAcked(m, numbers) \subseteq numbers
    BY <1>1 DEF NewlyAcked
  <2>2. QED
    BY <1>1, <2>1, MaxOfBounded
<1>5. Bounds(after)
  <2> DEFINE newly == NewlyAcked(m, numbers)
             top   == Max(numbers)
             last  == Max(newly)
  <2>1. /\ m.largest_acked \in 0..m.largest_sent
        /\ m.largest_newly_acked \in 0..m.largest_acked
        /\ m.largest_lost \in 0..m.largest_acked
    BY <1>1 DEF Bounds
  <2>2. /\ after.largest_acked = IF top > m.largest_acked THEN top ELSE m.largest_acked
        /\ after.largest_newly_acked = IF newly = {} THEN m.largest_newly_acked ELSE last
    BY DEF Raised
  <2>3. top \in 1 .. m.largest_sent /\ (newly # {} => last \in 1 .. m.largest_sent /\ last <= top)
    BY <1>3, <1>4
  <2> HIDE DEF newly, top, last
  <2>4. QED
    BY <1>1, <1>2, <2>1, <2>2, <2>3 DEF Bounds
<1>6. PendingOK(after) /\ FlightOK(after)
  BY <1>2 DEF ManagerOK, PendingOK, FlightOK
<1>7. LinksOK(after) /\ LinksOrdered(after)
  BY <1>2 DEF ManagerOK, LinksOK, LinksOrdered, Link
<1>8. CountOK(after)
  BY <1>2 DEF ManagerOK, CountOK, InFlight
<1>9. QED
  BY <1>5, <1>6, <1>7, <1>8 DEF ManagerOK

(***************************************************************************)
(* Handling the packets acked leaves no data out of flight that is not     *)
(* pending: an acked packet has lost its data, to the ack or before to its *)
(* retransmission.                                                         *)
(***************************************************************************)
LEMMA HandledOK ==
  ASSUME NEW m, ManagerOK(m), NEW after, WellFormed(after),
         NEW handled \in SUBSET Tracked(m), Handled(m, after, handled)
  PROVE  ManagerOK(after)
<1>1. WellFormed(m) /\ LinksOK(m)
  BY DEF ManagerOK
<1>2. Tracked(after) = Tracked(m)
  BY DEF Handled
<1>3. Bounds(after)
  BY DEF ManagerOK, Bounds, Handled
<1>4. \A p \in Tracked(m) :
        Newest(m.infos)[p] = IF Link(m, p) = 0 THEN p ELSE Link(m, p)
  BY <1>1, NewestIsNext
<1>5. PendingOK(after)
  <2> SUFFICES ASSUME NEW p \in after.pending
               PROVE  /\ p \in Tracked(m) /\ p <= m.largest_lost
                      /\ ~after.infos[p].in_flight /\ after.infos[p].frames # {}
    BY <1>2 DEF PendingOK, Handled
  <2>1. p \in m.pending /\ ~\E q \in handled : p = Newest(m.infos)[q]
    BY DEF Handled
  <2>2. p \in Tracked(m) /\ p <= m.largest_lost /\ ~m.infos[p].in_flight
        /\ m.infos[p].frames # {}
    BY <2>1 DEF ManagerOK, PendingOK
  <2>3. QED
    BY <2>1, <2>2 DEF Handled
<1>6. FlightOK(after)
  <2> SUFFICES ASSUME NEW p \in Tracked(m)
               PROVE  /\ after.infos[p].state \in {"OUTSTANDING", "ACKED"}
                      /\ after.infos[p].in_flight => p > after.largest_lost
                      /\ ~after.infos[p].in_flight /\ after.infos[p].frames # {}
                            => p \in after.pending
                      /\ after.infos[p].state = "ACKED" => p \in after.acked
    BY <1>2 DEF FlightOK
  <2>1. /\ m.infos[p].in_flight => p > m.largest_lost
        /\ ~m.infos[p].in_flight /\ m.infos[p].frames # {} => p \in m.pending
        /\ m.infos[p].state = "ACKED" => p \in m.acked
    BY DEF ManagerOK, FlightOK
  <2>2. p \in handled => after.infos[p].frames = {}
    <3>1. CASE Link(m, p) = 0
      BY <1>4, <3>1 DEF Handled
    <3>2. CASE Link(m, p) # 0
      BY <1>1, <3>2 DEF Handled, LinksOK
    <3>3. QED
      BY <3>1, <3>2
  <2>3. after.infos[p].in_flight => p > after.largest_lost
    BY <2>1 DEF Handled
  <2>4. ~after.infos[p].in_flight /\ after.infos[p].frames # {} => p \in after.pending
    BY <2>1, <2>2 DEF Handled
  <2>5. after.infos[p].state = "ACKED" => p \in after.acked
    BY <2>1 DEF Handled
  <2>6. after.infos[p].state \in {"OUTSTANDING", "ACKED"}
    BY DEF ManagerOK, FlightOK, Handled
  <2>7. QED
    BY <2>3, <2>4, <2>5, <2>6
<1>7. ASSUME NEW p \in Tracked(m), Link(after, p) # 0
      PROVE  /\ Link(after, p) = Link(m, p) /\ Link(m, p) \in Tracked(m)
             /\ Link(m, p) \in p+1 .. m.largest_sent
             /\ after.infos[p].frames = {} /\ ~after.infos[p].in_flight
             /\ p <= m.largest_lost /\ \A q \in after.pending : p < q
             /\ Link(after, Link(m, p)) = 0
  <2>1. Link(after, p) = Link(m, p)
    BY <1>7 DEF Handled, Link
  <2>2. /\ Link(m, p) \in p+1 .. m.largest_sent /\ Link(m, Link(m, p)) = 0
        /\ m.infos[p].frames = {} /\ ~m.infos[p].in_flight /\ p <= m.largest_lost
        /\ \A q \in m.pending : p < q
    BY <1>1, <1>7, <2>1 DEF LinksOK
  <2>3. Link(m, p) \in Tracked(m)
    BY <1>1, <2>2, TrackedInterval
  <2>4. Link(after, Link(m, p)) = 0
    BY <2>2, <2>3 DEF Handled, Link
  <2>5. QED
    BY <2>1, <2>2, <2>3, <2>4 DEF Handled
<1>8. LinksOK(after)
  <2>1. \A p \in Tracked(m) : Link(after, p) \in Nat
    BY <1>1 DEF Handled, LinksOK, Link
  <2>2. after.largest_sent = m.largest_sent /\ after.largest_lost = m.largest_lost
    BY DEF Handled
  <2>3. QED
    BY <1>2, <1>7, <2>1, <2>2 DEF LinksOK
<1>9. LinksOrdered(after)
  BY <1>2, <1>7 DEF ManagerOK, LinksOrdered
<1>10. CountOK(after)
  <2>1. InFlight(after) = InFlight(m) \ handled
    BY <1>2 DEF InFlight, Handled
  <2>2. Cardinality(InFlight(m) \ handled)
          = Cardinality(InFlight(m)) - Cardinality(InFlight(m) \cap handled)
    BY <1>1, TrackedInterval, FS_Difference
  <2>3. QED
    BY <2>1, <2>2 DEF ManagerOK, CountOK, Handled
<1>11. QED
  BY <1>3, <1>5, <1>6, <1>8, <1>9, <1>10 DEF ManagerOK

(***************************************************************************)
(* DetectLosses declares lost a packet only together with all older ones   *)
(* that are in flight, so largest_lost_ separates the lost from those in   *)
(* flight.                                                                 *)
(***************************************************************************)
LEMMA DetectedOK ==
  ASSUME NEW m, ManagerOK(m), NEW after, WellFormed(after), NEW old \in Nat,
         Detected(m, after, LostPackets(m, old))
  PROVE  ManagerOK(after)
<1> DEFINE lost == LostPackets(m, old)
<1>1. /\ WellFormed(m) /\ Bounds(m) /\ LinksOK(m)
      /\ m.largest_sent \in Nat /\ m.largest_acked \in Nat
      /\ m.largest_lost \in Nat /\ m.largest_newly_acked \in Nat
  BY DEF ManagerOK, WellFormed, Bounds
<1>2. Tracked(after) = Tracked(m) /\ after.largest_sent = m.largest_sent
  BY DEF Detected
<1>3. lost \subseteq InFlight(m) /\ lost \subseteq Tracked(m) /\ \A p \in lost : p \in Nat
  <2>1. lost \subseteq InFlight(m)
    BY DEF LostPackets
  <2> HIDE DEF lost
  <2>2. QED
    BY <1>1, <2>1, TrackedInterval
<1>4. \A p \in lost : m.largest_lost < p /\ p <= m.largest_newly_acked
  BY DEF LostPackets
<1>5. /\ after.largest_lost \in Nat /\ m.largest_lost <= after.largest_lost
      /\ after.largest_lost <= m.largest_acked
      /\ \A p \in lost : p <= after.largest_lost
      /\ \A p \in InFlight(m) \ lost : p > after.largest_lost
  <2>1. CASE lost = {}
    <3>1. after.largest_lost = m.largest_lost
      BY <2>1 DEF Detected
    <3>2. \A p \in InFlight(m) : p > m.largest_lost
      BY DEF ManagerOK, FlightOK, InFlight
    <3>3. QED
      BY <1>1, <2>1, <3>1, <3>2 DEF Bounds
  <2>2. CASE lost # {}
    <3>1. lost \in SUBSET (0 .. m.largest_newly_acked)
      BY <1>1, <1>3, <1>4
    <3>2. Max(lost) \in lost /\ \A p \in lost : p <= Max(lost)
      BY <1>1, <2>2, <3>1, MaxOfBounded
    <3>3. after.largest_lost = Max(lost)
      BY <2>2 DEF Detected
    <3>4. ASSUME NEW p \in InFlight(m) \ lost PROVE p > Max(lost)
      <4> SUFFICES ASSUME ~(p > Max(lost)) PROVE FALSE
        OBVIOUS
      <4>1. p \in Nat /\ p > m.largest_lost
        <5> HIDE DEF lost
        <5>1. p \in Tracked(m) /\ m.infos[p].in_flight
          BY DEF InFlight
        <5>2. p > m.largest_lost
          BY <5>1 DEF ManagerOK, FlightOK
        <5>3. QED
          BY <1>1, <5>1, <5>2, TrackedInterval
      <4>2. Max(lost) \in Nat /\ p <= Max(lost)
        BY <1>3, <3>2, <4>1
      <4>3. /\ Max(lost) <= m.largest_newly_acked
            /\ m.largest_newly_acked - Max(lost) >= NacksBeforeRetransmission \/ Max(lost) <= old
        BY <3>2 DEF LostPackets
      <4>4. /\ p <= m.largest_newly_acked
            /\ m.largest_newly_acked - p >= NacksBeforeRetransmission \/ p <= old
        BY <1>1, <4>1, <4>2, <4>3, NacksAssumption
      <4>5. QED
        BY <4>1, <4>4 DEF LostPackets
    <3>5. QED
      BY <1>1, <1>3, <1>4, <3>2, <3>3, <3>4 DEF Bounds
  <2>3. QED
    BY <2>1, <2>2
<1>6. Bounds(after)
  BY <1>1, <1>5 DEF Bounds, Detected
<1> HIDE DEF lost
<1>7. /\ after.pending = m.pending \cup {p \in lost : m.infos[p].frames # {}}
      /\ \A p \in Tracked(m) :
           /\ after.infos[p].state = m.infos[p].state
           /\ after.infos[p].in_flight = (m.infos[p].in_flight /\ p \notin lost)
           /\ after.infos[p].frames = m.infos[p].frames
           /\ Link(after, p) = Link(m, p)
  BY DEF Detected, Link, lost
<1>8. PendingOK(after)
  <2> SUFFICES ASSUME NEW p \in after.pending
               PROVE  /\ p \in Tracked(m) /\ p <= after.largest_lost
                      /\ ~after.infos[p].in_flight /\ after.infos[p].frames # {}
    BY <1>2 DEF PendingOK
  <2>1. CASE p \in m.pending
    <3>1. /\ p \in Tracked(m) /\ p <= m.largest_lost
          /\ ~m.infos[p].in_flight /\ m.infos[p].frames # {}
      BY <2>1 DEF ManagerOK, PendingOK
    <3>2. p \in Nat
      BY <1>1, <3>1, TrackedInterval
    <3>3. p <= after.largest_lost
      BY <1>1, <1>5, <3>1, <3>2
    <3>4. QED
      BY <1>7, <3>1, <3>3
  <2>2. CASE p \in lost /\ m.infos[p].frames # {}
    BY <1>3, <1>5, <1>7, <2>2
  <2>3. QED
    BY <1>7, <2>1, <2>2
<1>9. FlightOK(after)
  <2> SUFFICES ASSUME NEW p \in Tracked(m)
               PROVE  /\ after.infos[p].state \in {"OUTSTANDING", "ACKED"}
                      /\ after.infos[p].in_flight => p > after.largest_lost
                      /\ ~after.infos[p].in_flight /\ after.infos[p].frames # {}
                            => p \in after.pending
                      /\ after.infos[p].state = "ACKED" => p \in after.acked
    BY <1>2 DEF FlightOK
  <2>1. /\ ~m.infos[p].in_flight /\ m.infos[p].frames # {} => p \in m.pending
        /\ m.infos[p].state = "ACKED" => p \in m.acked
        /\ m.infos[p].state \in {"OUTSTANDING", "ACKED"}
    BY DEF ManagerOK, FlightOK
  <2>2. after.infos[p].in_flight => p > after.largest_lost
    BY <1>5, <1>7 DEF InFlight
  <2>3. after.acked = m.acked
    BY DEF Detected
  <2>4. QED
    BY <1>7, <2>1, <2>2, <2>3
<1>10. LinksOK(after)
  <2> SUFFICES ASSUME NEW p \in Tracked(m)
               PROVE  /\ Link(after, p) \in Nat
                      /\ Link(after, p) # 0 =>
                           /\ Link(after, p) \in p+1 .. m.largest_sent
                           /\ Link(after, Link(after, p)) = 0
                           /\ after.infos[p].frames = {} /\ ~after.infos[p].in_flight
                           /\ p <= after.largest_lost
                           /\ \A q \in after.pending : p < q
    BY <1>2 DEF LinksOK
  <2>1. Link(m, p) \in Nat /\ Link(after, p) = Link(m, p)
    BY <1>1, <1>7 DEF LinksOK
  <2>2. CASE Link(m, p) # 0
    <3>1. /\ Link(m, p) \in p+1 .. m.largest_sent /\ Link(m, Link(m, p)) = 0
          /\ m.infos[p].frames = {} /\ ~m.infos[p].in_flight /\ p <= m.largest_lost
          /\ \A q \in m.pending : p < q
      BY <1>1, <2>2 DEF LinksOK
    <3>2. Link(m, p) \in Tracked(m) /\ p \in Nat
      BY <1>1, <3>1, TrackedInterval
    <3>3. \A q \in lost : p < q
      BY <1>1, <1>3, <1>4, <3>1, <3>2
    <3>4. p <= after.largest_lost
      BY <1>1, <1>5, <3>1, <3>2
    <3>5. QED
      BY <1>7, <2>1, <3>1, <3>2, <3>3, <3>4
  <2>3. QED
    BY <2>1, <2>2
<1>11. LinksOrdered(after)
  BY <1>2, <1>7 DEF ManagerOK, LinksOrdered
<1>12. CountOK(after)
  <2>1. InFlight(after) = InFlight(m) \ lost
    BY <1>2, <1>7 DEF InFlight
  <2>2. InFlight(m) \cap lost = lost
    BY <1>3
  <2>3. Cardinality(InFlight(m) \ lost) = Cardinality(InFlight(m)) - Cardinality(lost)
    BY <1>1, <2>2, TrackedInterval, FS_Difference
  <2>4. QED
    BY <2>1, <2>3 DEF ManagerOK, CountOK, Detected, lost
<1>13. QED
  BY <1>6, <1>8, <1>9, <1>10, <1>11, <1>12 DEF ManagerOK

(***************************************************************************)
(* The packets that leave the front of the map take nothing along that     *)
(* the others need.                                                        *)
(***************************************************************************)
LEMMA CleanedOK ==
  ASSUME NEW m, ManagerOK(m), NEW after, WellFormed(after), Cleaned(m, after)
  PROVE  ManagerOK(after)
<1>1. WellFormed(m)
  BY DEF ManagerOK
<1>2. /\ \A p \in Tracked(after) : p \in Tracked(m) /\ after.infos[p] = m.infos[p]
      /\ \A p \in Tracked(m) \ Tracked(after) :
           ~m.infos[p].in_flight /\ m.infos[p].frames = {}
      /\ after.largest_sent = m.largest_sent /\ after.pending = m.pending
      /\ after.largest_acked = m.largest_acked /\ after.acked = m.acked
      /\ after.bytes_in_flight = m.bytes_in_flight /\ after.largest_lost = m.largest_lost
      /\ after.largest_newly_acked = m.largest_newly_acked
  BY DEF Cleaned, IsPacketUseless
<1>3. Bounds(after)
  BY <1>2 DEF ManagerOK, Bounds
<1>4. PendingOK(after)
  BY <1>2 DEF ManagerOK, PendingOK
<1>5. FlightOK(after)
  BY <1>2 DEF ManagerOK, FlightOK
<1>6. LinksOK(after)
  <2> SUFFICES ASSUME NEW p \in Tracked(after)
               PROVE  /\ Link(after, p) \in Nat
                      /\ Link(after, p) # 0 =>
                           /\ Link(after, p) \in p+1 .. m.largest_sent
                           /\ Link(after, Link(after, p)) = 0
                           /\ after.infos[p].frames = {} /\ ~after.infos[p].in_flight
                           /\ p <= m.largest_lost
                           /\ \A q \in m.pending : p < q
    BY <1>2 DEF LinksOK
  <2>1. p \in Tracked(m) /\ Link(after, p) = Link(m, p) /\ after.infos[p] = m.infos[p]
    BY <1>2 DEF Link
  <2>2. Link(m, p) \in Nat
    BY <2>1 DEF ManagerOK, LinksOK
  <2>3. CASE Link(m, p) # 0
    <3>1. /\ Link(m, p) \in p+1 .. m.largest_sent /\ Link(m, Link(m, p)) = 0
          /\ m.infos[p].frames = {} /\ ~m.infos[p].in_flight /\ p <= m.largest_lost
          /\ \A q \in m.pending : p < q
      BY <2>1, <2>3 DEF ManagerOK, LinksOK
    <3>2. Link(m, p) \in Tracked(after)
      <4>1. /\ Tracked(after) = after.least_unacked .. m.largest_sent
            /\ after.least_unacked \in Nat /\ m.largest_sent \in Nat
        BY <1>2, TrackedInterval
      <4>2. QED
        BY <3>1, <4>1
    <3>3. QED
      BY <1>2, <2>1, <2>2, <3>1, <3>2 DEF Link
  <2>4. QED
    BY <2>1, <2>2, <2>3
<1>7. LinksOrdered(after)
  BY <1>2 DEF ManagerOK, LinksOrdered, Link
<1>8. CountOK(after)
  <2>1. InFlight(after) = InFlight(m)
    BY <1>2 DEF InFlight
  <2>2. QED
    BY <1>2, <2>1 DEF ManagerOK, CountOK
<1>9. QED
  BY <1>3, <1>4, <1>5, <1>6, <1>7, <1>8 DEF ManagerOK

(***************************************************************************)
(* OnAckFrame keeps the invariant, whatever sent packets an ack names and  *)
(* however many a time test finds old.                                     *)
(***************************************************************************)
THEOREM AckKeepsManager ==
  ASSUME NEW m, ManagerOK(m), NEW old \in Nat,
         NEW numbers \in SUBSET (1 .. m.largest_sent), numbers # {}
  PROVE  ManagerOK(OnAckFrame(m, numbers, old))
<1> DEFINE after == OnAckFrame(m, numbers, old)
<1>1. PICK raised, handled, detected, cleaned :
        /\ WellFormed(raised) /\ Raised(m, raised, numbers)
        /\ WellFormed(handled) /\ Handled(raised, handled, ToHandle(m, numbers))
        /\ WellFormed(detected)
        /\ Detected(handled, detected, LostPackets(handled, old))
        /\ WellFormed(cleaned) /\ Cleaned(detected, cleaned)
        /\ WellFormed(after) /\ Pruned(cleaned, after)
  BY AckStages DEF ManagerOK
<1> HIDE DEF after
<1>2. ManagerOK(raised)
  BY <1>1, RaisedOK
<1>3. ToHandle(m, numbers) \in SUBSET Tracked(raised)
  <2>1. Tracked(raised) = m.least_unacked .. m.largest_sent
        /\ m.least_unacked \in Nat /\ m.largest_sent \in Nat
    BY <1>1, TrackedInterval DEF Raised, ManagerOK
  <2>2. ASSUME NEW p \in ToHandle(m, numbers) PROVE p \in Tracked(raised)
    <3>1. p \in numbers /\ p >= m.least_unacked
      BY DEF ToHandle, NewlyAcked
    <3>2. p \in 1 .. m.largest_sent
      BY <3>1
    <3>3. QED
      BY <2>1, <3>1, <3>2
  <2>3. QED
    BY <2>2
<1>4. ManagerOK(handled)
  BY <1>1, <1>2, <1>3, HandledOK
<1>5. ManagerOK(detected)
  BY <1>1, <1>4, DetectedOK
<1>6. ManagerOK(cleaned)
  BY <1>1, <1>5, CleanedOK
<1>7. /\ Tracked(after) = Tracked(cleaned) /\ after.infos = cleaned.infos
      /\ after.largest_sent = cleaned.largest_sent /\ after.pending = cleaned.pending
      /\ after.largest_acked = cleaned.largest_acked
      /\ after.largest_lost = cleaned.largest_lost
      /\ after.largest_newly_acked = cleaned.largest_newly_acked
      /\ after.bytes_in_flight = cleaned.bytes_in_flight
      /\ after.acked = {p \in cleaned.acked : p >= cleaned.least_unacked}
  BY <1>1 DEF Pruned, Fields
<1>8. Bounds(after) /\ PendingOK(after)
  BY <1>6, <1>7 DEF ManagerOK, Bounds, PendingOK
<1>9. FlightOK(after)
  <2>1. \A p \in Tracked(cleaned) : p >= cleaned.least_unacked
    <3>1. WellFormed(cleaned)
      BY <1>6 DEF ManagerOK
    <3>2. Tracked(cleaned) = cleaned.least_unacked .. cleaned.largest_sent
      BY <3>1, TrackedInterval
    <3>3. QED
      BY <3>2
  <2>2. QED
    BY <1>6, <1>7, <2>1 DEF ManagerOK, FlightOK
<1>10. LinksOK(after) /\ LinksOrdered(after)
  BY <1>6, <1>7 DEF ManagerOK, LinksOK, LinksOrdered, Link
<1>11. CountOK(after)
  BY <1>6, <1>7 DEF ManagerOK, CountOK, InFlight
<1>12. QED
  BY <1>1, <1>8, <1>9, <1>10, <1>11 DEF ManagerOK, after

(***************************************************************************)
(* When the oldest pending packet is retransmitted, the packet that it has *)
(* itself repaired is removed from the map: nothing up to it is useful.    *)
(***************************************************************************)
LEMMA RepairedIsGone ==
  ASSUME NEW m, ManagerOK(m), NEW after, NEW old \in m.pending,
         \A q \in m.pending : old <= q,
         Sent(m, after, old, {}), NEW p \in Tracked(m), Link(m, p) = old
  PROVE  p < after.least_unacked
<1>1. /\ WellFormed(m) /\ m.largest_sent \in Nat /\ m.largest_acked \in Nat
      /\ m.largest_lost \in Nat /\ m.largest_lost <= m.largest_acked
  BY DEF ManagerOK, WellFormed, Bounds
<1>2. old \in Tracked(m) /\ old \in Nat \ {0} /\ p \in Nat /\ old <= m.largest_lost
  BY <1>1, TrackedInterval DEF ManagerOK, PendingOK
<1>3. p < old
  BY <1>1, <1>2 DEF ManagerOK, LinksOK
<1>4. ASSUME NEW q \in Tracked(m), q <= p
      PROVE  /\ ~(q > m.largest_acked) /\ ~m.infos[q].in_flight
             /\ m.infos[q].frames = {} /\ ~(m.infos[q].retransmission > m.largest_acked)
  <2>1. q \in Nat /\ q < old
    BY <1>1, <1>2, <1>3, <1>4, TrackedInterval
  <2>2. ~(q > m.largest_acked) /\ ~(q > m.largest_lost)
    BY <1>1, <1>2, <2>1
  <2>3. ~m.infos[q].in_flight
    BY <2>2 DEF ManagerOK, FlightOK
  <2>4. q \notin m.pending
    BY <1>2, <2>1
  <2>5. m.infos[q].frames = {}
    BY <2>3, <2>4 DEF ManagerOK, FlightOK
  <2>6. ~(Link(m, q) > m.largest_acked)
    <3>1. Link(m, q) \in Nat
      BY DEF ManagerOK, LinksOK
    <3>2. CASE Link(m, q) = 0
      BY <1>1, <3>2
    <3>3. CASE q = p
      BY <1>1, <1>2, <3>3
    <3>4. CASE Link(m, q) # 0 /\ q # p
      <4>1. q < p /\ Link(m, p) # 0
        BY <1>2, <1>4, <2>1, <3>4
      <4>2. Link(m, q) < old
        BY <3>4, <4>1 DEF ManagerOK, LinksOrdered
      <4>3. QED
        BY <1>1, <1>2, <3>1, <4>2
    <3>5. QED
      BY <3>2, <3>3, <3>4
  <2>7. QED
    BY <2>2, <2>3, <2>5, <2>6 DEF Link
<1>5. QED
  BY <1>2, <1>3, <1>4 DEF Sent

(***************************************************************************)
(* OnPacketSent keeps the invariant, for new data and for the packet that  *)
(* NextPendingRetransmission chooses.                                      *)
(***************************************************************************)
THEOREM SendingKeepsManager ==
  ASSUME NEW m, ManagerOK(m), NEW data, NEW old,
         \/ old = 0
         \/ old \in m.pending /\ (\A q \in m.pending : old <= q) /\ data = {}
  PROVE  /\ ManagerOK(OnPacketSent(m, m.largest_sent + 1, old, data))
         /\ Sent(m, OnPacketSent(m, m.largest_sent + 1, old, data), old, data)
<1> DEFINE pn    == m.largest_sent + 1
           after == OnPacketSent(m, pn, old, data)
<1>1. /\ WellFormed(m) /\ m.largest_sent \in Nat /\ m.largest_acked \in Nat
      /\ m.largest_lost \in Nat /\ m.largest_lost <= m.largest_acked
      /\ m.largest_acked <= m.largest_sent /\ m.largest_newly_acked \in 0..m.largest_acked
      /\ pn \in Nat /\ pn > m.largest_sent
  BY DEF ManagerOK, WellFormed, Bounds
<1>2. old \in m.pending => old \in Tracked(m) /\ old \in Nat \ {0} /\ old <= m.largest_lost
                           /\ ~m.infos[old].in_flight
  BY <1>1, TrackedInterval DEF ManagerOK, PendingOK
<1>3. WellFormed(after) /\ Sent(m, after, old, data)
  BY <1>1, <1>2, SentResult
<1> HIDE DEF after
<1>4. /\ after.largest_sent = pn /\ after.pending = m.pending \ {old}
      /\ after.largest_acked = m.largest_acked /\ after.acked = m.acked
      /\ after.bytes_in_flight = m.bytes_in_flight + 1
      /\ after.largest_lost = m.largest_lost
      /\ after.largest_newly_acked = m.largest_newly_acked
      /\ after.infos[pn].state = "OUTSTANDING" /\ after.infos[pn].in_flight
      /\ Link(after, pn) = 0
  BY <1>3 DEF Sent, Link
<1>5. /\ Tracked(after) = after.least_unacked .. pn /\ pn \in Tracked(after)
      /\ Tracked(m) = m.least_unacked .. m.largest_sent /\ pn \notin Tracked(m)
      /\ \A p \in Tracked(m) : p \in Nat /\ p < pn
      /\ after.least_unacked \in Nat /\ 0 \notin Tracked(m)
      /\ \A p \in Tracked(after) : p \in Nat
  <2>1. /\ Tracked(m) = m.least_unacked .. m.largest_sent /\ m.least_unacked \in Nat \ {0}
        /\ Tracked(after) = after.least_unacked .. pn /\ after.least_unacked \in Nat
        /\ after.least_unacked <= pn
    <3>1. /\ Tracked(m) = m.least_unacked .. m.largest_sent
          /\ m.least_unacked \in Nat \ {0}
      BY <1>1, TrackedInterval, Zenon
    <3>2. /\ Tracked(after) = after.least_unacked .. after.largest_sent
          /\ after.least_unacked \in Nat \ {0}
      BY <1>3, TrackedInterval, Zenon
    <3>3. after.least_unacked <= pn
      BY <1>3, Zenon DEF Sent
    <3>4. QED
      BY <1>4, <3>1, <3>2, <3>3
  <2>2. QED
    BY <1>1, <2>1
<1>6. ASSUME NEW p \in Tracked(after), p # pn
      PROVE  /\ p \in Tracked(m)
             /\ after.infos[p].state = m.infos[p].state
             /\ after.infos[p].in_flight = m.infos[p].in_flight
             /\ after.infos[p].frames = IF p = old THEN {} ELSE m.infos[p].frames
             /\ Link(after, p) = IF p = old THEN pn ELSE Link(m, p)
  BY <1>3, <1>6 DEF Sent, Link
<1>7. ASSUME NEW p \in Tracked(m), p \notin Tracked(after)
      PROVE  ~m.infos[p].in_flight /\ (p = old \/ m.infos[p].frames = {})
  BY <1>3, <1>7 DEF Sent
<1> HIDE DEF pn
<1>8. Bounds(after)
  BY <1>1, <1>4 DEF Bounds
<1>9. PendingOK(after)
  <2> SUFFICES ASSUME NEW p \in m.pending, p # old
               PROVE  /\ p \in Tracked(after) /\ p <= m.largest_lost
                      /\ ~after.infos[p].in_flight /\ after.infos[p].frames # {}
    BY <1>4 DEF PendingOK
  <2>1. /\ p \in Tracked(m) /\ p <= m.largest_lost
        /\ ~m.infos[p].in_flight /\ m.infos[p].frames # {}
    BY DEF ManagerOK, PendingOK
  <2>2. p \in Tracked(after) /\ p # pn
    BY <1>5, <1>7, <2>1
  <2>3. QED
    BY <1>6, <2>1, <2>2
<1>10. FlightOK(after)
  <2> SUFFICES ASSUME NEW p \in Tracked(after)
               PROVE  /\ after.infos[p].state \in {"OUTSTANDING", "ACKED"}
                      /\ after.infos[p].in_flight => p > m.largest_lost
                      /\ ~after.infos[p].in_flight /\ after.infos[p].frames # {}
                            => p \in m.pending \ {old}
                      /\ after.infos[p].state = "ACKED" => p \in m.acked
    BY <1>4 DEF FlightOK
  <2>1. CASE p = pn
    BY <1>1, <1>4, <2>1
  <2>2. CASE p # pn
    <3>1. p \in Tracked(m)
      BY <1>6, <2>2
    <3>2. /\ m.infos[p].in_flight => p > m.largest_lost
          /\ ~m.infos[p].in_flight /\ m.infos[p].frames # {} => p \in m.pending
          /\ m.infos[p].state = "ACKED" => p \in m.acked
          /\ m.infos[p].state \in {"OUTSTANDING", "ACKED"}
      BY <3>1 DEF ManagerOK, FlightOK
    <3>3. QED
      BY <1>6, <2>2, <3>2
  <2>3. QED
    BY <2>1, <2>2
<1>11. ASSUME NEW p \in Tracked(after), p # pn, p # old, Link(m, p) # 0
       PROVE  /\ Link(m, p) \in p+1 .. m.largest_sent
              /\ m.infos[p].frames = {} /\ ~m.infos[p].in_flight /\ p <= m.largest_lost
              /\ \A q \in m.pending : p < q
              /\ Link(after, Link(m, p)) = 0
  <2>1. p \in Tracked(m)
    BY <1>6, <1>11
  <2>2. /\ Link(m, p) \in p+1 .. m.largest_sent /\ Link(m, Link(m, p)) = 0
        /\ m.infos[p].frames = {} /\ ~m.infos[p].in_flight /\ p <= m.largest_lost
        /\ \A q \in m.pending : p < q
    BY <1>11, <2>1 DEF ManagerOK, LinksOK
  <2>3. Link(m, p) \in Tracked(after) /\ Link(m, p) # pn
    BY <1>1, <1>5, <2>2
  <2>4. Link(m, p) # old
    <3> SUFFICES ASSUME Link(m, p) = old PROVE FALSE
      OBVIOUS
    <3>1. old \in m.pending /\ (\A q \in m.pending : old <= q) /\ data = {}
      BY <1>11
    <3>2. p < after.least_unacked
      BY <1>3, <2>1, <3>1, RepairedIsGone
    <3>3. QED
      BY <1>5, <3>2
  <2>5. QED
    BY <1>6, <2>2, <2>3, <2>4
<1>12. LinksOK(after)
  <2> SUFFICES ASSUME NEW p \in Tracked(after)
               PROVE  /\ Link(after, p) \in Nat
                      /\ Link(after, p) # 0 =>
                           /\ Link(after, p) \in p+1 .. pn
                           /\ Link(after, Link(after, p)) = 0
                           /\ after.infos[p].frames = {} /\ ~after.infos[p].in_flight
                           /\ p <= m.largest_lost
                           /\ \A q \in m.pending \ {old} : p < q
    BY <1>4 DEF LinksOK
  <2>1. CASE p = pn
    BY <1>4, <2>1
  <2>2. CASE p = old /\ p # pn
    <3>1. p \in Tracked(m) /\ old # 0
      BY <1>5, <1>6, <2>2
    <3>2. old \in m.pending /\ (\A q \in m.pending : old <= q)
      BY <3>1
    <3>3. Link(after, p) = pn /\ after.infos[p].frames = {} /\ ~after.infos[p].in_flight
      BY <1>2, <1>6, <2>2, <3>2
    <3>4. pn \in p+1 .. pn /\ p <= m.largest_lost
      BY <1>1, <1>2, <1>5, <2>2, <3>1, <3>2
    <3>5. ASSUME NEW q \in m.pending \ {old} PROVE p < q
      <4>1. q \in Nat /\ old <= q /\ old \in Nat /\ q # old
        BY <1>1, <1>2, <1>5, <3>2 DEF ManagerOK, PendingOK
      <4>2. QED
        BY <2>2, <4>1
    <3>6. QED
      BY <1>1, <1>4, <3>3, <3>4, <3>5
  <2>3. CASE p # old /\ p # pn
    <3>1. p \in Tracked(m) /\ Link(after, p) = Link(m, p)
          /\ after.infos[p].frames = m.infos[p].frames
          /\ after.infos[p].in_flight = m.infos[p].in_flight
      BY <1>6, <2>3
    <3>2. Link(m, p) \in Nat
      BY <3>1 DEF ManagerOK, LinksOK
    <3>3. CASE Link(m, p) # 0
      <4>1. Link(m, p) \in p+1 .. pn
        BY <1>1, <1>5, <1>11, <2>3, <3>3
      <4>2. QED
        BY <1>11, <2>3, <3>1, <3>2, <3>3, <4>1
    <3>4. QED
      BY <3>1, <3>2, <3>3
  <2>4. QED
    BY <2>1, <2>2, <2>3
<1>13. LinksOrdered(after)
  <2> SUFFICES ASSUME NEW p \in Tracked(after), NEW q \in Tracked(after), p < q,
                      Link(after, p) # 0, Link(after, q) # 0
               PROVE  Link(after, p) < Link(after, q)
    BY DEF LinksOrdered
  <2>1. p # pn /\ q # pn
    BY <1>4
  <2>2. p \in Tracked(m) /\ q \in Tracked(m) /\ p \in Nat /\ q \in Nat
    BY <1>5, <1>6, <2>1
  <2>3. CASE q = old
    <3>1. p # old /\ Link(after, q) = pn /\ Link(after, p) = Link(m, p)
      BY <1>6, <2>1, <2>2, <2>3
    <3>2. Link(m, p) \in p+1 .. m.largest_sent
      BY <1>11, <2>1, <3>1
    <3>3. QED
      BY <1>1, <2>2, <3>1, <3>2
  <2>4. CASE p = old
    <3>1. q # old /\ Link(after, q) = Link(m, q)
      BY <1>6, <2>1, <2>2, <2>4
    <3>2. \A x \in m.pending : q < x
      BY <1>11, <2>1, <3>1
    <3>3. old \in m.pending
      BY <1>5, <2>2, <2>4
    <3>4. QED
      BY <2>2, <2>4, <3>2, <3>3
  <2>5. CASE p # old /\ q # old
    <3>1. Link(after, p) = Link(m, p) /\ Link(after, q) = Link(m, q)
      BY <1>6, <2>1, <2>5
    <3>2. QED
      BY <2>2, <3>1 DEF ManagerOK, LinksOrdered
  <2>6. QED
    BY <2>3, <2>4, <2>5
<1>14. CountOK(after)
  <2>1. InFlight(after) = InFlight(m) \cup {pn}
    BY <1>4, <1>5, <1>6, <1>7 DEF InFlight
  <2>2. pn \notin InFlight(m)
    BY <1>5 DEF InFlight
  <2>3. Cardinality(InFlight(m) \cup {pn}) = Cardinality(InFlight(m)) + 1
    BY <1>1, <2>2, TrackedInterval, FS_AddElement
  <2>4. QED
    BY <1>4, <2>1, <2>3 DEF ManagerOK, CountOK
<1>15. QED
  BY <1>3, <1>8, <1>9, <1>10, <1>12, <1>13, <1>14 DEF ManagerOK, after, pn

-----------------------------------------------------------------------------
Infos(D) ==
  [state: {"OUTSTANDING", "ACKED"}, in_flight: BOOLEAN, frames: SUBSET D, retransmission: Nat]

\* The unacked packet map holds an entry for data of D, and nothing else, for
\* each tracked packet.
Typed(m, D) == m.infos \in [Tracked(m) -> Infos(D)]

(***************************************************************************)
(* RemoveObsoletePackets leaves a typed map.                               *)
(***************************************************************************)
LEMMA CleanedTyped ==
  ASSUME NEW m, WellFormed(m), NEW D, Typed(m, D)
  PROVE  Typed(RemoveObsoletePackets(m), D)
<1> DEFINE useful == {p \in Tracked(m) : ~IsPacketUseless(m, p)}
           least  == IF useful = {} THEN m.largest_sent + 1 ELSE Min(useful)
           infos  == [p \in least .. m.largest_sent |-> m.infos[p]]
           after  == RemoveObsoletePackets(m)
<1>1. after = [m EXCEPT !.least_unacked = least, !.infos = infos]
  BY DEF RemoveObsoletePackets
<1>2. WellFormed(after) /\ Cleaned(m, after)
  BY RemoveObsoleteResult
<1> HIDE DEF least
<1>3. after.infos = infos
  BY <1>1 DEF WellFormed, Fields
<1> HIDE DEF after
<1>4. infos = [p \in DOMAIN infos |-> infos[p]] /\ DOMAIN infos = Tracked(after)
  BY <1>2, <1>3 DEF WellFormed
<1> HIDE DEF infos
<1>5. \A p \in Tracked(after) : infos[p] \in Infos(D)
  BY <1>2, <1>3 DEF Cleaned, Typed
<1>6. QED
  BY <1>3, <1>4, <1>5 DEF Typed, after

(***************************************************************************)
(* OnPacketSent leaves a typed map.                                        *)
(***************************************************************************)
LEMMA SentTyped ==
  ASSUME NEW m, WellFormed(m), NEW D, Typed(m, D), NEW data \in SUBSET D,
         NEW old, old = 0 \/ old \in Tracked(m)
  PROVE  Typed(OnPacketSent(m, m.largest_sent + 1, old, data), D)
<1> DEFINE pn     == m.largest_sent + 1
           begun  == [m EXCEPT !.pending = @ \ {old}]
           frames == IF old = 0 THEN data
                     ELSE IF old < begun.least_unacked THEN {} ELSE begun.infos[old].frames
           moved  == Moved(begun, old, pn)
           linked == IF old = 0 THEN begun ELSE LinkRetransmission(begun, old, pn)
           info   == [state |-> "OUTSTANDING", in_flight |-> TRUE, frames |-> frames,
                      retransmission |-> 0]
           infos  == [p \in linked.least_unacked .. pn |->
                        IF p = pn THEN info ELSE linked.infos[p]]
           after  == OnPacketSent(m, pn, old, data)
<1>1. /\ WellFormed(begun) /\ begun.infos = m.infos /\ Tracked(begun) = Tracked(m)
      /\ begun.least_unacked = m.least_unacked /\ begun.largest_sent = m.largest_sent
  BY DEF WellFormed, Fields, Tracked
<1>2. after = [linked EXCEPT !.largest_sent = pn, !.bytes_in_flight = @ + 1, !.infos = infos]
  BY DEF OnPacketSent, AddSentPacket
<1>3. WellFormed(after)
  BY SentResult
<1> HIDE DEF begun, after
<1>4. m.least_unacked \in Nat \ {0} /\ m.largest_sent \in Nat /\ pn \in Nat
      /\ Tracked(m) = m.least_unacked .. m.largest_sent
  BY DEF WellFormed, Tracked
<1>5. Typed(begun, D)
  BY <1>1 DEF Typed
<1>6. WellFormed(linked) /\ Typed(linked, D) /\ linked.largest_sent = m.largest_sent
      /\ frames \in SUBSET D
  <2>1. CASE old = 0
    BY <1>1, <1>5, <2>1
  <2>2. CASE old # 0
    <3>1. old \in Tracked(m) /\ ~(old < m.least_unacked)
      BY <1>4, <2>2
    <3>2. linked = RemoveObsoletePackets(moved) /\ frames = m.infos[old].frames
      BY <1>1, <2>2, <3>1 DEF LinkRetransmission, Moved
    <3>3. m.infos[old] \in Infos(D)
      BY <3>1 DEF Typed
    <3>4. /\ WellFormed(moved) /\ Tracked(moved) = Tracked(begun)
          /\ \A f \in Fields \ {"infos"} : moved[f] = begun[f]
      BY <1>1, <3>1, LinkResult
    <3>5. Typed(moved, D)
      <4> DEFINE entry == [m.infos[old] EXCEPT !.frames = {}, !.retransmission = pn]
                 table == [m.infos EXCEPT ![old] = entry]
      <4>1. entry \in Infos(D)
        BY <1>4, <3>3 DEF Infos
      <4> HIDE DEF entry
      <4>2. table \in [Tracked(m) -> Infos(D)]
        BY <3>1, <4>1 DEF Typed
      <4>3. moved.infos = table
        BY <1>1, <3>1 DEF WellFormed, Fields, Moved, entry
      <4> HIDE DEF table, moved
      <4>4. QED
        BY <1>1, <3>4, <4>2, <4>3 DEF Typed
    <3> HIDE DEF moved, linked, frames
    <3>6. moved.largest_sent = m.largest_sent
      BY <1>1, <3>4 DEF Fields
    <3>7. WellFormed(linked) /\ Typed(linked, D) /\ linked.largest_sent = m.largest_sent
      BY <3>2, <3>4, <3>5, <3>6, RemoveObsoleteResult, CleanedTyped DEF Cleaned
    <3>8. QED
      BY <3>2, <3>3, <3>7 DEF Infos
  <2>3. QED
    BY <2>1, <2>2
<1> HIDE DEF linked, frames
<1>7. info \in Infos(D)
  BY <1>6 DEF Infos
<1> HIDE DEF info
<1>8. after.infos = infos
  BY <1>2, <1>6 DEF WellFormed, Fields
<1>9. Tracked(linked) = linked.least_unacked .. m.largest_sent /\ linked.least_unacked \in Nat
  BY <1>6 DEF WellFormed, Tracked
<1>10. infos \in [linked.least_unacked .. pn -> Infos(D)]
  <2>1. ASSUME NEW p \in linked.least_unacked .. pn, p # pn PROVE linked.infos[p] \in Infos(D)
    <3>1. p \in Tracked(linked)
      BY <1>4, <1>9, <2>1
    <3>2. QED
      BY <1>6, <3>1 DEF Typed
  <2>2. QED
    BY <1>7, <2>1
<1>11. DOMAIN infos = linked.least_unacked .. pn /\ DOMAIN infos = Tracked(after)
  BY <1>3, <1>8 DEF WellFormed
<1>12. QED
  BY <1>8, <1>10, <1>11 DEF Typed, after

(***************************************************************************)
(* OnAckFrame leaves a typed map.                                          *)
(***************************************************************************)
LEMMA AckTyped ==
  ASSUME NEW m, WellFormed(m), NEW D, Typed(m, D), NEW numbers, NEW old
  PROVE  Typed(OnAckFrame(m, numbers, old), D)
<1> DEFINE newly    == NewlyAcked(m, numbers)
           top      == IF Max(numbers) > m.largest_acked THEN Max(numbers) ELSE m.largest_acked
           newest   == IF newly = {} THEN m.largest_newly_acked ELSE Max(newly)
           raised   == [m EXCEPT !.largest_acked = top, !.largest_newly_acked = newest]
           handled  == MarkPacketsHandled(raised, ToHandle(m, numbers))
           detected == InvokeLossDetection(handled, old)
           cleaned  == RemoveObsoletePackets(detected)
           left     == {p \in cleaned.acked : p >= cleaned.least_unacked}
           after    == OnAckFrame(m, numbers, old)
<1>1. after = [cleaned EXCEPT !.acked = left]
  BY DEF OnAckFrame, ToHandle
<1> HIDE DEF newly, top, newest, after
<1>2. WellFormed(raised) /\ Tracked(raised) = Tracked(m) /\ raised.infos = m.infos
  BY DEF WellFormed, Fields, Tracked
<1>3. Typed(raised, D)
  BY <1>2 DEF Typed
<1> HIDE DEF raised
<1>4. WellFormed(handled) /\ Typed(handled, D)
  <2> DEFINE H    == ToHandle(m, numbers)
             R    == raised.infos
             ends == {Newest(R)[p] : p \in H}
             cut  == {q \in Tracked(raised) : \E p \in H : p <= q /\ Newest(R)[p] = Newest(R)[q]}
             infos  == [p \in DOMAIN R |->
                          [state |-> IF p \in H THEN "ACKED" ELSE R[p].state,
                           in_flight |-> R[p].in_flight /\ p \notin H,
                           frames |-> IF p \in ends THEN {} ELSE R[p].frames,
                           retransmission |-> IF p \in cut THEN 0 ELSE R[p].retransmission]]
  <2> HIDE DEF H
  <2>1. WellFormed(handled) /\ Handled(raised, handled, H)
    BY <1>2, HandledResult DEF H
  <2>2. handled.infos = infos
    BY <1>2 DEF MarkPacketsHandled, WellFormed, Fields, H
  <2> HIDE DEF handled, ends, cut
  <2>3. ASSUME NEW p \in Tracked(raised)
        PROVE  [state |-> IF p \in H THEN "ACKED" ELSE R[p].state,
                in_flight |-> R[p].in_flight /\ p \notin H,
                frames |-> IF p \in ends THEN {} ELSE R[p].frames,
                retransmission |-> IF p \in cut THEN 0 ELSE R[p].retransmission] \in Infos(D)
    <3>1. R[p] \in Infos(D)
      BY <1>3 DEF Typed
    <3> HIDE DEF R
    <3>2. QED
      BY <3>1 DEF Infos
  <2>4. DOMAIN R = Tracked(raised) /\ Tracked(handled) = Tracked(raised)
    BY <1>2, <2>1 DEF WellFormed, Handled
  <2> HIDE DEF R
  <2>5. infos \in [Tracked(raised) -> Infos(D)]
    BY <2>3, <2>4
  <2>6. QED
    BY <2>1, <2>2, <2>4, <2>5 DEF Typed
<1> HIDE DEF handled
<1>5. WellFormed(detected) /\ Typed(detected, D)
  <2> DEFINE lost  == LostPackets(handled, old)
             H     == handled.infos
             infos == [p \in DOMAIN H |->
                         [H[p] EXCEPT !.in_flight = H[p].in_flight /\ p \notin lost]]
  <2>1. WellFormed(detected) /\ Detected(handled, detected, lost)
    BY <1>4, LossResult
  <2>2. detected.infos = infos
    BY <1>4 DEF InvokeLossDetection, WellFormed, Fields
  <2>3. DOMAIN H = Tracked(handled) /\ Tracked(detected) = Tracked(handled)
    BY <1>4, <2>1 DEF WellFormed, Detected
  <2> HIDE DEF detected, lost
  <2>4. ASSUME NEW p \in Tracked(handled)
        PROVE  [H[p] EXCEPT !.in_flight = H[p].in_flight /\ p \notin lost] \in Infos(D)
    <3>1. H[p] \in Infos(D)
      BY <1>4 DEF Typed
    <3> HIDE DEF H
    <3>2. QED
      BY <3>1 DEF Infos
  <2> HIDE DEF H
  <2>5. infos \in [Tracked(handled) -> Infos(D)]
    BY <2>3, <2>4
  <2>6. QED
    BY <2>1, <2>2, <2>3, <2>5 DEF Typed
<1> HIDE DEF detected
<1>6. WellFormed(cleaned) /\ Typed(cleaned, D)
  BY <1>5, RemoveObsoleteResult, CleanedTyped
<1> HIDE DEF cleaned, left
<1>7. after.infos = cleaned.infos /\ Tracked(after) = Tracked(cleaned)
  BY <1>1, <1>6 DEF WellFormed, Fields, Tracked
<1>8. QED
  BY <1>6, <1>7 DEF Typed, after
=============================================================================
