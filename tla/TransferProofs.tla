--------------------------- MODULE TransferProofs ---------------------------
(***************************************************************************)
(* The safety of QuicTransfer for every bound, window and number of losses *)
(* and that it implements Delivery.  The invariant joins that of the       *)
(* packet manager to the history of the data: a tracked packet has no data *)
(* that was not sent under its number, nor has its retransmission, so what *)
(* the ack of a received packet settles has arrived with that packet.      *)
(***************************************************************************)
EXTENDS QuicTransfer, ManagerProofs

SenderOK(t) ==
  /\ DOMAIN t = {"running", "seq", "stop_waiting_count", "window", "manager"}
  /\ ManagerOK(t.manager) /\ Typed(t.manager, 1..MaxSeq)
  /\ t.manager.largest_sent = t.seq - 1
  /\ t.seq \in 1 .. MaxSeq+1 /\ t.window \in Windows /\ t.stop_waiting_count \in Nat

\* The data of the packet and of its retransmission was sent under its number.
CarriedAt(m, c, p) ==
  /\ m.infos[p].frames \subseteq c[p]
  /\ Link(m, p) # 0 => m.infos[Link(m, p)].frames \subseteq c[p]

\* What a heartbeat that began with the sender s has made of it when it has
\* taken on the data new.
Extends(s, t, c, new) ==
  /\ SenderOK(t) /\ t.seq >= s.seq /\ t.running = s.running
  /\ t.manager.least_unacked >= s.manager.least_unacked
  /\ DataOf(t.manager) = DataOf(s.manager) \cup new
  /\ \A p \in s.seq .. t.seq - 1 :
       p \in Tracked(t.manager) /\ t.manager.infos[p].in_flight
  /\ \A p \in Tracked(t.manager) : p < s.seq => CarriedAt(t.manager, c, p)

(***************************************************************************)
(* One packet sent in a heartbeat, new or a retransmission.                *)
(***************************************************************************)
LEMMA SendOne ==
  ASSUME NEW s, s.seq \in Nat \ {0}, s.manager.least_unacked \in Nat,
         NEW c, NEW t, Extends(s, t, c, {}), CanSend(t),
         NEW old, NEW new \in SUBSET (1..MaxSeq),
         \/ old = 0
         \/ /\ old \in t.manager.pending /\ new = {}
            /\ \A q \in t.manager.pending : old <= q,
         NEW u, DOMAIN u = DOMAIN t, u.manager = OnPacketSent(t.manager, t.seq, old, new),
         u.seq = t.seq + 1, u.running = t.running, u.window = t.window,
         u.stop_waiting_count \in Nat
  PROVE  Extends(s, u, c, new) /\ u.manager.least_unacked >= t.manager.least_unacked
<1> DEFINE m == t.manager
           k == u.manager
<1>1. SenderOK(t) /\ ManagerOK(m) /\ WellFormed(m) /\ t.seq \in Nat \ {0}
      /\ t.seq = m.largest_sent + 1 /\ t.seq >= s.seq /\ t.seq <= MaxSeq
  BY SenderAssumption DEF Extends, SenderOK, ManagerOK, WellFormed, CanSend
<1>2. ManagerOK(k) /\ Sent(m, k, old, new)
  BY <1>1, SendingKeepsManager
<1>3. old = 0 \/ old \in Tracked(m)
  BY <1>1 DEF ManagerOK, PendingOK
<1>4. Typed(k, 1..MaxSeq) /\ DataOf(k) = DataOf(m) \cup new
  <2>1. DataOf(k) = DataOf(m) \cup (IF old = 0 THEN new ELSE {})
    <3>1. k = OnPacketSent(m, m.largest_sent + 1, old, new)
      BY <1>1
    <3> HIDE DEF m, k
    <3>2. QED
      BY <1>1, <1>3, <3>1, SendingKeepsData
  <2>2. (IF old = 0 THEN new ELSE {}) = new
    <3>1. CASE old = 0
      BY <3>1
    <3>2. CASE old # 0
      BY <3>2
    <3>3. QED
      BY <3>1, <3>2
  <2>3. Typed(k, 1..MaxSeq)
    <3>1. Typed(m, 1..MaxSeq) /\ k = OnPacketSent(m, m.largest_sent + 1, old, new)
      BY <1>1 DEF SenderOK
    <3> HIDE DEF m, k
    <3>2. QED
      BY <1>1, <1>3, <3>1, SentTyped
  <2>4. QED
    BY <2>1, <2>2, <2>3
<1> HIDE DEF m, k
<1>5. SenderOK(u)
  <2>1. k.largest_sent = t.seq
    BY <1>1, <1>2 DEF Sent
  <2>2. u.seq \in 1 .. MaxSeq+1 /\ k.largest_sent = u.seq - 1
    BY <1>1, <2>1, SenderAssumption
  <2>3. QED
    BY <1>1, <1>2, <1>4, <2>2 DEF SenderOK, k
<1>6. /\ k.least_unacked \in Nat /\ m.least_unacked \in Nat
      /\ Tracked(k) = k.least_unacked .. t.seq /\ k.least_unacked <= t.seq
      /\ Tracked(m) = m.least_unacked .. t.seq - 1
      /\ k.least_unacked >= m.least_unacked
  BY <1>1, <1>2, TrackedInterval DEF Sent, ManagerOK
<1>7. \A p \in s.seq .. t.seq - 1 : p \in Tracked(m) /\ m.infos[p].in_flight
  BY DEF Extends, m
<1>8. ASSUME NEW p \in s.seq .. u.seq - 1
      PROVE  p \in Tracked(k) /\ k.infos[p].in_flight
  <2>1. CASE p = t.seq
    BY <1>1, <1>2, <1>6, <2>1 DEF Sent
  <2>2. CASE p # t.seq
    <3>1. p \in s.seq .. t.seq - 1
      BY <1>1, <2>2
    <3>2. p \in Tracked(k)
      BY <1>2, <1>7, <3>1 DEF Sent
    <3>3. QED
      BY <1>1, <1>2, <1>7, <2>2, <3>1, <3>2 DEF Sent
  <2>3. QED
    BY <2>1, <2>2
<1>9. ASSUME NEW p \in Tracked(k), p < s.seq
      PROVE  CarriedAt(k, c, p)
  <2>1. p # t.seq
    BY <1>1, <1>9
  <2>2. /\ p \in Tracked(m)
        /\ k.infos[p].frames = IF p = old THEN {} ELSE m.infos[p].frames
        /\ Link(k, p) = IF p = old THEN t.seq ELSE Link(m, p)
    BY <1>1, <1>2, <2>1 DEF Sent, Link
  <2>3. /\ m.infos[p].frames \subseteq c[p]
        /\ Link(m, p) # 0 => m.infos[Link(m, p)].frames \subseteq c[p]
    BY <1>9, <2>2 DEF Extends, CarriedAt, m
  <2>4. CASE p = old
    <3>1. old # 0
      BY <1>1, <2>2, <2>4, TrackedInterval
    <3>2. k.infos[t.seq].frames = m.infos[old].frames
      BY <1>1, <1>2, <3>1 DEF Sent
    <3>3. QED
      BY <2>2, <2>3, <2>4, <3>2 DEF CarriedAt
  <2>5. CASE p # old
    <3>1. CASE Link(m, p) # 0
      <4>1. Link(m, p) \in p+1 .. m.largest_sent
        BY <1>1, <2>2, <3>1 DEF ManagerOK, LinksOK
      <4>2. Link(m, p) \in Tracked(k) /\ Link(m, p) # t.seq
        <5>1. m.largest_sent \in Nat /\ p \in Nat /\ k.least_unacked <= p
          BY <1>1, <1>6 DEF WellFormed
        <5>2. QED
          BY <1>1, <1>6, <4>1, <5>1
      <4>3. k.infos[Link(m, p)].frames \subseteq m.infos[Link(m, p)].frames
        BY <1>1, <1>2, <4>2 DEF Sent
      <4>4. QED
        BY <2>2, <2>3, <2>5, <3>1, <4>3 DEF CarriedAt
    <3>2. CASE Link(m, p) = 0
      BY <2>2, <2>3, <2>5, <3>2 DEF CarriedAt
    <3>3. QED
      BY <3>1, <3>2
  <2>6. QED
    BY <2>4, <2>5
<1>10. DataOf(k) = DataOf(s.manager) \cup new
  BY <1>4 DEF Extends, m
<1>11. u.seq >= s.seq /\ k.least_unacked >= s.manager.least_unacked
  <2>1. m.least_unacked >= s.manager.least_unacked
    BY DEF Extends, m
  <2>2. QED
    BY <1>1, <1>6, <2>1
<1>12. QED
  BY <1>5, <1>6, <1>8, <1>9, <1>10, <1>11 DEF Extends, m, k

\* One turn of the loop of SendRetransmission, and n turns from s on.
Turn(t) == IF CanSend(t) /\ t.manager.pending # {} THEN OnRetransPacket(t) ELSE t

Turns(s, n, f) == [i \in 0..n |-> IF i = 0 THEN s ELSE Turn(f[i-1])]

(***************************************************************************)
(* The loop of SendRetransmission has a state after each of its turns.     *)
(***************************************************************************)
LEMMA LoopStates ==
  ASSUME NEW s, NEW n \in Nat
  PROVE  \E f : f = Turns(s, n, f)
<1> DEFINE Bad == {k \in Nat : ~\E f : f = Turns(s, k, f)}
<1> SUFFICES ASSUME Bad # {} PROVE FALSE
  OBVIOUS
<1>1. PICK k \in Bad : \A j \in Bad : k <= j
  <2>1. Bad \in SUBSET Nat
    OBVIOUS
  <2>2. QED
    BY <2>1, MinOfNat
<1>2. k \in Nat /\ ~\E f : f = Turns(s, k, f)
  OBVIOUS
<1>3. CASE k = 0
  <2> DEFINE g == [i \in 0..0 |-> s]
  <2>1. g = Turns(s, 0, g)
    BY DEF Turns
  <2>2. QED
    BY <1>2, <1>3, <2>1
<1>4. CASE k # 0
  <2>1. k - 1 \in Nat /\ k - 1 \notin Bad
    BY <1>1, <1>2, <1>4
  <2>2. PICK f : f = Turns(s, k - 1, f)
    BY <2>1
  <2> DEFINE g == [i \in 0..k |-> IF i = k THEN Turn(f[k-1]) ELSE f[i]]
  <2>3. ASSUME NEW i \in 0..k PROVE g[i] = IF i = 0 THEN s ELSE Turn(g[i-1])
    <3>1. CASE i = k
      <4>1. g[i] = Turn(f[k-1]) /\ g[i-1] = f[k-1]
        BY <1>2, <1>4, <3>1
      <4>2. QED
        BY <1>4, <3>1, <4>1
    <3>2. CASE i # k
      <4>1. i \in 0..k-1 /\ g[i] = f[i]
        BY <1>2, <3>2
      <4>2. f[i] = IF i = 0 THEN s ELSE Turn(f[i-1])
        BY <2>2, <4>1 DEF Turns
      <4>3. CASE i # 0
        <5>1. g[i-1] = f[i-1]
          BY <1>2, <3>2, <4>1, <4>3
        <5>2. QED
          BY <4>1, <4>2, <5>1
      <4>4. QED
        BY <4>1, <4>2, <4>3
    <3>3. QED
      BY <3>1, <3>2
  <2>4. g = [i \in 0..k |-> g[i]]
    OBVIOUS
  <2> HIDE DEF g
  <2>5. g = Turns(s, k, g)
    BY <2>3, <2>4 DEF Turns
  <2>6. QED
    BY <1>2, <2>5
<1>5. QED
  BY <1>3, <1>4

(***************************************************************************)
(* SendRetransmission repairs losses and gives up no data.                 *)
(***************************************************************************)
LEMMA LoopExtends ==
  ASSUME NEW s, SenderOK(s), NEW c, \A p \in Tracked(s.manager) : CarriedAt(s.manager, c, p)
  PROVE  Extends(s, SendRetransmission(s), c, {})
<1> DEFINE turns == Cardinality(s.manager.pending)
           after == CHOOSE f : f = Turns(s, turns, f)
<1>1. /\ ManagerOK(s.manager) /\ WellFormed(s.manager) /\ s.seq \in Nat \ {0}
      /\ s.manager.least_unacked \in Nat
  BY SenderAssumption DEF SenderOK, ManagerOK, WellFormed
<1>2. turns \in Nat
  <2>1. s.manager.pending \in SUBSET Tracked(s.manager)
    BY <1>1 DEF ManagerOK, PendingOK
  <2>2. IsFiniteSet(s.manager.pending)
    BY <1>1, <2>1, TrackedInterval, FS_Subset
  <2>3. QED
    BY <2>2, FS_CardinalityType
<1>3. SendRetransmission(s) = after[turns]
  BY DEF SendRetransmission, Turns, Turn
<1> HIDE DEF turns
<1>4. after = Turns(s, turns, after)
  BY <1>2, LoopStates
<1> HIDE DEF after
<1>5. \A i \in 0..turns : after[i] = IF i = 0 THEN s ELSE Turn(after[i-1])
  BY <1>4 DEF Turns
<1>6. Extends(s, s, c, {})
  BY <1>1 DEF Extends
<1>7. ASSUME NEW t, Extends(s, t, c, {}) PROVE Extends(s, Turn(t), c, {})
  <2>1. CASE ~(CanSend(t) /\ t.manager.pending # {})
    BY <1>7, <2>1 DEF Turn
  <2>2. CASE CanSend(t) /\ t.manager.pending # {}
    <3> DEFINE old == Min(t.manager.pending)
               k   == OnPacketSent(t.manager, t.seq, old, {})
               u   == OnRetransPacket(t)
    <3>1. SenderOK(t) /\ ManagerOK(t.manager) /\ t.stop_waiting_count \in Nat
      BY <1>7 DEF Extends, SenderOK
    <3>2. t.manager.pending \in SUBSET Nat
      BY <3>1, TrackedInterval DEF ManagerOK, PendingOK
    <3>3. old \in t.manager.pending /\ \A q \in t.manager.pending : old <= q
      BY <2>2, <3>2, MinOfNat
    <3>4. u = [t EXCEPT !.manager = k, !.seq = t.seq + 1]
      BY DEF OnRetransPacket
    <3>5. /\ DOMAIN u = DOMAIN t /\ u.manager = k /\ u.seq = t.seq + 1
          /\ u.running = t.running /\ u.window = t.window
          /\ u.stop_waiting_count = t.stop_waiting_count
      <4> HIDE DEF k, u
      <4>1. QED
        BY <3>1, <3>4 DEF SenderOK
    <3>6. Turn(t) = u
      BY <2>2 DEF Turn
    <3> HIDE DEF old, u
    <3>7. Extends(s, u, c, {})
      BY <1>1, <1>7, <2>2, <3>1, <3>3, <3>5, SendOne
    <3>8. QED
      BY <3>6, <3>7
  <2>3. QED
    BY <2>1, <2>2
<1> DEFINE Bad == {i \in 0..turns : ~Extends(s, after[i], c, {})}
<1>8. ASSUME Bad # {} PROVE FALSE
  <2>1. Bad \in SUBSET Nat
    BY <1>2
  <2>2. PICK i \in Bad : \A j \in Bad : i <= j
    BY <1>8, <2>1, MinOfNat
  <2>3. i \in 0..turns /\ ~Extends(s, after[i], c, {})
    OBVIOUS
  <2>4. i # 0
    BY <1>5, <1>6, <2>3
  <2>5. i - 1 \in 0..turns /\ i - 1 \notin Bad
    BY <1>2, <2>2, <2>3, <2>4
  <2>6. Extends(s, after[i-1], c, {})
    BY <2>5
  <2>7. Extends(s, after[i], c, {})
    BY <1>5, <1>7, <2>3, <2>4, <2>6
  <2>8. QED
    BY <2>3, <2>7
<1>9. turns \in 0..turns
  BY <1>2
<1>10. QED
  BY <1>3, <1>8, <1>9

(***************************************************************************)
(* A heartbeat takes on at most one packet of new data, under a number it  *)
(* has not used.                                                           *)
(***************************************************************************)
LEMMA BeatExtends ==
  ASSUME NEW s, SenderOK(s), NEW c, \A p \in Tracked(s.manager) : CarriedAt(s.manager, c, p)
  PROVE  LET resent == SendRetransmission(s)
             u      == StopWaitingAndFreshData(resent)
         IN  /\ Extends(s, resent, c, {})
             /\ u.manager.least_unacked >= resent.manager.least_unacked
             /\ \/ Extends(s, u, c, {})
                \/ \E d \in s.seq .. MaxSeq : Extends(s, u, c, {d}) /\ u.seq = d + 1
<1> DEFINE resent == SendRetransmission(s)
           t      == IF SendsStopWaiting(resent) THEN [resent EXCEPT !.stop_waiting_count = 0]
                     ELSE resent
           u      == StopWaitingAndFreshData(resent)
<1>1. Extends(s, resent, c, {})
  BY LoopExtends
<1>2. s.seq \in Nat \ {0} /\ s.manager.least_unacked \in Nat
  BY SenderAssumption DEF SenderOK, ManagerOK, WellFormed
<1>3. u = IF CanSend(t) THEN SendFakePacket(t) ELSE t
  BY DEF StopWaitingAndFreshData
<1> HIDE DEF resent, u
<1>4. /\ DOMAIN t = {"running", "seq", "stop_waiting_count", "window", "manager"}
      /\ t.manager = resent.manager /\ t.seq = resent.seq /\ t.running = resent.running
      /\ t.window = resent.window /\ t.stop_waiting_count \in Nat
  BY <1>1 DEF Extends, SenderOK
<1> HIDE DEF t
<1>5. Extends(s, t, c, {})
  BY <1>1, <1>4 DEF Extends, SenderOK
<1>6. resent.manager.least_unacked \in Nat
  BY <1>1 DEF Extends, SenderOK, ManagerOK, WellFormed
<1>7. CASE ~CanSend(t)
  BY <1>1, <1>3, <1>4, <1>5, <1>6, <1>7 DEF resent, u
<1>8. CASE CanSend(t)
  <2> DEFINE k == OnPacketSent(t.manager, t.seq, 0, {t.seq})
  <2>1. u = [t EXCEPT !.manager = k, !.seq = t.seq + 1]
    BY <1>3, <1>8 DEF SendFakePacket
  <2>2. /\ DOMAIN u = DOMAIN t /\ u.manager = k /\ u.seq = t.seq + 1
        /\ u.running = t.running /\ u.window = t.window
        /\ u.stop_waiting_count = t.stop_waiting_count
    <3> HIDE DEF k
    <3>1. QED
      BY <1>4, <2>1
  <2>3. t.seq \in s.seq .. MaxSeq /\ {t.seq} \in SUBSET (1..MaxSeq)
    BY <1>2, <1>5, <1>8, SenderAssumption DEF Extends, SenderOK, CanSend
  <2>4. Extends(s, u, c, {t.seq}) /\ u.manager.least_unacked >= t.manager.least_unacked
    BY <1>2, <1>4, <1>5, <1>8, <2>2, <2>3, SendOne
  <2>5. QED
    BY <1>1, <1>4, <2>2, <2>3, <2>4 DEF resent, u
<1>9. QED
  BY <1>7, <1>8
-----------------------------------------------------------------------------
ReceiverOK ==
  /\ DOMAIN rcv = {"running", "packets", "largest_acked", "peer_least", "base_seq",
                   "since_ack", "received", "alarm"}
  /\ rcv.packets \subseteq got /\ rcv.peer_least \in Nat
  /\ rcv.largest_acked \in Nat /\ rcv.largest_acked < snd.seq
  /\ \A p \in rcv.packets : p <= rcv.largest_acked
  /\ \/ rcv.largest_acked = 0
     \/ rcv.largest_acked \in rcv.packets
     \/ rcv.largest_acked < rcv.peer_least

HistoryOK ==
  /\ DOMAIN carried = 1 .. snd.seq - 1
  /\ \A p \in 1 .. snd.seq - 1 : carried[p] \subseteq 1 .. snd.seq - 1
  /\ got \subseteq 1 .. snd.seq - 1 /\ data \subseteq 1 .. snd.seq - 1
  /\ \A p \in Tracked(manager) : CarriedAt(manager, carried, p)

NetworkOK ==
  /\ \A least \in stops : least \in Nat \ {0}
  /\ \A numbers \in BagToSet(acks) : numbers \subseteq 1 .. snd.seq - 1

IInv ==
  /\ SenderOK(snd) /\ ReceiverOK /\ HistoryOK /\ NetworkOK
  /\ ForgetsOnlySettled /\ AcksAreTrue

(***************************************************************************)
(* What the sender's packet manager and sequence number satisfy between    *)
(* two of its steps.                                                       *)
(***************************************************************************)
LEMMA SenderFacts ==
  ASSUME NEW t, SenderOK(t)
  PROVE  /\ ManagerOK(t.manager) /\ WellFormed(t.manager) /\ Typed(t.manager, 1..MaxSeq)
         /\ t.manager.largest_sent = t.seq - 1 /\ t.seq \in 1 .. MaxSeq+1 /\ t.seq \in Nat
         /\ t.window \in Windows /\ t.stop_waiting_count \in Nat
         /\ t.manager.least_unacked \in Nat \ {0} /\ t.manager.largest_sent \in Nat
         /\ t.manager.least_unacked <= t.seq
         /\ Tracked(t.manager) = t.manager.least_unacked .. t.manager.largest_sent
         /\ \A p \in Tracked(t.manager) : p \in Nat
         /\ InFlight(t.manager) \subseteq Tracked(t.manager)
<1>1. /\ ManagerOK(t.manager) /\ Typed(t.manager, 1..MaxSeq)
      /\ t.manager.largest_sent = t.seq - 1 /\ t.seq \in 1 .. MaxSeq+1
      /\ t.window \in Windows /\ t.stop_waiting_count \in Nat
  BY Zenon DEF SenderOK
<1>2. WellFormed(t.manager)
  BY <1>1, Zenon DEF ManagerOK
<1>3. /\ t.manager.least_unacked \in Nat \ {0} /\ t.manager.largest_sent \in Nat
      /\ t.manager.least_unacked <= t.manager.largest_sent + 1
      /\ Tracked(t.manager) = t.manager.least_unacked .. t.manager.largest_sent
      /\ \A p \in Tracked(t.manager) : p \in Nat
      /\ InFlight(t.manager) \subseteq Tracked(t.manager)
  BY <1>2, TrackedInterval, Zenon
<1>4. PICK l \in Nat, seq \in Nat, least \in Nat :
        l = t.manager.largest_sent /\ seq = t.seq /\ least = t.manager.least_unacked
  BY <1>1, <1>3, SenderAssumption
<1>5. l = seq - 1 /\ least <= l + 1
  BY <1>1, <1>3, <1>4, Zenon
<1>6. least <= seq
  BY ONLY <1>4, <1>5
<1>7. t.seq \in Nat /\ t.manager.least_unacked <= t.seq
  BY <1>4, <1>6, Zenon
<1>8. QED
  BY <1>1, <1>2, <1>3, <1>7, Zenon

(***************************************************************************)
(* The bag of acks: an ack that is sent is added to those in the network,  *)
(* one that arrives or is lost adds none.                                  *)
(***************************************************************************)
LEMMA AckBag ==
  ASSUME NEW B, NEW x
  PROVE  /\ BagToSet(B (+) SetToBag({x})) = BagToSet(B) \cup {x}
         /\ BagToSet(B (-) SetToBag({x})) \subseteq BagToSet(B)
BY DEF BagToSet, SetToBag, (+), (-)

(***************************************************************************)
(* The two applications before they start.                                 *)
(***************************************************************************)
LEMMA InitIInv == Init => IInv
<1> SUFFICES ASSUME Init PROVE IInv
  OBVIOUS
<1>1. PICK w \in Windows : snd = SenderInit(w)
  BY DEF Init
<1>2. /\ DOMAIN snd = {"running", "seq", "stop_waiting_count", "window", "manager"}
      /\ snd.seq = 1 /\ snd.stop_waiting_count = 0 /\ snd.window = w
      /\ snd.manager = ManagerInit
  BY <1>1 DEF SenderInit
<1>3. ManagerInit.largest_sent = 0 /\ ManagerInit.least_unacked = 1 /\ Tracked(ManagerInit) = {}
  BY DEF ManagerInit, Tracked
<1>4. SenderOK(snd)
  <2>1. Typed(ManagerInit, 1..MaxSeq)
    BY <1>3 DEF Typed, ManagerInit
  <2>2. QED
    BY <1>2, <1>3, <2>1, InitManagerOK, SenderAssumption DEF SenderOK
<1>5. ReceiverOK
  BY <1>2 DEF ReceiverOK, Init, ReceiverInit
<1>6. HistoryOK
  BY <1>2, <1>3 DEF HistoryOK, Init, manager
<1>7. BagToSet(acks) = {}
  BY DEF Init, EmptyBag, BagToSet, SetToBag
<1>8. NetworkOK /\ AcksAreTrue
  BY <1>7 DEF NetworkOK, AcksAreTrue, Init
<1>9. ForgetsOnlySettled
  BY <1>2, <1>3 DEF ForgetsOnlySettled, Init, ReceiverInit, manager
<1>10. QED
  BY <1>4, <1>5, <1>6, <1>8, <1>9 DEF IInv

(***************************************************************************)
(* The acks in the network stay true and the receiver forgets nothing that *)
(* matters when the sender sends more and tracks less.                     *)
(***************************************************************************)
LEMMA SenderStep ==
  ASSUME IInv, SenderOK(snd'), snd'.seq >= snd.seq,
         snd'.manager.least_unacked >= snd.manager.least_unacked,
         rcv' = rcv, got' = got, BagToSet(acks)' \subseteq BagToSet(acks),
         \A least \in stops' : \/ least \in stops
                               \/ least \in Nat \ {0} /\ least <= snd'.manager.least_unacked
  PROVE  ReceiverOK' /\ NetworkOK' /\ ForgetsOnlySettled' /\ AcksAreTrue'
<1>1. /\ snd.seq \in Nat /\ snd'.seq \in Nat
      /\ snd.manager.least_unacked \in Nat /\ snd'.manager.least_unacked \in Nat
      /\ Tracked(snd.manager) = snd.manager.least_unacked .. snd.seq - 1
      /\ Tracked(snd'.manager) = snd'.manager.least_unacked .. snd'.seq - 1
      /\ snd.manager.largest_sent \in Nat /\ snd'.manager.largest_sent \in Nat
  <2>1. SenderOK(snd)
    BY DEF IInv
  <2>2. /\ WellFormed(snd.manager) /\ snd.manager.largest_sent = snd.seq - 1
        /\ snd.seq \in 1 .. MaxSeq+1
    BY <2>1 DEF SenderOK, ManagerOK
  <2>3. /\ WellFormed(snd'.manager) /\ snd'.manager.largest_sent = snd'.seq - 1
        /\ snd'.seq \in 1 .. MaxSeq+1
    BY DEF SenderOK, ManagerOK
  <2>4. /\ snd.manager.least_unacked \in Nat \ {0} /\ snd.manager.largest_sent \in Nat
        /\ Tracked(snd.manager) = snd.manager.least_unacked .. snd.manager.largest_sent
    BY <2>2, TrackedInterval, Zenon
  <2>5. /\ snd'.manager.least_unacked \in Nat \ {0} /\ snd'.manager.largest_sent \in Nat
        /\ Tracked(snd'.manager) = snd'.manager.least_unacked .. snd'.manager.largest_sent
    BY <2>3, TrackedInterval, Zenon
  <2>6. snd.seq \in Nat /\ snd'.seq \in Nat
    BY <2>2, <2>3, SenderAssumption
  <2>7. QED
    BY <2>2, <2>3, <2>4, <2>5, <2>6
<1>2. ReceiverOK'
  BY <1>1 DEF IInv, ReceiverOK
<1>3. NetworkOK'
  <2>1. ASSUME NEW numbers \in BagToSet(acks)' PROVE numbers \subseteq 1 .. snd'.seq - 1
    <3>1. numbers \subseteq 1 .. snd.seq - 1
      BY DEF IInv, NetworkOK
    <3>2. QED
      BY <1>1, <3>1
  <2>2. QED
    BY <2>1 DEF IInv, NetworkOK
<1>4. ForgetsOnlySettled'
  <2>1. rcv.peer_least \in Nat /\ rcv.peer_least <= snd.manager.least_unacked
        /\ \A least \in stops : least \in Nat /\ least <= snd.manager.least_unacked
    BY DEF IInv, ReceiverOK, NetworkOK, ForgetsOnlySettled, manager
  <2>2. QED
    BY <1>1, <2>1 DEF ForgetsOnlySettled, manager
<1>5. AcksAreTrue'
  <2> SUFFICES ASSUME NEW numbers \in BagToSet(acks)', NEW p \in numbers,
                      p \in Tracked(snd'.manager)
               PROVE  p \in got
    BY DEF AcksAreTrue, manager
  <2>1. numbers \subseteq 1 .. snd.seq - 1 /\ numbers \cap Tracked(snd.manager) \subseteq got
    BY DEF IInv, NetworkOK, AcksAreTrue, manager
  <2>2. p \in Tracked(snd.manager)
    BY <1>1, <2>1
  <2>3. QED
    BY <2>1, <2>2
<1>6. QED
  BY <1>2, <1>3, <1>4, <1>5

(***************************************************************************)
(* The same for a step that sends nothing.                                 *)
(***************************************************************************)
LEMMA SenderSettles ==
  ASSUME IInv, SenderOK(snd'), snd'.seq = snd.seq,
         \/ snd'.manager = snd.manager
         \/ snd'.manager.least_unacked >= snd.manager.least_unacked,
         rcv' = rcv, got' = got, BagToSet(acks)' \subseteq BagToSet(acks),
         stops' \subseteq stops
  PROVE  ReceiverOK' /\ NetworkOK' /\ ForgetsOnlySettled' /\ AcksAreTrue'
<1>1. SenderOK(snd)
  BY Zenon DEF IInv
<1>2. snd.seq \in Nat /\ snd.manager.least_unacked \in Nat \ {0}
  BY <1>1, SenderFacts, Zenon
<1>3. PICK seq \in Nat, least \in Nat : seq = snd.seq /\ least = snd.manager.least_unacked
  BY <1>2
<1>4. seq >= seq /\ least >= least
  BY ONLY <1>3
<1>5. snd'.seq >= snd.seq
  BY <1>3, <1>4, Zenon
<1>6. snd'.manager.least_unacked >= snd.manager.least_unacked
  BY <1>3, <1>4, Zenon
<1>7. QED
  BY <1>5, <1>6, SenderStep, Zenon

Arrived == UNION {carried[p] : p \in got}

(***************************************************************************)
(* The data kept was sent.                                                 *)
(***************************************************************************)
LEMMA KeptAccepted ==
  ASSUME IInv
  PROVE  /\ Kept \subseteq Accepted /\ Accepted \subseteq 1 .. snd.seq - 1
         /\ Kept = DataOf(snd.manager)
<1>1. Kept = DataOf(snd.manager)
  BY DEF Kept, DataOf, manager
<1>2. Tracked(snd.manager) \subseteq 1 .. snd.seq - 1
  <2>1. Tracked(snd.manager) = snd.manager.least_unacked .. snd.seq - 1
        /\ snd.manager.least_unacked \in Nat \ {0} /\ snd.seq \in Nat
    BY TrackedInterval, SenderAssumption DEF IInv, SenderOK, ManagerOK
  <2>2. QED
    BY <2>1
<1>3. ASSUME NEW p \in Tracked(snd.manager)
      PROVE  snd.manager.infos[p].frames \subseteq carried[p] /\ p \in DOMAIN carried
  BY <1>2 DEF IInv, HistoryOK, CarriedAt, manager
<1>4. Kept \subseteq Accepted
  BY <1>1, <1>3 DEF DataOf, Accepted
<1>5. Accepted \subseteq 1 .. snd.seq - 1
  BY DEF IInv, HistoryOK, Accepted
<1>6. QED
  BY <1>1, <1>4, <1>5

(***************************************************************************)
(* The heartbeat of the sender keeps the invariant, and takes on one piece *)
(* of new data or none.                                                    *)
(***************************************************************************)
LEMMA SenderBeatStep ==
  ASSUME IInv, SenderBeat
  PROVE  /\ IInv' /\ Arrived' = Arrived
         /\ \/ Accepted' = Accepted /\ Kept' = Kept
            \/ \E d \in (1..MaxSeq) \ Accepted :
                 Accepted' = Accepted \cup {d} /\ Kept' = Kept \cup {d}
<1> DEFINE resent == SendRetransmission(snd)
           u      == StopWaitingAndFreshData(resent)
           sent   == snd.seq .. snd'.seq - 1
           Result(new) ==
             /\ IInv' /\ Arrived' = Arrived
             /\ Accepted' = Accepted \cup new /\ Kept' = Kept \cup new
<1>1. /\ SenderOK(snd) /\ HistoryOK /\ snd.seq \in Nat \ {0}
      /\ \A p \in Tracked(snd.manager) : CarriedAt(snd.manager, carried, p)
      /\ \A p \in 1 .. snd.seq - 1 : carried[p] \subseteq 1 .. snd.seq - 1
      /\ got \subseteq 1 .. snd.seq - 1 /\ data \subseteq 1 .. snd.seq - 1
      /\ DOMAIN carried = 1 .. snd.seq - 1
  BY SenderAssumption DEF IInv, HistoryOK, SenderOK, manager
<1>2. /\ snd' = u /\ data' = data \cup sent
      /\ stops' = IF SendsStopWaiting(resent)
                    THEN stops \cup {StopWaitingNumber(resent)} ELSE stops
      /\ carried' = [p \in 1 .. snd'.seq - 1 |->
                       IF p \in sent THEN snd'.manager.infos[p].frames ELSE carried[p]]
      /\ rcv' = rcv /\ acks' = acks /\ got' = got
  BY DEF SenderBeat
<1>3. /\ Extends(snd, resent, carried, {})
      /\ u.manager.least_unacked >= resent.manager.least_unacked
      /\ \/ Extends(snd, u, carried, {})
         \/ \E d \in snd.seq .. MaxSeq : Extends(snd, u, carried, {d}) /\ u.seq = d + 1
  BY <1>1, BeatExtends
<1> HIDE DEF resent, u
<1>4. resent.manager.least_unacked \in Nat \ {0}
  BY <1>3 DEF Extends, SenderOK, ManagerOK, WellFormed
<1>5. ASSUME NEW new, Extends(snd, snd', carried, new), new \subseteq 1 .. snd'.seq - 1
      PROVE  Result(new)
  <2>1. /\ SenderOK(snd') /\ snd'.seq >= snd.seq /\ snd'.seq \in Nat
        /\ snd'.manager.least_unacked >= snd.manager.least_unacked
        /\ ManagerOK(snd'.manager)
    <3>1. /\ SenderOK(snd') /\ snd'.seq >= snd.seq
          /\ snd'.manager.least_unacked >= snd.manager.least_unacked
      BY <1>5, Zenon DEF Extends
    <3>2. snd'.seq \in Nat /\ ManagerOK(snd'.manager)
      BY <3>1, SenderFacts, Zenon
    <3>3. QED
      BY <3>1, <3>2, Zenon
  <2>2. ReceiverOK' /\ NetworkOK' /\ ForgetsOnlySettled' /\ AcksAreTrue'
    <3>1. \A least \in stops' : \/ least \in stops
                                \/ least \in Nat \ {0} /\ least <= snd'.manager.least_unacked
      <4>1. u.manager.least_unacked \in Nat
        BY <1>2, <2>1 DEF ManagerOK, WellFormed
      <4>2. QED
        BY <1>2, <1>3, <1>4, <4>1 DEF StopWaitingNumber
    <3>2. BagToSet(acks)' \subseteq BagToSet(acks)
      BY <1>2
    <3>3. QED
      BY <1>2, <2>1, <3>1, <3>2, SenderStep
  <2>3. /\ \A p \in 1 .. snd.seq - 1 : p \in 1 .. snd'.seq - 1 /\ carried'[p] = carried[p]
        /\ \A p \in sent : p \in 1 .. snd'.seq - 1
                           /\ carried'[p] = snd'.manager.infos[p].frames
        /\ DOMAIN carried' = 1 .. snd'.seq - 1
        /\ 1 .. snd'.seq - 1 = (1 .. snd.seq - 1) \cup sent
    <3>1. 1 .. snd'.seq - 1 = (1 .. snd.seq - 1) \cup sent /\ (1 .. snd.seq - 1) \cap sent = {}
      BY <1>1, <2>1
    <3> HIDE DEF sent
    <3>2. QED
      BY <1>2, <3>1
  <2>4. \A p \in sent : p \in Tracked(snd'.manager) /\ snd'.manager.infos[p].in_flight
    BY <1>5 DEF Extends
  <2>5. Kept' = Kept \cup new /\ Kept = DataOf(snd.manager) /\ Kept' = DataOf(snd'.manager)
    <3>1. Kept' = DataOf(snd'.manager) /\ Kept = DataOf(snd.manager)
      BY DEF Kept, DataOf, manager
    <3>2. QED
      BY <1>5, <3>1 DEF Extends
  <2>6. Kept \subseteq Accepted /\ Accepted \subseteq 1 .. snd.seq - 1
    BY KeptAccepted
  <2>7. \A p \in sent : carried'[p] \subseteq Kept'
    BY <2>3, <2>4, <2>5 DEF DataOf
  <2>8. ASSUME NEW p \in Tracked(snd'.manager) PROVE CarriedAt(snd'.manager, carried', p)
    <3>1. p \in 1 .. snd'.seq - 1
      <4>1. Tracked(snd'.manager) = snd'.manager.least_unacked .. snd'.seq - 1
            /\ snd'.manager.least_unacked \in Nat \ {0}
        BY <2>1, TrackedInterval DEF SenderOK, ManagerOK
      <4>2. QED
        BY <2>1, <4>1
    <3>2. CASE p \in sent
      <4>1. Link(snd'.manager, p) = 0
        BY <2>1, <2>4, <3>2 DEF ManagerOK, LinksOK
      <4>2. QED
        BY <2>3, <3>2, <4>1 DEF CarriedAt
    <3>3. CASE p \in 1 .. snd.seq - 1
      <4>1. p < snd.seq
        BY <1>1, <3>3
      <4>2. CarriedAt(snd'.manager, carried, p)
        BY <1>5, <4>1 DEF Extends
      <4>3. QED
        BY <2>3, <3>3, <4>2 DEF CarriedAt
    <3>4. QED
      BY <2>3, <3>1, <3>2, <3>3
  <2>9. Accepted' = Accepted \cup new
    <3>1. Accepted = UNION {carried[p] : p \in 1 .. snd.seq - 1}
      BY <1>1 DEF Accepted
    <3>2. Accepted' = Accepted \cup UNION {carried'[p] : p \in sent}
      <4>1. Accepted' = UNION {carried'[p] : p \in (1 .. snd.seq - 1) \cup sent}
        BY <2>3 DEF Accepted
      <4> HIDE DEF sent
      <4>2. QED
        BY <2>3, <3>1, <4>1
    <3>3. new \subseteq Accepted'
      <4> SUFFICES ASSUME NEW d \in new PROVE d \in Accepted'
        OBVIOUS
      <4>1. PICK p \in Tracked(snd'.manager) : d \in snd'.manager.infos[p].frames
        BY <2>5 DEF DataOf
      <4>2. d \in carried'[p]
        BY <2>8, <4>1 DEF CarriedAt
      <4>3. p \in DOMAIN carried'
        <5>1. Tracked(snd'.manager) = snd'.manager.least_unacked .. snd'.seq - 1
              /\ snd'.manager.least_unacked \in Nat \ {0}
          BY <2>1, TrackedInterval DEF SenderOK, ManagerOK
        <5>2. QED
          BY <2>1, <2>3, <5>1
      <4>4. QED
        BY <4>2, <4>3 DEF Accepted
    <3>4. QED
      BY <2>5, <2>6, <2>7, <3>2, <3>3
  <2>10. HistoryOK'
    <3>1. ASSUME NEW p \in 1 .. snd'.seq - 1 PROVE carried'[p] \subseteq 1 .. snd'.seq - 1
      <4>1. carried'[p] \subseteq Accepted'
        BY <2>3 DEF Accepted
      <4>2. 1 .. snd.seq - 1 \subseteq 1 .. snd'.seq - 1
        BY <2>3
      <4>3. QED
        BY <1>5, <2>6, <2>9, <4>1, <4>2
    <3>2. got' \subseteq 1 .. snd'.seq - 1 /\ data' \subseteq 1 .. snd'.seq - 1
      BY <1>1, <1>2, <2>3
    <3>3. QED
      BY <2>3, <2>8, <3>1, <3>2 DEF HistoryOK, manager
  <2>11. Arrived' = Arrived
    BY <1>1, <1>2, <2>3 DEF Arrived
  <2>12. QED
    BY <2>1, <2>2, <2>5, <2>9, <2>10, <2>11 DEF IInv
<1>6. CASE Extends(snd, u, carried, {})
  <2>1. Result({})
    BY <1>2, <1>5, <1>6
  <2>2. QED
    BY <2>1
<1>7. ASSUME NEW d \in snd.seq .. MaxSeq, Extends(snd, u, carried, {d}), u.seq = d + 1
      PROVE  Result({d}) /\ d \in (1..MaxSeq) \ Accepted
  <2>1. {d} \subseteq 1 .. snd'.seq - 1
    BY <1>1, <1>2, <1>7, SenderAssumption
  <2>2. Result({d})
    BY <1>2, <1>5, <1>7, <2>1
  <2>3. d \in 1..MaxSeq /\ d \notin 1 .. snd.seq - 1
    BY <1>1, SenderAssumption
  <2>4. QED
    BY <2>2, <2>3, KeptAccepted
<1>8. QED
  BY <1>3, <1>6, <1>7

(***************************************************************************)
(* An ack, in whatever order it comes, keeps the invariant, and the sender *)
(* gives up only data that has arrived.                                    *)
(***************************************************************************)
LEMMA ReceiveAckStep ==
  ASSUME IInv, NEW numbers \in BagToSet(acks), NEW old \in Nat, NEW window \in Windows,
         ReceiveAck(numbers, old, window)
  PROVE  /\ IInv' /\ Arrived' = Arrived /\ Accepted' = Accepted
         /\ Kept' \subseteq Kept /\ Kept \ Kept' \subseteq Arrived
<1> DEFINE m == snd.manager
           k == OnAckFrame(m, numbers, old)
<1>1. /\ SenderOK(snd) /\ HistoryOK /\ ManagerOK(m) /\ WellFormed(m)
      /\ m.largest_sent = snd.seq - 1 /\ snd.seq \in Nat
      /\ numbers \in SUBSET (1 .. m.largest_sent)
      /\ numbers \cap Tracked(m) \subseteq got
  <2>1. SenderOK(snd) /\ HistoryOK /\ NetworkOK /\ AcksAreTrue
    BY Zenon DEF IInv
  <2>2. ManagerOK(m) /\ WellFormed(m) /\ m.largest_sent = snd.seq - 1 /\ snd.seq \in Nat
    BY <2>1, SenderFacts, Zenon
  <2>3. numbers \subseteq 1 .. snd.seq - 1
    BY <2>1, Zenon DEF NetworkOK
  <2>4. numbers \cap Tracked(m) \subseteq got
    BY <2>1, Zenon DEF AcksAreTrue, manager
  <2>5. QED
    BY <2>1, <2>2, <2>3, <2>4, Zenon
<1>2. /\ snd' = OnIncomingAck(snd, numbers, old, window)
      /\ rcv' = rcv /\ data' = data /\ stops' = stops /\ carried' = carried /\ got' = got
      /\ BagToSet(acks)' \subseteq BagToSet(acks)
  BY AckBag DEF ReceiveAck
<1>3. Arrived' = Arrived /\ Accepted' = Accepted
  BY <1>2 DEF Arrived, Accepted
<1>4. CASE numbers = {}
  <2>1. snd' = snd
    BY <1>2, <1>4 DEF OnIncomingAck
  <2>2. SenderOK(snd') /\ m.least_unacked \in Nat
    BY <1>1, <2>1 DEF WellFormed
  <2>3. ReceiverOK' /\ NetworkOK' /\ ForgetsOnlySettled' /\ AcksAreTrue'
    <3>1. snd'.seq = snd.seq /\ snd'.manager = snd.manager
      BY <2>1
    <3>2. QED
      BY <1>1, <1>2, <2>2, <3>1, SenderSettles, Zenon
  <2>4. HistoryOK' /\ Kept' = Kept
    BY <1>1, <1>2, <2>1 DEF HistoryOK, Kept, manager
  <2>5. QED
    BY <1>3, <2>2, <2>3, <2>4 DEF IInv
<1>5. CASE numbers # {}
  <2>1. ManagerOK(k) /\ Typed(k, 1..MaxSeq)
    BY <1>1, <1>5, AckKeepsManager, AckTyped DEF SenderOK
  <2>2. /\ k.least_unacked >= m.least_unacked /\ k.largest_sent = m.largest_sent
        /\ \A p \in Tracked(k) :
             /\ p \in Tracked(m) /\ k.infos[p].frames \subseteq m.infos[p].frames
             /\ k.infos[p].retransmission \in {0, m.infos[p].retransmission}
        /\ \A d \in DataOf(m) \ DataOf(k) :
             \E p \in NewlyAcked(m, numbers) : d \in m.infos[Newest(m.infos)[p]].frames
    <3>1. WellFormed(m)
      BY <1>1, Zenon
    <3>2. GivesUpAcked(m, k, numbers)
      BY <3>1, AckGivesUpOnlyAcked, Zenon
    <3> HIDE DEF m, k
    <3>3. QED
      BY <3>2, Zenon DEF GivesUpAcked
  <2> HIDE DEF k
  <2>3. /\ DOMAIN snd' = DOMAIN snd /\ snd'.manager = k /\ snd'.seq = snd.seq
        /\ snd'.window \in Windows /\ snd'.stop_waiting_count \in Nat
    <3> DEFINE event == \/ NewlyAcked(snd.manager, numbers) # {}
                        \/ k.largest_lost > snd.manager.largest_lost
               wnd   == IF event THEN window ELSE snd.window
               count == IF k.least_unacked > Min(numbers) THEN snd.stop_waiting_count + 1 ELSE 0
    <3>1. snd' = [snd EXCEPT !.manager = k, !.window = wnd, !.stop_waiting_count = count]
      BY <1>2, <1>5 DEF OnIncomingAck, k
    <3>2. wnd \in Windows /\ count \in Nat
      BY <1>1 DEF SenderOK
    <3> HIDE DEF wnd, count
    <3>3. QED
      BY <1>1, <3>1, <3>2 DEF SenderOK
  <2>4. SenderOK(snd')
    BY <1>1, <2>1, <2>2, <2>3 DEF SenderOK
  <2>5. ReceiverOK' /\ NetworkOK' /\ ForgetsOnlySettled' /\ AcksAreTrue'
    <3>1. snd'.seq = snd.seq /\ snd'.manager.least_unacked >= snd.manager.least_unacked
      BY <2>2, <2>3, Zenon
    <3>2. stops' \subseteq stops
      BY <1>2
    <3>3. QED
      BY <1>2, <2>4, <3>1, <3>2, SenderSettles, Zenon
  <2>6. \A p \in Tracked(m) : CarriedAt(m, carried, p)
    BY <1>1 DEF HistoryOK, manager
  <2>7. ASSUME NEW p \in Tracked(k) PROVE CarriedAt(k, carried, p)
    <3>1. CASE Link(k, p) # 0
      <4>1. Link(k, p) = Link(m, p) /\ Link(k, p) \in p+1 .. k.largest_sent
        BY <2>1, <2>2, <3>1 DEF Link, ManagerOK, LinksOK
      <4>2. Link(k, p) \in Tracked(k)
        <5>1. Tracked(k) = k.least_unacked .. k.largest_sent /\ k.least_unacked \in Nat
              /\ k.largest_sent \in Nat
          BY <2>1, TrackedInterval DEF ManagerOK
        <5>2. PICK next, l, h : next = Link(k, p) /\ l = k.least_unacked /\ h = k.largest_sent
          BY Zenon
        <5>3. p \in l .. h /\ next \in p+1 .. h /\ l \in Nat /\ h \in Nat
          BY <4>1, <5>1, <5>2, Zenon
        <5>4. next \in l .. h
          BY ONLY <5>3
        <5>5. QED
          BY <5>1, <5>2, <5>4, Zenon
      <4>3. k.infos[Link(k, p)].frames \subseteq m.infos[Link(m, p)].frames
        BY <2>2, <4>1, <4>2
      <4>4. QED
        BY <2>2, <2>6, <3>1, <4>1, <4>3 DEF CarriedAt
    <3>2. CASE Link(k, p) = 0
      BY <2>2, <2>6, <3>2 DEF CarriedAt
    <3>3. QED
      BY <3>1, <3>2
  <2>8. HistoryOK'
    BY <1>1, <1>2, <2>3, <2>7 DEF HistoryOK, manager
  <2>9. Kept = DataOf(m) /\ Kept' = DataOf(k)
    BY <2>3 DEF Kept, DataOf, manager
  <2>10. Kept' \subseteq Kept
    <3>1. \A p \in Tracked(k) : p \in Tracked(m) /\ k.infos[p].frames \subseteq m.infos[p].frames
      BY <2>2, Zenon
    <3>2. ASSUME NEW d \in DataOf(k) PROVE d \in DataOf(m)
      <4>1. PICK p \in Tracked(k) : d \in k.infos[p].frames
        BY Zenon DEF DataOf
      <4>2. p \in Tracked(m) /\ d \in m.infos[p].frames
        BY <3>1, <4>1, Zenon
      <4>3. QED
        BY <4>2, Zenon DEF DataOf
    <3>3. QED
      BY <2>9, <3>2, Zenon
  <2>11. ASSUME NEW d \in Kept \ Kept' PROVE d \in Arrived
    <3>1. PICK p \in NewlyAcked(m, numbers) : d \in m.infos[Newest(m.infos)[p]].frames
      BY <2>2, <2>9
    <3>2. p \in numbers /\ p \in Tracked(m) /\ p \in got
      <4>1. p \in numbers /\ p >= m.least_unacked
        BY DEF NewlyAcked
      <4>2. p \in Tracked(m)
        BY <1>1, <4>1, TrackedInterval
      <4>3. QED
        BY <1>1, <4>1, <4>2
    <3>3. Newest(m.infos)[p] = IF Link(m, p) = 0 THEN p ELSE Link(m, p)
      BY <1>1, <3>2, NewestIsNext DEF ManagerOK
    <3>4. d \in carried[p]
      BY <2>6, <3>1, <3>2, <3>3 DEF CarriedAt
    <3>5. QED
      BY <3>2, <3>4 DEF Arrived
  <2>12. QED
    BY <1>3, <2>4, <2>5, <2>8, <2>10, <2>11 DEF IInv
<1>6. QED
  BY <1>4, <1>5

(***************************************************************************)
(* What the receiver writes into an ack frame is true of the packets the   *)
(* sender tracks, also when the numbers are read too high: then they are   *)
(* all below what the sender has told the receiver to forget.              *)
(***************************************************************************)
LEMMA AckedNumbersTrue ==
  ASSUME SenderOK(snd), NEW r, NEW g,
         g \subseteq 1 .. snd.seq - 1, r.packets \subseteq g, r.peer_least \in Nat,
         r.peer_least <= snd.manager.least_unacked,
         r.largest_acked \in Nat, r.largest_acked < snd.seq,
         \A p \in r.packets : p <= r.largest_acked,
         \/ r.largest_acked = 0
         \/ r.largest_acked \in r.packets
         \/ r.largest_acked < r.peer_least
  PROVE  /\ AckedNumbers(r) \subseteq 1 .. snd.seq - 1
         /\ AckedNumbers(r) \cap Tracked(snd.manager) \subseteq g
<1>1. snd.seq \in Nat \ {0} /\ \A p \in r.packets : p \in Nat \ {0} /\ p <= snd.seq
  <2>1. snd.seq \in Nat \ {0}
    BY SenderAssumption DEF SenderOK
  <2>2. \A p \in r.packets : p \in 1 .. snd.seq - 1
    OBVIOUS
  <2>3. QED
    BY <2>1, <2>2
<1>2. CASE r.packets = {}
  BY <1>2 DEF AckedNumbers
<1>3. CASE r.packets # {}
  <2> DEFINE top == Max(r.packets)
  <2>1. top \in r.packets /\ \A p \in r.packets : p <= top
    <3>1. r.packets \in SUBSET (0 .. snd.seq)
      BY <1>1
    <3>2. QED
      BY <1>1, <1>3, <3>1, MaxOfBounded
  <2>2. AckedNumbers(r) = {p + (r.largest_acked - top) : p \in r.packets}
    BY <1>3 DEF AckedNumbers
  <2> HIDE DEF top
  <2>3. top \in Nat \ {0} /\ top <= r.largest_acked
    BY <1>1, <2>1
  <2>4. ASSUME NEW p \in r.packets
        PROVE  /\ p + (r.largest_acked - top) \in 1 .. snd.seq - 1
               /\ p + (r.largest_acked - top) \in Tracked(snd.manager)
                    => p + (r.largest_acked - top) \in g
    <3>1. p \in Nat \ {0} /\ p <= top
      BY <1>1, <2>1
    <3>2. p + (r.largest_acked - top) \in 1 .. snd.seq - 1
          /\ p + (r.largest_acked - top) <= r.largest_acked
      BY <1>1, <2>3, <3>1
    <3>3. CASE r.largest_acked = top
      BY <2>3, <3>1, <3>3
    <3>4. CASE r.largest_acked # top
      <4>1. r.largest_acked < r.peer_least
        <5>1. r.largest_acked \notin r.packets
          BY <2>1, <2>3, <3>4
        <5>2. QED
          BY <2>3, <5>1
      <4>2. snd.manager.least_unacked \in Nat
            /\ Tracked(snd.manager) = snd.manager.least_unacked .. snd.manager.largest_sent
        BY TrackedInterval DEF SenderOK, ManagerOK
      <4>3. QED
        BY <3>2, <4>1, <4>2
    <3>5. QED
      BY <3>2, <3>3, <3>4
  <2>5. QED
    BY <2>2, <2>4
<1>4. QED
  BY <1>2, <1>3

(***************************************************************************)
(* A data packet in whatever order, a stop waiting frame or a heartbeat of *)
(* the receiver keeps the invariant; what it changes of the data is what   *)
(* has arrived.                                                            *)
(***************************************************************************)
LEMMA ReceiverStep ==
  ASSUME IInv, UNCHANGED <<snd, carried>>, ReceiverOK',
         got \subseteq got', got' \subseteq 1 .. snd.seq - 1,
         data' \subseteq data, stops' \subseteq stops,
         rcv'.peer_least = rcv.peer_least \/ rcv'.peer_least \in stops,
         BagToSet(acks)' \subseteq BagToSet(acks) \cup {AckedNumbers(rcv')}
  PROVE  IInv' /\ Accepted' = Accepted /\ Kept' = Kept
<1>1. snd' = snd /\ carried' = carried /\ SenderOK(snd)
  BY DEF IInv
<1>2. ForgetsOnlySettled'
  BY <1>1 DEF IInv, ForgetsOnlySettled, manager
<1>3. HistoryOK'
  BY <1>1 DEF IInv, HistoryOK, manager
<1>4. /\ AckedNumbers(rcv') \subseteq 1 .. snd.seq - 1
      /\ AckedNumbers(rcv') \cap Tracked(snd.manager) \subseteq got'
  BY <1>1, <1>2, AckedNumbersTrue DEF ReceiverOK, ForgetsOnlySettled, manager
<1>5. NetworkOK' /\ AcksAreTrue'
  BY <1>1, <1>4 DEF IInv, NetworkOK, AcksAreTrue, manager
<1>6. QED
  BY <1>1, <1>2, <1>3, <1>5 DEF IInv, Accepted, Kept, manager

(***************************************************************************)
(* NsQuicReceiver::OnIncomingData with a data packet.                      *)
(***************************************************************************)
LEMMA ReceiveDataStep ==
  ASSUME IInv, NEW p \in data, NEW beats \in Beats, ReceiveData(p, beats)
  PROVE  IInv' /\ Accepted' = Accepted /\ Kept' = Kept
<1> DEFINE c == CountPacket(rcv, p)
<1>1. /\ rcv' = MaybeSendAck(c, beats) /\ got' = got \cup {p} /\ data' = data \ {p}
      /\ acks' = (IF ShouldSend(c) THEN acks (+) SetToBag({AckedNumbers(c)}) ELSE acks)
      /\ UNCHANGED <<snd, stops, carried>>
  BY DEF ReceiveData, SendsAck
<1>2. p \in Nat \ {0} /\ p < snd.seq /\ got' \subseteq 1 .. snd.seq - 1 /\ snd.seq \in Nat
  <2>1. p \in 1 .. snd.seq - 1 /\ got \subseteq 1 .. snd.seq - 1 /\ snd.seq \in Nat
    BY SenderAssumption DEF IInv, HistoryOK, SenderOK
  <2>2. QED
    BY <1>1, <2>1
<1>3. /\ DOMAIN c = DOMAIN rcv /\ c.packets = rcv.packets \cup {p}
      /\ c.peer_least = rcv.peer_least
      /\ c.largest_acked = IF p > rcv.largest_acked THEN p ELSE rcv.largest_acked
  BY DEF CountPacket, RecordPacketReceived, IInv, ReceiverOK
<1> HIDE DEF c
<1>4. /\ DOMAIN rcv' = DOMAIN rcv /\ rcv'.packets = c.packets
      /\ rcv'.peer_least = c.peer_least /\ rcv'.largest_acked = c.largest_acked
  BY <1>1, <1>3 DEF MaybeSendAck, SendAck, IInv, ReceiverOK
<1>5. ReceiverOK'
  <2>1. /\ rcv.packets \subseteq got /\ rcv.peer_least \in Nat
        /\ rcv.largest_acked \in Nat /\ rcv.largest_acked < snd.seq
        /\ \A q \in rcv.packets : q <= rcv.largest_acked
        /\ \/ rcv.largest_acked = 0
           \/ rcv.largest_acked \in rcv.packets
           \/ rcv.largest_acked < rcv.peer_least
    BY DEF IInv, ReceiverOK
  <2>2. /\ rcv'.packets = rcv.packets \cup {p} /\ rcv'.peer_least = rcv.peer_least
        /\ rcv'.largest_acked = IF p > rcv.largest_acked THEN p ELSE rcv.largest_acked
        /\ snd' = snd
    BY <1>1, <1>3, <1>4
  <2>3. \A q \in rcv.packets : q \in Nat
    <3>1. \A q \in got : q \in Nat
      BY <1>1, <1>2
    <3>2. QED
      BY <2>1, <3>1
  <2>4. /\ rcv'.largest_acked \in Nat /\ rcv'.largest_acked < snd.seq
        /\ \A q \in rcv'.packets : q <= rcv'.largest_acked
    BY <1>2, <2>1, <2>2, <2>3
  <2>5. \/ rcv'.largest_acked = 0
        \/ rcv'.largest_acked \in rcv'.packets
        \/ rcv'.largest_acked < rcv'.peer_least
    BY <2>1, <2>2
  <2>6. QED
    BY <1>1, <1>4, <2>1, <2>2, <2>4, <2>5 DEF IInv, ReceiverOK
<1>6. AckedNumbers(rcv') = AckedNumbers(c)
  BY <1>4 DEF AckedNumbers
<1>7. BagToSet(acks)' \subseteq BagToSet(acks) \cup {AckedNumbers(rcv')}
  <2>1. BagToSet(acks (+) SetToBag({AckedNumbers(c)})) = BagToSet(acks) \cup {AckedNumbers(c)}
    BY AckBag
  <2>2. CASE ShouldSend(c)
    BY <1>1, <1>6, <2>1, <2>2
  <2>3. CASE ~ShouldSend(c)
    BY <1>1, <2>3
  <2>4. QED
    BY <2>2, <2>3
<1>8. QED
  BY <1>1, <1>2, <1>3, <1>4, <1>5, <1>7, ReceiverStep

(***************************************************************************)
(* NsQuicReceiver::OnIncomingData with a stop waiting frame.               *)
(***************************************************************************)
LEMMA ReceiveStopStep ==
  ASSUME IInv, NEW least \in stops, ReceiveStopWaiting(least)
  PROVE  IInv' /\ Accepted' = Accepted /\ Kept' = Kept
<1> DEFINE left == {p \in rcv.packets : p >= least}
<1>1. /\ rcv' = DontWaitForPacketsBefore(rcv, least) /\ stops' = stops \ {least}
      /\ UNCHANGED <<snd, data, acks, carried, got>>
  BY DEF ReceiveStopWaiting
<1>2. least \in Nat /\ rcv.peer_least \in Nat /\ got \subseteq 1 .. snd.seq - 1
  BY DEF IInv, NetworkOK, ReceiverOK, HistoryOK
<1>3. CASE ~(least > rcv.peer_least)
  <2>1. rcv' = rcv
    BY <1>1, <1>3 DEF DontWaitForPacketsBefore
  <2>2. ReceiverOK'
    BY <1>1, <2>1 DEF IInv, ReceiverOK
  <2>3. QED
    BY <1>1, <1>2, <2>1, <2>2, ReceiverStep
<1>4. CASE least > rcv.peer_least
  <2>1. rcv' = [rcv EXCEPT !.peer_least = least, !.packets = left]
    BY <1>1, <1>4 DEF DontWaitForPacketsBefore
  <2>2. /\ DOMAIN rcv' = DOMAIN rcv /\ rcv'.peer_least = least /\ rcv'.packets = left
        /\ rcv'.largest_acked = rcv.largest_acked
    <3> HIDE DEF left
    <3>1. QED
      BY <2>1 DEF IInv, ReceiverOK
  <2>3. /\ rcv.packets \subseteq got
        /\ rcv.largest_acked \in Nat /\ rcv.largest_acked < snd.seq
        /\ \A q \in rcv.packets : q <= rcv.largest_acked
        /\ \/ rcv.largest_acked = 0
           \/ rcv.largest_acked \in rcv.packets
           \/ rcv.largest_acked < rcv.peer_least
    BY DEF IInv, ReceiverOK
  <2>4. \/ rcv.largest_acked = 0
        \/ rcv.largest_acked \in left
        \/ rcv.largest_acked < least
    BY <1>2, <1>4, <2>3
  <2>5. ReceiverOK'
    BY <1>1, <1>2, <2>2, <2>3, <2>4 DEF IInv, ReceiverOK
  <2>6. QED
    BY <1>1, <1>2, <2>2, <2>5, ReceiverStep
<1>5. QED
  BY <1>3, <1>4

(***************************************************************************)
(* NsQuicReceiver::HeartBeat.                                              *)
(***************************************************************************)
LEMMA ReceiverBeatStep ==
  ASSUME IInv, ReceiverBeat
  PROVE  IInv' /\ Accepted' = Accepted /\ Kept' = Kept
<1>1. /\ rcv' = Beat(rcv) /\ UNCHANGED <<snd, data, stops, carried, got>>
      /\ acks' = (IF AlarmExpires(rcv) THEN acks (+) SetToBag({AckedNumbers(rcv)}) ELSE acks)
  BY DEF ReceiverBeat, SendsAck
<1>2. /\ DOMAIN rcv' = DOMAIN rcv /\ rcv'.packets = rcv.packets
      /\ rcv'.peer_least = rcv.peer_least /\ rcv'.largest_acked = rcv.largest_acked
  BY <1>1 DEF Beat, SendAck, IInv, ReceiverOK
<1>3. ReceiverOK'
  BY <1>1, <1>2 DEF IInv, ReceiverOK
<1>4. AckedNumbers(rcv') = AckedNumbers(rcv)
  BY <1>2 DEF AckedNumbers
<1>5. BagToSet(acks)' \subseteq BagToSet(acks) \cup {AckedNumbers(rcv')}
  <2>1. BagToSet(acks (+) SetToBag({AckedNumbers(rcv)})) = BagToSet(acks) \cup {AckedNumbers(rcv)}
    BY AckBag
  <2>2. CASE AlarmExpires(rcv)
    BY <1>1, <1>4, <2>1, <2>2
  <2>3. CASE ~AlarmExpires(rcv)
    BY <1>1, <2>3
  <2>4. QED
    BY <2>2, <2>3
<1>6. got \subseteq 1 .. snd.seq - 1
  BY DEF IInv, HistoryOK
<1>7. QED
  BY <1>1, <1>2, <1>3, <1>5, <1>6, ReceiverStep

(***************************************************************************)
(* A loss in the network and the end of the sender keep the invariant.     *)
(***************************************************************************)
LEMMA OtherSteps ==
  ASSUME IInv, Lose \/ StopSender
  PROVE  IInv' /\ Accepted' = Accepted /\ Kept' = Kept /\ Arrived' = Arrived
<1>1. SenderOK(snd)
  BY Zenon DEF IInv
<1>2. ASSUME SenderOK(snd'), snd'.seq = snd.seq, snd'.manager = snd.manager,
             rcv' = rcv, got' = got, carried' = carried, data' \subseteq data,
             stops' \subseteq stops, BagToSet(acks)' \subseteq BagToSet(acks)
      PROVE  IInv' /\ Accepted' = Accepted /\ Kept' = Kept /\ Arrived' = Arrived
  <2>1. ReceiverOK' /\ NetworkOK' /\ ForgetsOnlySettled' /\ AcksAreTrue'
    BY <1>2, SenderSettles, Zenon
  <2>2. HistoryOK'
    BY <1>2 DEF IInv, HistoryOK, manager
  <2>3. QED
    BY <1>2, <2>1, <2>2 DEF IInv, Accepted, Kept, Arrived, manager
<1>3. CASE Lose
  <2>1. /\ snd' = snd /\ rcv' = rcv /\ got' = got /\ carried' = carried
        /\ data' \subseteq data /\ stops' \subseteq stops
    BY <1>3 DEF Lose
  <2>2. BagToSet(acks)' \subseteq BagToSet(acks)
    <3>1. acks' = acks \/ \E numbers \in BagToSet(acks) : acks' = acks (-) SetToBag({numbers})
      BY <1>3 DEF Lose
    <3>2. QED
      BY <3>1, AckBag
  <2>3. QED
    BY <1>1, <1>2, <2>1, <2>2
<1>4. CASE StopSender
  <2>1. /\ snd' = [snd EXCEPT !.running = FALSE]
        /\ UNCHANGED <<rcv, data, stops, acks, carried, got>>
    BY <1>4 DEF StopSender
  <2>2. /\ DOMAIN snd' = DOMAIN snd /\ snd'.seq = snd.seq /\ snd'.manager = snd.manager
        /\ snd'.window = snd.window /\ snd'.stop_waiting_count = snd.stop_waiting_count
    BY <1>1, <2>1 DEF SenderOK
  <2>3. SenderOK(snd')
    BY <1>1, <2>2 DEF SenderOK
  <2>4. QED
    BY <1>2, <2>1, <2>2, <2>3
<1>5. QED
  BY <1>3, <1>4

(***************************************************************************)
(* The inductive invariant.                                                *)
(***************************************************************************)
LEMMA NextIInv == IInv /\ [Next]_vars => IInv'
<1> SUFFICES ASSUME IInv, [Next]_vars PROVE IInv'
  OBVIOUS
<1>1. CASE UNCHANGED vars
  BY <1>1 DEF vars, IInv, SenderOK, ReceiverOK, HistoryOK, NetworkOK, ForgetsOnlySettled,
              AcksAreTrue, manager
<1>2. CASE SenderBeat
  BY <1>2, SenderBeatStep
<1>3. CASE ReceiveSomeData
  BY <1>3, ReceiveDataStep DEF ReceiveSomeData
<1>4. CASE ReceiveSomeStop
  BY <1>4, ReceiveStopStep DEF ReceiveSomeStop
<1>5. CASE ReceiverBeat
  BY <1>5, ReceiverBeatStep
<1>6. CASE ReceiveSomeAck
  <2>1. \A old \in {0} \cup InFlight(snd.manager) : old \in Nat
    <3>1. SenderOK(snd)
      BY Zenon DEF IInv
    <3>2. /\ \A p \in Tracked(snd.manager) : p \in Nat
          /\ InFlight(snd.manager) \subseteq Tracked(snd.manager)
      BY <3>1, SenderFacts, Zenon
    <3>3. QED
      BY <3>2
  <2>2. QED
    BY <1>6, <2>1, ReceiveAckStep DEF ReceiveSomeAck
<1>7. CASE Lose \/ StopSender
  BY <1>7, OtherSteps
<1>8. QED
  BY <1>1, <1>2, <1>3, <1>4, <1>5, <1>6, <1>7 DEF Next

(***************************************************************************)
(* The transfer is safe whatever the network loses and reorders: what is   *)
(* pending can be retransmitted, no chain of transmissions is longer than  *)
(* two, an ack acks only tracked packets and each once, the loss detection *)
(* skips nothing in flight and counts what is, acks are true, and the      *)
(* receiver forgets only what the sender has given up.                     *)
(***************************************************************************)
THEOREM TransferSafe ==
  Spec => [](/\ PendingHasData /\ ChainsShort /\ AckedOnce /\ SkipIsSound
             /\ AcksAreTrue /\ ForgetsOnlySettled)
<1>1. IInv => /\ PendingHasData /\ ChainsShort /\ AckedOnce /\ SkipIsSound
              /\ AcksAreTrue /\ ForgetsOnlySettled
  <2> SUFFICES ASSUME IInv
               PROVE  /\ PendingHasData /\ ChainsShort /\ AckedOnce /\ SkipIsSound
                      /\ AcksAreTrue /\ ForgetsOnlySettled
    OBVIOUS
  <2>1. ManagerOK(manager) /\ manager.largest_sent = snd.seq - 1
    BY DEF IInv, SenderOK, manager
  <2>2. PendingHasData
    BY <2>1 DEF ManagerOK, PendingOK, PendingHasData
  <2>3. ChainsShort
    BY <2>1 DEF ManagerOK, LinksOK, ChainsShort, Link
  <2>4. AckedOnce
    <3> SUFFICES ASSUME NEW numbers \in BagToSet(acks), NEW p \in NewlyAcked(manager, numbers)
                 PROVE  p \in Tracked(manager) /\ manager.infos[p].state = "OUTSTANDING"
      BY DEF AckedOnce
    <3>1. p \in numbers /\ p >= manager.least_unacked /\ p \notin manager.acked
      BY DEF NewlyAcked
    <3>2. p \in 1 .. manager.largest_sent
      BY <2>1, <3>1 DEF IInv, NetworkOK
    <3>3. p \in Tracked(manager)
      <4>1. WellFormed(manager)
        BY <2>1, Zenon DEF ManagerOK
      <4>2. /\ manager.least_unacked \in Nat \ {0} /\ manager.largest_sent \in Nat
            /\ Tracked(manager) = manager.least_unacked .. manager.largest_sent
        BY <4>1, TrackedInterval, Zenon
      <4>3. QED
        BY ONLY <3>1, <3>2, <4>2
    <3>4. QED
      BY <2>1, <3>1, <3>3 DEF ManagerOK, FlightOK
  <2>5. SkipIsSound
    BY <2>1 DEF ManagerOK, FlightOK, CountOK, InFlight, SkipIsSound
  <2>6. QED
    BY <2>2, <2>3, <2>4, <2>5 DEF IInv
<1>2. QED
  BY InitIInv, NextIInv, <1>1, PTL DEF Spec, SafeSpec

(***************************************************************************)
(* A step of the transfer is a step of Delivery or changes nothing there:  *)
(* the heartbeat of the sender accepts, a data packet arrives, an ack      *)
(* settles.                                                                *)
(***************************************************************************)
LEMMA StepImplements ==
  ASSUME IInv, [Next]_vars
  PROVE  [Promise!Accept \/ Promise!Arrive \/ Promise!Settle]_<<Accepted, Arrived, Accepted \ Kept>>
<1> DEFINE Same == Accepted' = Accepted /\ Arrived' = Arrived /\ Kept' = Kept
<1>1. ASSUME Same
      PROVE  UNCHANGED <<Accepted, Arrived, Accepted \ Kept>>
  BY <1>1
<1>2. CASE UNCHANGED vars
  <2>1. Same
    BY <1>2 DEF vars, Accepted, Arrived, Kept, manager
  <2>2. QED
    BY <1>1, <2>1
<1>3. CASE SenderBeat
  <2>1. /\ Arrived' = Arrived
        /\ \/ Accepted' = Accepted /\ Kept' = Kept
           \/ \E d \in (1..MaxSeq) \ Accepted :
                Accepted' = Accepted \cup {d} /\ Kept' = Kept \cup {d}
    BY <1>3, SenderBeatStep
  <2>2. CASE Accepted' = Accepted /\ Kept' = Kept
    BY <1>1, <2>1, <2>2
  <2>3. ASSUME NEW d \in (1..MaxSeq) \ Accepted,
               Accepted' = Accepted \cup {d}, Kept' = Kept \cup {d}
        PROVE  Promise!Accept
    <3>1. Accepted' \ Kept' = Accepted \ Kept
      BY <2>3
    <3>2. QED
      BY <2>1, <2>3, <3>1 DEF Promise!Accept, Arrived
  <2>4. QED
    BY <2>1, <2>2, <2>3
<1>4. CASE ReceiveSomeData
  <2>1. PICK p \in data, beats \in Beats : ReceiveData(p, beats)
    BY <1>4 DEF ReceiveSomeData
  <2>2. Accepted' = Accepted /\ Kept' = Kept
    BY <2>1, ReceiveDataStep
  <2>3. got' = got \cup {p} /\ carried' = carried
    BY <2>1 DEF ReceiveData
  <2>4. carried[p] \subseteq Accepted
    BY DEF IInv, HistoryOK, Accepted
  <2>5. Arrived' = Arrived \cup carried[p]
    BY <2>3 DEF Arrived
  <2>6. Promise!Arrive
    BY <2>2, <2>4, <2>5 DEF Promise!Arrive, Arrived
  <2>7. QED
    BY <2>6
<1>5. CASE ReceiveSomeStop \/ ReceiverBeat
  <2>1. Accepted' = Accepted /\ Kept' = Kept
    BY <1>5, ReceiveStopStep, ReceiverBeatStep DEF ReceiveSomeStop
  <2>2. got' = got /\ carried' = carried
    BY <1>5 DEF ReceiveSomeStop, ReceiveStopWaiting, ReceiverBeat
  <2>3. Arrived' = Arrived
    BY <2>2 DEF Arrived
  <2>4. QED
    BY <1>1, <2>1, <2>3
<1>6. CASE ReceiveSomeAck
  <2>1. \A old \in {0} \cup InFlight(snd.manager) : old \in Nat
    <3>1. SenderOK(snd)
      BY Zenon DEF IInv
    <3>2. /\ \A p \in Tracked(snd.manager) : p \in Nat
          /\ InFlight(snd.manager) \subseteq Tracked(snd.manager)
      BY <3>1, SenderFacts, Zenon
    <3>3. QED
      BY <3>2
  <2>2. /\ Arrived' = Arrived /\ Accepted' = Accepted
        /\ Kept' \subseteq Kept /\ Kept \ Kept' \subseteq Arrived
    BY <1>6, <2>1, ReceiveAckStep DEF ReceiveSomeAck
  <2>3. Kept \subseteq Accepted
    BY KeptAccepted
  <2>4. Accepted' \ Kept' = (Accepted \ Kept) \cup (Kept \ Kept')
    BY <2>2, <2>3
  <2>5. Promise!Settle
    <3>1. Kept \ Kept' \in SUBSET Arrived
      BY <2>2
    <3>2. QED
      BY <2>2, <2>4, <3>1 DEF Promise!Settle, Arrived
  <2>6. QED
    BY <2>5
<1>7. CASE Lose \/ StopSender
  BY <1>1, <1>7, OtherSteps
<1>8. QED
  BY <1>2, <1>3, <1>4, <1>5, <1>6, <1>7 DEF Next

(***************************************************************************)
(* The transfer implements Delivery: whatever is lost, reordered or        *)
(* retransmitted, the sender gives up only data that has arrived, and once *)
(* and for all.                                                            *)
(***************************************************************************)
THEOREM TransferImplementsDelivery == Spec => ImplementsDelivery
<1>1. Init => Promise!Init
  <2> SUFFICES ASSUME Init PROVE Promise!Init
    OBVIOUS
  <2>1. Accepted = {} /\ Arrived = {}
    BY DEF Init, Accepted, Arrived
  <2>2. QED
    BY <2>1 DEF Promise!Init, Arrived
<1>2. IInv /\ [Next]_vars =>
        [Promise!Accept \/ Promise!Arrive \/ Promise!Settle]_<<Accepted, Arrived, Accepted \ Kept>>
  BY StepImplements
<1>3. QED
  BY InitIInv, NextIInv, <1>1, <1>2, PTL
     DEF Spec, SafeSpec, ImplementsDelivery, Promise!Spec, Arrived

(***************************************************************************)
(* Every value the two applications and the network hold stays in its      *)
(* type: the unacked packet map has exactly an entry for each packet from  *)
(* least_unacked_ to largest_sent_packet_, pending retransmissions are     *)
(* tracked, and no ack, data packet or stop waiting frame names a packet   *)
(* beyond those sent.                                                      *)
(***************************************************************************)
THEOREM TransferTyped == Spec => []TypeOK
<1>1. IInv => TypeOK
  <2> SUFFICES ASSUME IInv PROVE TypeOK
    OBVIOUS
  <2>1. /\ ManagerOK(manager) /\ WellFormed(manager) /\ Typed(manager, 1..MaxSeq)
        /\ manager.largest_sent = snd.seq - 1
        /\ snd.seq \in 1 .. MaxSeq+1 /\ snd.window \in Windows
        /\ snd.stop_waiting_count \in Nat /\ snd.seq \in Nat
        /\ manager.least_unacked \in Nat \ {0} /\ manager.least_unacked <= snd.seq
        /\ manager.largest_sent \in Nat
    <3>1. SenderOK(snd)
      BY Zenon DEF IInv
    <3>2. QED
      BY <3>1, SenderFacts, Zenon DEF manager
  <2>2. ASSUME NEW p \in Tracked(manager)
        PROVE  manager.infos[p] \in [state: {"OUTSTANDING", "ACKED"}, in_flight: BOOLEAN,
                                     frames: SUBSET (1..MaxSeq), retransmission: 0..MaxSeq]
    <3>1. manager.infos[p] \in Infos(1..MaxSeq)
      BY <2>1 DEF Typed
    <3>2. manager.infos[p].retransmission \in 0 .. MaxSeq
      <4>1. p \in Nat /\ manager.largest_sent \in Nat /\ manager.largest_sent <= MaxSeq
        BY <2>1, TrackedInterval, SenderAssumption
      <4>2. \/ manager.infos[p].retransmission = 0
            \/ manager.infos[p].retransmission \in p+1 .. manager.largest_sent
        BY <2>1 DEF ManagerOK, LinksOK, Link
      <4>3. QED
        BY <4>1, <4>2, SenderAssumption
    <3>3. QED
      BY <3>1, <3>2 DEF Infos
  <2>3. manager.infos \in [Tracked(manager) ->
          [state: {"OUTSTANDING", "ACKED"}, in_flight: BOOLEAN,
           frames: SUBSET (1..MaxSeq), retransmission: 0..MaxSeq]]
    BY <2>1, <2>2 DEF Typed
  <2>4. /\ manager.largest_acked < snd.seq /\ manager.pending \subseteq Tracked(manager)
        /\ manager.least_unacked \in 1 .. snd.seq
    <3>1. Bounds(manager) /\ PendingOK(manager)
      BY <2>1, Zenon DEF ManagerOK
    <3>2. manager.largest_acked \in 0 .. manager.largest_sent
      BY <3>1, Zenon DEF Bounds
    <3>3. manager.pending \subseteq Tracked(manager)
      BY <3>1, Zenon DEF PendingOK
    <3>4. PICK acked, sent, seq, least :
            /\ acked = manager.largest_acked /\ sent = manager.largest_sent
            /\ seq = snd.seq /\ least = manager.least_unacked
      BY Zenon
    <3>5. /\ acked \in 0 .. sent /\ sent \in Nat /\ seq \in Nat /\ sent = seq - 1
          /\ least \in Nat \ {0} /\ least <= seq
      BY <2>1, <3>2, <3>4, Zenon
    <3>6. acked < seq /\ least \in 1 .. seq
      BY ONLY <3>5
    <3>7. QED
      BY <3>3, <3>4, <3>6, Zenon
  <2>5. ASSUME NEW least \in stops PROVE least \in 1 .. snd.seq
    <3>1. least \in Nat \ {0} /\ least <= manager.least_unacked
      BY DEF IInv, NetworkOK, ForgetsOnlySettled
    <3>2. PICK low, seq : low = manager.least_unacked /\ seq = snd.seq
      BY Zenon
    <3>3. low \in Nat \ {0} /\ low <= seq /\ seq \in Nat /\ least <= low
      BY <2>1, <3>1, <3>2, Zenon
    <3>4. least \in 1 .. seq
      BY ONLY <3>1, <3>3
    <3>5. QED
      BY <3>2, <3>4, Zenon
  <2>6. data \subseteq 1 .. snd.seq - 1
        /\ \A numbers \in BagToSet(acks) : numbers \subseteq 1 .. snd.seq - 1
    BY DEF IInv, HistoryOK, NetworkOK
  <2>7. QED
    <3>1. stops \subseteq 1 .. snd.seq
      BY <2>5, Zenon
    <3>2. QED
      BY <2>1, <2>3, <2>4, <2>6, <3>1, Zenon DEF TypeOK
<1>2. QED
  BY InitIInv, NextIInv, <1>1, PTL DEF Spec, SafeSpec
=============================================================================
