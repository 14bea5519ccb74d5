--------------------------- MODULE ClusterProofs ----------------------------
(***************************************************************************)
(* The clusters of MyBbrSender: no pointer to a released cluster is left,  *)
(* and an ack finds the cluster its packet was sent in.                    *)
(*                                                                         *)
(* The invariant is stated on the controller's record b, the number nxt of *)
(* the next packet and the last acked number ack, and each method is       *)
(* treated by a lemma that it preserves the invariant.                     *)
(***************************************************************************)
EXTENDS MyBbrSender, WellFoundedInduction, TLAPS

Cluster ==
  [id: Nat, size: Nat, prev: Nat, next: Nat, acked: BOOLEAN, spread: BOOLEAN]

\* The members of the controller, the maps being functions of any domain.
IsMembers(b) ==
  b = [mode |-> b.mode, round_trip_count |-> b.round_trip_count, heap |-> b.heap,
       connection_info |-> b.connection_info, seq_round_map |-> b.seq_round_map,
       acked_clusters |-> b.acked_clusters]

Members(b) ==
  /\ IsMembers(b)
  /\ b.mode \in {"START_UP", "PROBE_BW", "PROBE_RTT"} /\ b.round_trip_count \in Nat
  /\ b.acked_clusters \in Seq(Nat)
  /\ \A a \in DOMAIN b.heap : a \in Nat /\ b.heap[a] \in Cluster
  /\ \A id \in DOMAIN b.connection_info : id \in Nat /\ b.connection_info[id] \in Nat
  /\ \A p \in DOMAIN b.seq_round_map : p \in Nat /\ b.seq_round_map[p] \in Nat

\* There are clusters in PROBE_BW only.
Idle(b) ==
  b.mode # "PROBE_BW" =>
    /\ DOMAIN b.heap = {} /\ DOMAIN b.connection_info = {}
    /\ DOMAIN b.seq_round_map = {} /\ b.acked_clusters = <<>>

\* connection_info_ has each cluster under its number.
Owned(b) ==
  /\ \A id \in DOMAIN b.connection_info :
       b.connection_info[id] \in DOMAIN b.heap /\ b.heap[b.connection_info[id]].id = id
  /\ \A a \in DOMAIN b.heap :
       b.heap[a].id \in DOMAIN b.connection_info /\ b.connection_info[b.heap[a].id] = a

\* The packets of a cluster are consecutive, those of the current round up to
\* the last one sent, and the clusters follow each other in order of their
\* numbers.
Layout(b, nxt) ==
  /\ \A a \in DOMAIN b.heap :
       /\ a > 0 /\ b.heap[a].size > 0 /\ a + b.heap[a].size <= nxt
       /\ b.heap[a].id <= b.round_trip_count
       /\ b.heap[a].id = b.round_trip_count => a + b.heap[a].size = nxt
  /\ \A a, c \in DOMAIN b.heap :
       b.heap[a].id < b.heap[c].id => a + b.heap[a].size <= c

\* next_ leads to the cluster after this one, and prev_ back.
Linked(b) ==
  \A a \in DOMAIN b.heap :
    /\ b.heap[a].next # 0 =>
         /\ b.heap[a].next \in DOMAIN b.heap
         /\ b.heap[a].id < b.heap[b.heap[a].next].id
         /\ \A c \in DOMAIN b.heap :
              b.heap[a].id < b.heap[c].id => b.heap[b.heap[a].next].id <= b.heap[c].id
    /\ b.heap[a].prev # 0 =>
         b.heap[a].prev \in DOMAIN b.heap /\ b.heap[b.heap[a].prev].next = a

\* A cluster that was acked begins at or below the last ack.  An estimate was made
\* when the cluster after it was acked, and the estimates are in order.
Estimated(b, ack) ==
  /\ \A a \in DOMAIN b.heap : b.heap[a].acked => a <= ack
  /\ \A i \in DOMAIN b.acked_clusters :
       /\ b.acked_clusters[i] \in DOMAIN b.heap
       /\ b.heap[b.acked_clusters[i]].next # 0
       /\ b.heap[b.heap[b.acked_clusters[i]].next].acked
  /\ \A i, j \in DOMAIN b.acked_clusters :
       i < j => b.heap[b.acked_clusters[i]].id < b.heap[b.acked_clusters[j]].id

\* A packet that can still be acked is in the cluster its round leads to.
Found(b, nxt, ack) ==
  \A p \in DOMAIN b.seq_round_map :
    /\ p < nxt
    /\ p > ack =>
         LET a == b.connection_info[b.seq_round_map[p]]
         IN  /\ b.seq_round_map[p] \in DOMAIN b.connection_info
             /\ a <= p /\ p < a + b.heap[a].size

ClustersOK(b, nxt, ack) ==
  /\ nxt \in Nat \ {0} /\ ack \in Nat /\ ack < nxt
  /\ Members(b) /\ Idle(b) /\ Owned(b) /\ Layout(b, nxt) /\ Linked(b)
  /\ Estimated(b, ack) /\ Found(b, nxt, ack)

IInv ==
  ClustersOK(bbr, next_seq, last_ack_seq)
    /\ Len(bbr.acked_clusters) < AverageAckRateWindowSize
-----------------------------------------------------------------------------
(***************************************************************************)
(* A set of natural numbers that is not empty has a least element.         *)
(***************************************************************************)
LEMMA MinOfNat ==
  ASSUME NEW S \in SUBSET Nat, S # {}
  PROVE  Min(S) \in S /\ \A y \in S : Min(S) <= y
<1> DEFINE less == OpToRel(<, Nat)
<1>1. IsWellFoundedOn(less, Nat)
  BY NatLessThanWellFounded
<1>2. \A x, y \in Nat : x < y => <<x, y>> \in less
  BY DEF OpToRel
<1> HIDE DEF less
<1>3. PICK x \in S : \A y \in S : ~(<<y, x>> \in less)
  BY <1>1, WFMin
<1>4. ASSUME NEW y \in S PROVE x <= y
  <2>1. ~(y < x)
    BY <1>2, <1>3
  <2>2. QED
    BY <2>1
<1>5. QED
  BY <1>4 DEF Min

(***************************************************************************)
(* The last round of connection_info_, rbegin in the code, is the one that *)
(* Max chooses.                                                            *)
(***************************************************************************)
LEMMA MaxOfBounded ==
  ASSUME NEW n \in Nat, NEW S \in SUBSET (0..n), S # {}
  PROVE  Max(S) \in S /\ \A y \in S : y <= Max(S)
<1> DEFINE R == {n - x : x \in S}
<1>1. R \in SUBSET Nat /\ R # {}
  <2>1. \A x \in S : n - x \in Nat
    OBVIOUS
  <2>2. QED
    BY <2>1
<1>2. PICK r \in R : \A y \in R : r <= y
  BY <1>1, MinOfNat
<1>3. PICK x \in S : r = n - x
  BY <1>2
<1>4. ASSUME NEW y \in S PROVE y <= x
  <2>1. n - y \in R
    OBVIOUS
  <2>2. r <= n - y
    BY <1>2, <2>1
  <2>3. QED
    BY <1>3, <2>2
<1>5. QED
  BY <1>4 DEF Max

(***************************************************************************)
(* The members of the clusters on the heap are numbers and flags.          *)
(***************************************************************************)
LEMMA ClusterTypes ==
  ASSUME NEW b, Members(b)
  PROVE  \A a \in DOMAIN b.heap :
           /\ a \in Nat /\ b.heap[a].id \in Nat /\ b.heap[a].size \in Nat
           /\ b.heap[a].prev \in Nat /\ b.heap[a].next \in Nat
           /\ b.heap[a].acked \in BOOLEAN
BY DEF Members, Cluster

\* c differs from b in the sizes of clusters and the packets mapped.
SameLinks(b, c) ==
  /\ c.mode = b.mode /\ c.round_trip_count = b.round_trip_count
  /\ c.connection_info = b.connection_info /\ c.acked_clusters = b.acked_clusters
  /\ DOMAIN c.heap = DOMAIN b.heap
  /\ \A a \in DOMAIN b.heap :
       /\ c.heap[a].id = b.heap[a].id /\ c.heap[a].next = b.heap[a].next
       /\ c.heap[a].prev = b.heap[a].prev /\ c.heap[a].acked = b.heap[a].acked

(***************************************************************************)
(* What does not depend on sizes holds as before when a cluster grows.     *)
(***************************************************************************)
LEMMA SameLinksKeep ==
  ASSUME NEW b, NEW c, NEW ack, SameLinks(b, c), Owned(b), Linked(b), Estimated(b, ack)
  PROVE  Owned(c) /\ Linked(c) /\ Estimated(c, ack)
<1>1. Owned(c)
  BY DEF SameLinks, Owned
<1>2. Linked(c)
  <2> SUFFICES ASSUME NEW a \in DOMAIN c.heap
               PROVE  /\ c.heap[a].next # 0 =>
                           /\ c.heap[a].next \in DOMAIN c.heap
                           /\ c.heap[a].id < c.heap[c.heap[a].next].id
                           /\ \A d \in DOMAIN c.heap :
                                c.heap[a].id < c.heap[d].id
                                  => c.heap[c.heap[a].next].id <= c.heap[d].id
                      /\ c.heap[a].prev # 0 =>
                           c.heap[a].prev \in DOMAIN c.heap /\ c.heap[c.heap[a].prev].next = a
    BY DEF Linked
  <2>1. a \in DOMAIN b.heap
    BY DEF SameLinks
  <2>2. QED
    BY <2>1 DEF SameLinks, Linked
<1>3. Estimated(c, ack)
  <2>1. \A a \in DOMAIN c.heap : c.heap[a].acked => a <= ack
    BY DEF SameLinks, Estimated
  <2>2. ASSUME NEW i \in DOMAIN c.acked_clusters
        PROVE  /\ c.acked_clusters[i] \in DOMAIN c.heap
               /\ c.heap[c.acked_clusters[i]].next # 0
               /\ c.heap[c.heap[c.acked_clusters[i]].next].acked
    <3> DEFINE e == b.acked_clusters[i]
    <3>1. /\ e \in DOMAIN b.heap /\ b.heap[e].next # 0 /\ b.heap[b.heap[e].next].acked
          /\ c.acked_clusters[i] = e
      BY DEF SameLinks, Estimated
    <3>2. b.heap[e].next \in DOMAIN b.heap
      BY <3>1 DEF Linked
    <3> HIDE DEF e
    <3>3. QED
      BY <3>1, <3>2 DEF SameLinks
  <2>3. \A i, j \in DOMAIN c.acked_clusters :
          i < j => c.heap[c.acked_clusters[i]].id < c.heap[c.acked_clusters[j]].id
    BY DEF SameLinks, Estimated
  <2>4. QED
    BY <2>1, <2>2, <2>3 DEF Estimated
<1>4. QED
  BY <1>1, <1>2, <1>3

(***************************************************************************)
(* A packet of a round that has a cluster already is added to it.          *)
(***************************************************************************)
LEMMA GrowKeeps ==
  ASSUME NEW b, NEW nxt, NEW ack, ClustersOK(b, nxt, ack), b.mode = "PROBE_BW",
         b.round_trip_count \in DOMAIN b.connection_info
  PROVE  /\ ClustersOK(AddPacketInfoSampler(b, nxt), nxt + 1, ack)
         /\ AddPacketInfoSampler(b, nxt).acked_clusters = b.acked_clusters
<1> DEFINE c     == AddPacketInfoSampler(b, nxt)
           round == b.round_trip_count
           own   == b.connection_info[round]
           grown == [b.heap[own] EXCEPT !.size = @ + 1]
<1>1. c = [b EXCEPT !.seq_round_map = With(b.seq_round_map, nxt, round),
                    !.heap = With(b.heap, own, grown)]
  BY DEF AddPacketInfoSampler, ClustersOK, Members, IsMembers
<1>2. /\ nxt \in Nat \ {0} /\ ack \in Nat /\ ack < nxt
      /\ Members(b) /\ Owned(b) /\ Layout(b, nxt) /\ Linked(b) /\ Estimated(b, ack)
      /\ Found(b, nxt, ack)
  BY DEF ClustersOK
<1>3. /\ own \in DOMAIN b.heap /\ b.heap[own].id = round /\ b.heap[own] \in Cluster
      /\ own + b.heap[own].size = nxt
  BY <1>2 DEF Owned, Layout, Members
<1>4. /\ grown \in Cluster /\ grown.size = b.heap[own].size + 1
      /\ grown.id = b.heap[own].id /\ grown.next = b.heap[own].next
      /\ grown.prev = b.heap[own].prev /\ grown.acked = b.heap[own].acked
  <2>1. PICK cluster, g : cluster = b.heap[own] /\ g = [cluster EXCEPT !.size = @ + 1]
    OBVIOUS
  <2>2. cluster \in Cluster
    BY <1>3, <2>1, Zenon
  <2>3. cluster.size \in Nat /\ cluster.size + 1 \in Nat
    BY ONLY <2>2 DEF Cluster
  <2>4. g \in Cluster
    BY ONLY <2>1, <2>2, <2>3, ZenonT(30) DEF Cluster
  <2>5. /\ g.size = cluster.size + 1 /\ g.id = cluster.id
        /\ g.next = cluster.next /\ g.prev = cluster.prev /\ g.acked = cluster.acked
    BY ONLY <2>1, <2>2, SMTT(30) DEF Cluster
  <2>6. QED
    BY <2>1, <2>4, <2>5, Zenon
<1> HIDE DEF grown
<1>5. /\ c.mode = b.mode /\ c.round_trip_count = round
      /\ c.connection_info = b.connection_info /\ c.acked_clusters = b.acked_clusters
      /\ c.seq_round_map = With(b.seq_round_map, nxt, round)
      /\ c.heap = With(b.heap, own, grown)
      /\ IsMembers(c)
  BY <1>1, <1>2 DEF Members, IsMembers
<1> HIDE DEF c
<1>6. /\ DOMAIN c.heap = DOMAIN b.heap /\ c.heap[own] = grown
      /\ \A a \in DOMAIN b.heap : a # own => c.heap[a] = b.heap[a]
  BY <1>3, <1>5 DEF With
<1>7. /\ DOMAIN c.seq_round_map = DOMAIN b.seq_round_map \cup {nxt}
      /\ c.seq_round_map[nxt] = round
      /\ \A p \in DOMAIN b.seq_round_map : p # nxt => c.seq_round_map[p] = b.seq_round_map[p]
  BY <1>5 DEF With
<1>8. Members(c)
  <2>1. \A a \in DOMAIN c.heap : a \in Nat /\ c.heap[a] \in Cluster
    BY <1>2, <1>4, <1>6 DEF Members
  <2>2. \A p \in DOMAIN c.seq_round_map : p \in Nat /\ c.seq_round_map[p] \in Nat
    BY <1>2, <1>7 DEF Members
  <2>3. QED
    BY <1>2, <1>5, <2>1, <2>2 DEF Members
<1>9. SameLinks(b, c)
  BY <1>3, <1>4, <1>5, <1>6 DEF SameLinks
<1>10. Owned(c) /\ Linked(c) /\ Estimated(c, ack)
  BY <1>2, <1>9, SameLinksKeep
<1>11. /\ own \in Nat /\ round \in Nat
       /\ \A a \in DOMAIN b.heap :
            /\ a \in Nat /\ b.heap[a].id \in Nat /\ b.heap[a].size \in Nat
            /\ c.heap[a].id = b.heap[a].id
            /\ c.heap[a].size = IF a = own THEN b.heap[a].size + 1 ELSE b.heap[a].size
  <2>1. own \in Nat /\ round \in Nat
    BY <1>2, <1>3 DEF Members
  <2>2. \A a \in DOMAIN b.heap :
            a \in Nat /\ b.heap[a].id \in Nat /\ b.heap[a].size \in Nat
    BY <1>2, ClusterTypes
  <2>3. QED
    BY <1>4, <1>6, <2>1, <2>2
<1> HIDE DEF own, round
<1>12. Layout(c, nxt + 1)
  <2>1. ASSUME NEW a \in DOMAIN b.heap
        PROVE  /\ a > 0 /\ c.heap[a].size > 0 /\ a + c.heap[a].size <= nxt + 1
               /\ c.heap[a].id <= round
               /\ c.heap[a].id = round => a + c.heap[a].size = nxt + 1
    <3>1. /\ a > 0 /\ b.heap[a].size > 0 /\ a + b.heap[a].size <= nxt
          /\ b.heap[a].id <= round
      BY <1>2 DEF Layout, round
    <3>2. b.heap[a].id = round => a = own
      BY <1>2 DEF Owned, own
    <3>3. QED
      BY <1>2, <1>3, <1>11, <3>1, <3>2
  <2>2. ASSUME NEW a \in DOMAIN b.heap, NEW d \in DOMAIN b.heap,
               c.heap[a].id < c.heap[d].id
        PROVE  a + c.heap[a].size <= d
    <3>1. b.heap[a].id < b.heap[d].id /\ a + b.heap[a].size <= d /\ b.heap[d].id <= round
      BY <1>2, <1>11, <2>2 DEF Layout, round
    <3>2. a # own
      BY <1>3, <1>11, <3>1
    <3>3. QED
      BY <1>11, <3>1, <3>2
  <2>3. QED
    BY <1>5, <1>6, <2>1, <2>2 DEF Layout
<1>13. Found(c, nxt + 1, ack)
  <2> SUFFICES ASSUME NEW p \in DOMAIN c.seq_round_map
               PROVE  /\ p < nxt + 1
                      /\ p > ack =>
                           LET a == c.connection_info[c.seq_round_map[p]]
                           IN  /\ c.seq_round_map[p] \in DOMAIN c.connection_info
                               /\ a <= p /\ p < a + c.heap[a].size
    BY DEF Found
  <2>1. CASE p = nxt
    <3>1. c.connection_info[c.seq_round_map[p]] = own
          /\ c.seq_round_map[p] \in DOMAIN c.connection_info
      BY <1>5, <1>7, <2>1 DEF own, round
    <3>2. own + c.heap[own].size = nxt + 1 /\ own <= nxt
      BY <1>2, <1>3, <1>11
    <3>3. QED
      BY <1>2, <2>1, <3>1, <3>2
  <2>2. CASE p # nxt
    <3> DEFINE a == b.connection_info[b.seq_round_map[p]]
    <3>1. /\ p \in DOMAIN b.seq_round_map /\ c.seq_round_map[p] = b.seq_round_map[p]
          /\ c.connection_info[c.seq_round_map[p]] = a
      BY <1>5, <1>7, <2>2
    <3>2. p \in Nat /\ p < nxt
      BY <1>2, <3>1 DEF Found, Members
    <3>3. ASSUME p > ack
          PROVE  /\ b.seq_round_map[p] \in DOMAIN b.connection_info
                 /\ a <= p /\ p < a + b.heap[a].size /\ a \in DOMAIN b.heap
      BY <1>2, <3>1, <3>3 DEF Found, Owned
    <3> HIDE DEF a
    <3>4. ASSUME p > ack PROVE a <= p /\ p < a + c.heap[a].size
      <4>1. CASE a = own
        BY <1>3, <1>11, <3>2, <3>3, <3>4, <4>1
      <4>2. CASE a # own
        BY <1>11, <3>3, <3>4, <4>2
      <4>3. QED
        BY <4>1, <4>2
    <3>5. p < nxt + 1
      BY <1>2, <3>2
    <3>6. QED
      BY <1>5, <3>1, <3>3, <3>4, <3>5
  <2>3. QED
    BY <2>1, <2>2
<1>14. Idle(c) /\ nxt + 1 \in Nat \ {0} /\ ack < nxt + 1
  BY <1>2, <1>5 DEF Idle
<1>15. QED
  BY <1>2, <1>5, <1>8, <1>10, <1>12, <1>13, <1>14 DEF ClustersOK, c

\* c has the clusters of b, the cluster q after last, and no other change of
\* what links them.
Extended(b, c, last, q, round) ==
  /\ c.acked_clusters = b.acked_clusters
  /\ DOMAIN c.heap = DOMAIN b.heap \cup {q}
  /\ c.heap[q].id = round /\ c.heap[q].next = 0 /\ c.heap[q].prev = last
  /\ ~c.heap[q].acked /\ c.heap[q].size = 1
  /\ \A a \in DOMAIN b.heap :
       /\ c.heap[a].id = b.heap[a].id /\ c.heap[a].size = b.heap[a].size
       /\ c.heap[a].prev = b.heap[a].prev /\ c.heap[a].acked = b.heap[a].acked
       /\ c.heap[a].next = IF a = last THEN q ELSE b.heap[a].next

\* last is the last cluster of b, 0 when there is none.
IsLast(b, last) ==
  \/ last = 0 /\ DOMAIN b.heap = {}
  \/ /\ last \in DOMAIN b.heap /\ b.heap[last].next = 0
     /\ \A a \in DOMAIN b.heap : b.heap[a].id <= b.heap[last].id

(***************************************************************************)
(* The links stay in order when a cluster is added after the last.         *)
(***************************************************************************)
LEMMA ExtendedKeeps ==
  ASSUME NEW b, NEW c, NEW last, NEW q \in Nat \ {0}, NEW round \in Nat, NEW ack \in Nat,
         Members(b), Linked(b), Estimated(b, ack),
         Extended(b, c, last, q, round), IsLast(b, last), q \notin DOMAIN b.heap,
         \A a \in DOMAIN b.heap : a > 0 /\ b.heap[a].id < round
  PROVE  Linked(c) /\ Estimated(c, ack)
<1>1. \A a \in DOMAIN b.heap :
        /\ a \in Nat /\ b.heap[a].id \in Nat
        /\ b.heap[a].prev \in Nat /\ b.heap[a].next \in Nat
  BY ClusterTypes
<1>2. Linked(c)
  <2> SUFFICES ASSUME NEW a \in DOMAIN c.heap
               PROVE  /\ c.heap[a].next # 0 =>
                           /\ c.heap[a].next \in DOMAIN c.heap
                           /\ c.heap[a].id < c.heap[c.heap[a].next].id
                           /\ \A d \in DOMAIN c.heap :
                                c.heap[a].id < c.heap[d].id
                                  => c.heap[c.heap[a].next].id <= c.heap[d].id
                      /\ c.heap[a].prev # 0 =>
                           c.heap[a].prev \in DOMAIN c.heap /\ c.heap[c.heap[a].prev].next = a
    BY DEF Linked
  <2>1. CASE a = q
    BY <2>1 DEF Extended, IsLast
  <2>2. CASE a # q
    <3>1. a \in DOMAIN b.heap
      BY <2>2 DEF Extended
    <3>2. ASSUME c.heap[a].prev # 0
          PROVE  c.heap[a].prev \in DOMAIN c.heap /\ c.heap[c.heap[a].prev].next = a
      <4> DEFINE r == b.heap[a].prev
      <4>1. c.heap[a].prev = r /\ r # 0 /\ r \in DOMAIN b.heap /\ b.heap[r].next = a /\ a > 0
        BY <3>1, <3>2 DEF Extended, Linked
      <4>2. r # last
        BY <1>1, <3>1, <4>1 DEF IsLast
      <4> HIDE DEF r
      <4>3. QED
        BY <4>1, <4>2 DEF Extended
    <3>3. CASE a = last
      <4>1. c.heap[a].next = q /\ c.heap[q].id = round /\ c.heap[a].id = b.heap[a].id
        BY <3>1, <3>3 DEF Extended
      <4>2. \A d \in DOMAIN c.heap : c.heap[a].id < c.heap[d].id => d = q
        <5> SUFFICES ASSUME NEW d \in DOMAIN b.heap, b.heap[a].id < c.heap[d].id PROVE FALSE
          BY <4>1 DEF Extended
        <5>1. c.heap[d].id = b.heap[d].id /\ b.heap[d].id <= b.heap[a].id
          BY <3>1, <3>3 DEF Extended, IsLast
        <5>2. QED
          BY <1>1, <3>1, <5>1
      <4>3. q \in DOMAIN c.heap /\ b.heap[a].id < round
        BY <3>1 DEF Extended
      <4>4. QED
        BY <3>2, <4>1, <4>2, <4>3
    <3>4. CASE a # last /\ c.heap[a].next # 0
      <4> DEFINE x == b.heap[a].next
      <4>1. /\ c.heap[a].next = x /\ x \in DOMAIN b.heap /\ b.heap[a].id < b.heap[x].id
            /\ c.heap[a].id = b.heap[a].id
        BY <3>1, <3>4 DEF Extended, Linked
      <4>2. c.heap[x].id = b.heap[x].id /\ x \in DOMAIN c.heap
        BY <4>1 DEF Extended
      <4>3. ASSUME NEW d \in DOMAIN c.heap, b.heap[a].id < c.heap[d].id
            PROVE  b.heap[x].id <= c.heap[d].id
        <5>1. CASE d = q
          BY <1>1, <4>1, <5>1 DEF Extended
        <5>2. CASE d # q
          BY <3>1, <3>4, <4>3, <5>2 DEF Extended, Linked
        <5>3. QED
          BY <5>1, <5>2
      <4> HIDE DEF x
      <4>4. QED
        BY <3>2, <4>1, <4>2, <4>3
    <3>5. QED
      BY <3>2, <3>3, <3>4
  <2>3. QED
    BY <2>1, <2>2
<1>3. Estimated(c, ack)
  <2>1. \A a \in DOMAIN c.heap : c.heap[a].acked => a <= ack
    BY DEF Extended, Estimated
  <2>2. ASSUME NEW i \in DOMAIN c.acked_clusters
        PROVE  /\ c.acked_clusters[i] \in DOMAIN c.heap
               /\ c.heap[c.acked_clusters[i]].next # 0
               /\ c.heap[c.heap[c.acked_clusters[i]].next].acked
               /\ c.acked_clusters[i] \in DOMAIN b.heap
    <3> DEFINE e == b.acked_clusters[i]
               x == b.heap[e].next
    <3>1. /\ e \in DOMAIN b.heap /\ x # 0 /\ b.heap[x].acked /\ c.acked_clusters[i] = e
      BY DEF Extended, Estimated
    <3>2. x \in DOMAIN b.heap /\ e # last
      <4>1. x \in DOMAIN b.heap
        BY <3>1 DEF Linked
      <4>2. e # last
        BY <3>1 DEF IsLast
      <4>3. QED
        BY <4>1, <4>2
    <3>3. c.heap[e].next = x
      BY <3>1, <3>2 DEF Extended
    <3> HIDE DEF e, x
    <3>4. QED
      BY <3>1, <3>2, <3>3 DEF Extended
  <2>3. \A i, j \in DOMAIN c.acked_clusters :
          i < j => c.heap[c.acked_clusters[i]].id < c.heap[c.acked_clusters[j]].id
    <3> SUFFICES ASSUME NEW i \in DOMAIN c.acked_clusters, NEW j \in DOMAIN c.acked_clusters,
                        i < j
                 PROVE  c.heap[c.acked_clusters[i]].id < c.heap[c.acked_clusters[j]].id
      OBVIOUS
    <3>1. b.heap[c.acked_clusters[i]].id < b.heap[c.acked_clusters[j]].id
      BY DEF Extended, Estimated
    <3>2. QED
      BY <2>2, <3>1 DEF Extended
  <2>4. QED
    BY <2>1, <2>2, <2>3 DEF Estimated
<1>4. QED
  BY <1>2, <1>3

(***************************************************************************)
(* The cluster rbegin of connection_info_ is the last one.                 *)
(***************************************************************************)
LEMMA LastCluster ==
  ASSUME NEW b, NEW nxt, Members(b), Owned(b), Layout(b, nxt), Linked(b),
         NEW last,
         last = IF DOMAIN b.connection_info = {} THEN 0
                ELSE b.connection_info[Max(DOMAIN b.connection_info)]
  PROVE  IsLast(b, last) /\ last \in Nat
<1> DEFINE rounds == DOMAIN b.connection_info
<1>1. \A a \in DOMAIN b.heap : b.heap[a].id \in Nat /\ b.heap[a].next \in Nat
  BY ClusterTypes
<1>2. CASE rounds = {}
  BY <1>2 DEF Owned, IsLast
<1>3. CASE rounds # {}
  <2>1. rounds \in SUBSET (0..b.round_trip_count)
    <3> SUFFICES ASSUME NEW id \in rounds PROVE id \in 0..b.round_trip_count
      OBVIOUS
    <3>1. id \in Nat /\ b.connection_info[id] \in DOMAIN b.heap
          /\ b.heap[b.connection_info[id]].id = id
      BY DEF Members, Owned
    <3>2. id <= b.round_trip_count /\ b.round_trip_count \in Nat
      BY <3>1 DEF Layout, Members
    <3>3. QED
      BY <3>1, <3>2
  <2>2. b.round_trip_count \in Nat
    BY DEF Members
  <2>3. Max(rounds) \in rounds /\ \A y \in rounds : y <= Max(rounds)
    BY <1>3, <2>1, <2>2, MaxOfBounded
  <2> DEFINE top == Max(rounds)
  <2>4. last = b.connection_info[top] /\ last \in DOMAIN b.heap /\ b.heap[last].id = top
    BY <1>3, <2>3 DEF Owned
  <2> HIDE DEF rounds, top
  <2>5. \A a \in DOMAIN b.heap : b.heap[a].id <= b.heap[last].id
    BY <2>3, <2>4 DEF Owned, rounds, top
  <2>6. b.heap[last].next = 0
    <3> SUFFICES ASSUME b.heap[last].next # 0 PROVE FALSE
      OBVIOUS
    <3>1. /\ b.heap[last].next \in DOMAIN b.heap
          /\ b.heap[last].id < b.heap[b.heap[last].next].id
      BY <2>4 DEF Linked
    <3>2. b.heap[b.heap[last].next].id <= b.heap[last].id
      BY <2>5, <3>1
    <3>3. PICK i, j : i = b.heap[last].id /\ j = b.heap[b.heap[last].next].id
      OBVIOUS
    <3>4. i \in Nat /\ j \in Nat
      BY <1>1, <2>4, <3>1, <3>3
    <3>5. i < j /\ j <= i
      BY <3>1, <3>2, <3>3
    <3>6. QED
      BY ONLY <3>4, <3>5
  <2>7. last \in Nat
    BY <2>4 DEF Members
  <2>8. QED
    BY <2>4, <2>5, <2>6, <2>7 DEF IsLast
<1>4. QED
  BY <1>2, <1>3

(***************************************************************************)
(* The first packet of a round makes a cluster, linked after the last.     *)
(***************************************************************************)
LEMMA NewKeeps ==
  ASSUME NEW b, NEW nxt, NEW ack, ClustersOK(b, nxt, ack), b.mode = "PROBE_BW",
         b.round_trip_count \notin DOMAIN b.connection_info
  PROVE  /\ ClustersOK(AddPacketInfoSampler(b, nxt), nxt + 1, ack)
         /\ AddPacketInfoSampler(b, nxt).acked_clusters = b.acked_clusters
<1> DEFINE c       == AddPacketInfoSampler(b, nxt)
           round   == b.round_trip_count
           rounds  == DOMAIN b.connection_info
           last    == IF rounds = {} THEN 0 ELSE b.connection_info[Max(rounds)]
           cluster == [id |-> round, size |-> 1, prev |-> last, next |-> 0,
                       acked |-> FALSE, spread |-> FALSE]
           after   == [b.heap[last] EXCEPT !.next = nxt]
           linked  == IF last = 0 THEN b.heap ELSE With(b.heap, last, after)
<1>1. c = [b EXCEPT !.seq_round_map = With(b.seq_round_map, nxt, round),
                    !.heap = With(linked, nxt, cluster),
                    !.connection_info = With(b.connection_info, round, nxt)]
  BY DEF AddPacketInfoSampler, ClustersOK, Members, IsMembers
<1>2. /\ nxt \in Nat \ {0} /\ ack \in Nat /\ ack < nxt
      /\ Members(b) /\ Owned(b) /\ Layout(b, nxt) /\ Linked(b) /\ Estimated(b, ack)
      /\ Found(b, nxt, ack) /\ round \in Nat
  BY DEF ClustersOK, Members
<1> HIDE DEF linked
<1>3. /\ c.mode = b.mode /\ c.round_trip_count = round
      /\ c.acked_clusters = b.acked_clusters
      /\ c.seq_round_map = With(b.seq_round_map, nxt, round)
      /\ c.connection_info = With(b.connection_info, round, nxt)
      /\ c.heap = With(linked, nxt, cluster)
      /\ IsMembers(c)
  BY <1>1, <1>2 DEF Members, IsMembers
<1> HIDE DEF c
<1>4. IsLast(b, last) /\ last \in Nat
  BY <1>2, LastCluster
<1>5. cluster \in Cluster /\ cluster.id = round /\ cluster.next = 0 /\ cluster.prev = last
      /\ cluster.size = 1 /\ ~cluster.acked
  BY <1>2, <1>4 DEF Cluster
<1>6. last # 0 => /\ last \in DOMAIN b.heap /\ after \in Cluster
                  /\ after.id = b.heap[last].id /\ after.size = b.heap[last].size
                  /\ after.prev = b.heap[last].prev /\ after.acked = b.heap[last].acked
                  /\ after.next = nxt
  <2> SUFFICES ASSUME last # 0 PROVE last \in DOMAIN b.heap /\ b.heap[last] \in Cluster
    BY <1>2 DEF Cluster
  <2>1. QED
    BY <1>2, <1>4 DEF IsLast, Members
<1> HIDE DEF cluster, after, last
<1>7. \A a \in DOMAIN b.heap :
        /\ a \in Nat /\ a > 0 /\ b.heap[a].id \in Nat /\ b.heap[a].size \in Nat
        /\ b.heap[a].size > 0 /\ a + b.heap[a].size <= nxt /\ b.heap[a].id <= round
  BY <1>2, ClusterTypes DEF Layout
<1>8. nxt \notin DOMAIN b.heap
  <2> SUFFICES ASSUME nxt \in DOMAIN b.heap PROVE FALSE
    OBVIOUS
  <2>1. nxt + b.heap[nxt].size <= nxt /\ b.heap[nxt].size > 0 /\ b.heap[nxt].size \in Nat
    BY <1>7
  <2>2. QED
    BY <1>2, <2>1
<1>9. \A a \in DOMAIN b.heap : b.heap[a].id < round
  <2> TAKE a \in DOMAIN b.heap
  <2>1. b.heap[a].id # round
    BY <1>2 DEF Owned
  <2>2. QED
    BY <1>2, <1>7, <2>1
<1>10. /\ DOMAIN linked = DOMAIN b.heap
       /\ \A a \in DOMAIN b.heap : linked[a] = IF a = last THEN after ELSE b.heap[a]
  <2>1. CASE last = 0
    BY <1>7, <2>1 DEF linked
  <2>2. CASE last # 0
    BY <1>6, <2>2 DEF linked, With
  <2>3. QED
    BY <2>1, <2>2
<1>11. /\ DOMAIN c.heap = DOMAIN b.heap \cup {nxt} /\ c.heap[nxt] = cluster
       /\ \A a \in DOMAIN b.heap : c.heap[a] = IF a = last THEN after ELSE b.heap[a]
  BY <1>3, <1>8, <1>10 DEF With
<1>12. /\ DOMAIN c.connection_info = DOMAIN b.connection_info \cup {round}
       /\ c.connection_info[round] = nxt
       /\ \A id \in DOMAIN b.connection_info : c.connection_info[id] = b.connection_info[id]
  BY <1>3 DEF With
<1>13. /\ DOMAIN c.seq_round_map = DOMAIN b.seq_round_map \cup {nxt}
       /\ c.seq_round_map[nxt] = round
       /\ \A p \in DOMAIN b.seq_round_map : p # nxt => c.seq_round_map[p] = b.seq_round_map[p]
  BY <1>3 DEF With
<1>14. Extended(b, c, last, nxt, round)
  <2>1. \A a \in DOMAIN b.heap : a = last => last # 0
    BY <1>7
  <2>2. QED
    BY <1>3, <1>5, <1>6, <1>11, <2>1 DEF Extended
<1>15. Linked(c) /\ Estimated(c, ack)
  BY <1>2, <1>4, <1>7, <1>8, <1>9, <1>14, ExtendedKeeps
<1>16. Members(c)
  <2>1. \A a \in DOMAIN c.heap : a \in Nat /\ c.heap[a] \in Cluster
    <3> TAKE a \in DOMAIN c.heap
    <3>1. CASE a = nxt
      BY <1>2, <1>5, <1>11, <3>1
    <3>2. CASE a # nxt
      <4>1. a \in DOMAIN b.heap /\ a > 0 /\ b.heap[a] \in Cluster /\ a \in Nat
        BY <1>2, <1>7, <1>11, <3>2 DEF Members
      <4>2. QED
        BY <1>6, <1>11, <4>1
    <3>3. QED
      BY <3>1, <3>2
  <2>2. \A p \in DOMAIN c.seq_round_map : p \in Nat /\ c.seq_round_map[p] \in Nat
    BY <1>2, <1>13 DEF Members
  <2>3. \A id \in DOMAIN c.connection_info : id \in Nat /\ c.connection_info[id] \in Nat
    BY <1>2, <1>12 DEF Members
  <2>4. QED
    BY <1>2, <1>3, <2>1, <2>2, <2>3 DEF Members
<1>17. Owned(c)
  <2>1. ASSUME NEW id \in DOMAIN c.connection_info
        PROVE  c.connection_info[id] \in DOMAIN c.heap /\ c.heap[c.connection_info[id]].id = id
    <3>1. CASE id = round
      BY <1>5, <1>11, <1>12, <3>1
    <3>2. CASE id # round
      <4>1. /\ id \in DOMAIN b.connection_info /\ c.connection_info[id] = b.connection_info[id]
            /\ b.connection_info[id] \in DOMAIN b.heap /\ b.heap[b.connection_info[id]].id = id
        BY <1>2, <1>12, <3>2 DEF Owned
      <4>2. QED
        BY <1>14, <4>1 DEF Extended
    <3>3. QED
      BY <3>1, <3>2
  <2>2. ASSUME NEW a \in DOMAIN c.heap
        PROVE  c.heap[a].id \in DOMAIN c.connection_info /\ c.connection_info[c.heap[a].id] = a
    <3>1. CASE a = nxt
      BY <1>5, <1>11, <1>12, <3>1
    <3>2. CASE a # nxt
      <4>1. /\ a \in DOMAIN b.heap /\ c.heap[a].id = b.heap[a].id
            /\ b.heap[a].id \in DOMAIN b.connection_info /\ b.connection_info[b.heap[a].id] = a
        BY <1>2, <1>11, <1>14, <3>2 DEF Owned, Extended
      <4>2. QED
        BY <1>12, <4>1
    <3>3. QED
      BY <3>1, <3>2
  <2>3. QED
    BY <2>1, <2>2 DEF Owned
<1>18. Layout(c, nxt + 1)
  <2>1. \A a \in DOMAIN b.heap : c.heap[a].id = b.heap[a].id /\ c.heap[a].size = b.heap[a].size
    BY <1>14 DEF Extended
  <2>2. c.heap[nxt].id = round /\ c.heap[nxt].size = 1
    BY <1>14 DEF Extended
  <2>3. ASSUME NEW a \in DOMAIN c.heap
        PROVE  /\ a > 0 /\ c.heap[a].size > 0 /\ a + c.heap[a].size <= nxt + 1
               /\ c.heap[a].id <= round
               /\ c.heap[a].id = round => a + c.heap[a].size = nxt + 1
    <3>1. CASE a = nxt
      BY <1>2, <2>2, <3>1
    <3>2. CASE a # nxt
      <4>1. a \in DOMAIN b.heap
        BY <1>11, <3>2
      <4>2. QED
        BY <1>2, <1>7, <1>9, <2>1, <4>1
    <3>3. QED
      BY <3>1, <3>2
  <2>4. ASSUME NEW a \in DOMAIN c.heap, NEW d \in DOMAIN c.heap, c.heap[a].id < c.heap[d].id
        PROVE  a + c.heap[a].size <= d
    <3>1. CASE a = nxt
      <4>1. d # nxt
        BY <1>2, <2>2, <2>4, <3>1
      <4>2. d \in DOMAIN b.heap /\ b.heap[d].id < round
        BY <1>9, <1>11, <4>1
      <4>3. QED
        BY <1>2, <1>7, <2>1, <2>2, <2>4, <3>1, <4>2
    <3>2. CASE a # nxt /\ d = nxt
      BY <1>7, <1>11, <2>1, <3>2
    <3>3. CASE a # nxt /\ d # nxt
      <4>1. a \in DOMAIN b.heap /\ d \in DOMAIN b.heap
        BY <1>11, <3>3
      <4>2. QED
        BY <1>2, <2>1, <2>4, <4>1 DEF Layout
    <3>4. QED
      BY <3>1, <3>2, <3>3
  <2>5. QED
    BY <1>3, <2>3, <2>4 DEF Layout
<1>19. Found(c, nxt + 1, ack)
  <2> SUFFICES ASSUME NEW p \in DOMAIN c.seq_round_map
               PROVE  /\ p < nxt + 1
                      /\ p > ack =>
                           LET a == c.connection_info[c.seq_round_map[p]]
                           IN  /\ c.seq_round_map[p] \in DOMAIN c.connection_info
                               /\ a <= p /\ p < a + c.heap[a].size
    BY DEF Found
  <2>1. CASE p = nxt
    <3>1. c.seq_round_map[p] = round /\ c.connection_info[round] = nxt /\ c.heap[nxt].size = 1
      BY <1>12, <1>13, <1>14, <2>1 DEF Extended
    <3>2. QED
      BY <1>2, <1>12, <2>1, <3>1
  <2>2. CASE p # nxt
    <3> DEFINE r == b.seq_round_map[p]
               a == b.connection_info[r]
    <3>1. p \in DOMAIN b.seq_round_map /\ c.seq_round_map[p] = r /\ p \in Nat /\ p < nxt
      BY <1>2, <1>13, <2>2 DEF Found, Members
    <3>2. ASSUME p > ack
          PROVE  /\ r \in DOMAIN b.connection_info /\ a \in DOMAIN b.heap
                 /\ a <= p /\ p < a + b.heap[a].size
      BY <1>2, <3>1, <3>2 DEF Found, Owned
    <3> HIDE DEF r
    <3>3. ASSUME p > ack
          PROVE  /\ r \in DOMAIN c.connection_info /\ c.connection_info[r] = a
                 /\ c.heap[a].size = b.heap[a].size
      BY <1>12, <1>14, <3>2, <3>3 DEF Extended
    <3>4. p < nxt + 1
      BY <1>2, <3>1
    <3> HIDE DEF a
    <3>5. QED
      BY <3>1, <3>2, <3>3, <3>4
  <2>3. QED
    BY <2>1, <2>2
<1>20. Idle(c) /\ nxt + 1 \in Nat \ {0} /\ ack < nxt + 1
  BY <1>2, <1>3 DEF Idle
<1>21. QED
  BY <1>2, <1>3, <1>15, <1>16, <1>17, <1>18, <1>19, <1>20 DEF ClustersOK, c

(***************************************************************************)
(* A round that begins has no cluster yet: the clusters are of earlier     *)
(* rounds, and there are none when PROBE_BW is entered.                    *)
(***************************************************************************)
LEMMA AdvanceKeeps ==
  ASSUME NEW b, NEW nxt, NEW ack, ClustersOK(b, nxt, ack),
         NEW c, c = [b EXCEPT !.mode = "PROBE_BW", !.round_trip_count = @ + 1]
  PROVE  ClustersOK(c, nxt, ack) /\ c.acked_clusters = b.acked_clusters
<1>1. /\ nxt \in Nat \ {0} /\ ack \in Nat /\ ack < nxt
      /\ Members(b) /\ Owned(b) /\ Layout(b, nxt) /\ Linked(b) /\ Estimated(b, ack)
      /\ Found(b, nxt, ack) /\ b.round_trip_count \in Nat
  BY DEF ClustersOK, Members
<1>2. /\ c.mode = "PROBE_BW" /\ c.round_trip_count = b.round_trip_count + 1
      /\ c.acked_clusters = b.acked_clusters /\ c.seq_round_map = b.seq_round_map
      /\ c.connection_info = b.connection_info /\ c.heap = b.heap /\ IsMembers(c)
  BY <1>1 DEF Members, IsMembers
<1>3. Members(c)
  BY <1>1, <1>2 DEF Members
<1>4. Layout(c, nxt)
  <2>1. \A a \in DOMAIN b.heap :
          b.heap[a].id \in Nat /\ b.heap[a].id <= b.round_trip_count
    BY <1>1, ClusterTypes DEF Layout
  <2>2. \A a \in DOMAIN b.heap :
          b.heap[a].id <= c.round_trip_count /\ b.heap[a].id # c.round_trip_count
    BY <1>1, <1>2, <2>1
  <2>3. QED
    BY <1>1, <1>2, <2>2 DEF Layout
<1>5. Owned(c) /\ Linked(c) /\ Estimated(c, ack) /\ Found(c, nxt, ack) /\ Idle(c)
  <2>1. Owned(c) /\ Idle(c)
    BY <1>1, <1>2 DEF Owned, Idle
  <2>2. Linked(c)
    BY <1>1, <1>2 DEF Linked
  <2>3. Estimated(c, ack)
    BY <1>1, <1>2 DEF Estimated
  <2>4. Found(c, nxt, ack)
    BY <1>1, <1>2 DEF Found
  <2>5. QED
    BY <2>1, <2>2, <2>3, <2>4
<1>6. QED
  BY <1>1, <1>2, <1>3, <1>4, <1>5 DEF ClustersOK

(***************************************************************************)
(* EnterProbeBandwidthMode and UpdateGainCyclePhase.                       *)
(***************************************************************************)
LEMMA NextRoundKeeps ==
  ASSUME NEW b, NEW nxt, NEW ack, ClustersOK(b, nxt, ack), NEW advance \in BOOLEAN
  PROVE  /\ ClustersOK(NextRound(b, advance), nxt, ack)
         /\ NextRound(b, advance).acked_clusters = b.acked_clusters
<1> DEFINE c == [b EXCEPT !.mode = "PROBE_BW", !.round_trip_count = @ + 1]
<1>1. Members(b)
  BY DEF ClustersOK
<1>2. CASE b.mode = "START_UP"
  <2>1. NextRound(b, advance) = c
    BY <1>2 DEF NextRound
  <2>2. QED
    BY <2>1, AdvanceKeeps
<1>3. CASE b.mode = "PROBE_BW" /\ advance
  <2>1. NextRound(b, advance) = c
    BY <1>1, <1>3 DEF NextRound, Members, IsMembers
  <2>2. QED
    BY <2>1, AdvanceKeeps
<1>4. CASE b.mode # "START_UP" /\ ~(b.mode = "PROBE_BW" /\ advance)
  BY <1>4 DEF NextRound
<1>5. QED
  BY <1>2, <1>3, <1>4

(***************************************************************************)
(* MaybeEnterOrExitProbeRtt: PROBE_RTT begins without clusters.            *)
(***************************************************************************)
LEMMA ProbeRttKeeps ==
  ASSUME NEW b, NEW nxt, NEW ack, ClustersOK(b, nxt, ack),
         NEW expired \in BOOLEAN, NEW exit \in BOOLEAN
  PROVE  LET c == MaybeEnterOrExitProbeRtt(b, expired, exit)
         IN  /\ ClustersOK(c, nxt, ack)
             /\ c.acked_clusters = b.acked_clusters \/ c.acked_clusters = <<>>
<1> DEFINE c == MaybeEnterOrExitProbeRtt(b, expired, exit)
<1>1. Members(b) /\ nxt \in Nat \ {0} /\ ack \in Nat /\ ack < nxt
  BY DEF ClustersOK
<1>2. CASE b.mode # "PROBE_RTT" /\ expired
  <2>1. c = [mode |-> "PROBE_RTT", round_trip_count |-> 0, heap |-> NoEntries,
             connection_info |-> NoEntries, seq_round_map |-> NoEntries,
             acked_clusters |-> <<>>]
    BY <1>1, <1>2 DEF MaybeEnterOrExitProbeRtt, ClusterInfoClear, Members, IsMembers
  <2> HIDE DEF c
  <2>2. /\ DOMAIN c.heap = {} /\ DOMAIN c.connection_info = {} /\ DOMAIN c.seq_round_map = {}
        /\ c.acked_clusters = <<>> /\ IsMembers(c) /\ c.mode = "PROBE_RTT"
        /\ c.round_trip_count = 0
    BY <2>1 DEF NoEntries, IsMembers
  <2>3. c.acked_clusters \in Seq(Nat) /\ DOMAIN c.acked_clusters = {}
    BY <2>2
  <2>4. Members(c)
    BY <2>2, <2>3 DEF Members
  <2>5. Idle(c) /\ Owned(c) /\ Layout(c, nxt) /\ Linked(c) /\ Estimated(c, ack) /\ Found(c, nxt, ack)
    BY <2>2, <2>3 DEF Idle, Owned, Layout, Linked, Estimated, Found
  <2>6. QED
    BY <1>1, <2>2, <2>4, <2>5 DEF ClustersOK, c
<1>3. CASE b.mode = "PROBE_RTT" /\ exit
  <2>1. c = [b EXCEPT !.mode = "PROBE_BW", !.round_trip_count = @ + 1]
    BY <1>3 DEF MaybeEnterOrExitProbeRtt
  <2>2. QED
    BY <2>1, AdvanceKeeps
<1>4. CASE ~(b.mode # "PROBE_RTT" /\ expired) /\ ~(b.mode = "PROBE_RTT" /\ exit)
  BY <1>4 DEF MaybeEnterOrExitProbeRtt
<1>5. QED
  BY <1>2, <1>3, <1>4

\* c differs from b in the ack of the cluster a and, when append holds, in an
\* estimate of the cluster before it.
Touched(b, c, a, append) ==
  /\ DOMAIN c.heap = DOMAIN b.heap /\ c.connection_info = b.connection_info
  /\ c.mode = b.mode /\ c.round_trip_count = b.round_trip_count
  /\ c.acked_clusters = IF append THEN Append(b.acked_clusters, b.heap[a].prev)
                        ELSE b.acked_clusters
  /\ \A d \in DOMAIN b.heap :
       /\ c.heap[d].id = b.heap[d].id /\ c.heap[d].next = b.heap[d].next
       /\ c.heap[d].prev = b.heap[d].prev /\ c.heap[d].size = b.heap[d].size
       /\ (c.heap[d].acked <=> (d = a \/ b.heap[d].acked))

(***************************************************************************)
(* The estimate of the cluster before the one acked is of a later round    *)
(* than all that wait: what follows an estimated cluster was acked, so it  *)
(* is not after the cluster before the one acked for the first time.       *)
(***************************************************************************)
LEMMA EstimateAfter ==
  ASSUME NEW b, NEW nxt, NEW ack, ClustersOK(b, nxt, ack),
         NEW p \in Nat, p > ack, NEW a \in DOMAIN b.heap, p < a + b.heap[a].size,
         ~b.heap[a].acked, b.heap[a].prev # 0, NEW i \in DOMAIN b.acked_clusters
  PROVE  b.heap[b.acked_clusters[i]].id < b.heap[b.heap[a].prev].id
<1>1. /\ ack \in Nat /\ Members(b) /\ Owned(b) /\ Layout(b, nxt) /\ Linked(b)
      /\ Estimated(b, ack)
  BY DEF ClustersOK
<1> DEFINE e == b.acked_clusters[i]
           x == b.heap[e].next
           q == b.heap[a].prev
<1>2. \A d \in DOMAIN b.heap : d \in Nat /\ b.heap[d].id \in Nat /\ b.heap[d].size \in Nat
  BY <1>1, ClusterTypes
<1>3. e \in DOMAIN b.heap /\ x # 0 /\ b.heap[x].acked
  BY <1>1 DEF Estimated
<1>4. x \in DOMAIN b.heap /\ b.heap[e].id < b.heap[x].id
  BY <1>1, <1>3 DEF Linked
<1>5. x <= ack /\ x # a
  BY <1>1, <1>3, <1>4 DEF Estimated
<1>6. q \in DOMAIN b.heap /\ b.heap[q].next = a /\ a > 0
  BY <1>1 DEF Linked, Layout
<1> HIDE DEF e, x, q
<1>7. b.heap[x].id # b.heap[a].id
  BY <1>1, <1>4, <1>5 DEF Owned
<1>8. ~(b.heap[a].id < b.heap[x].id)
  <2> SUFFICES ASSUME b.heap[a].id < b.heap[x].id PROVE FALSE
    OBVIOUS
  <2>1. a + b.heap[a].size <= x
    BY <1>1, <1>4 DEF Layout
  <2>2. QED
    BY <1>1, <1>2, <1>4, <1>5, <2>1
<1>9. b.heap[q].id < b.heap[x].id => b.heap[a].id <= b.heap[x].id
  <2>1. b.heap[q].next # 0
    BY <1>2, <1>6
  <2>2. QED
    BY <1>1, <1>4, <1>6, <2>1 DEF Linked
<1>10. b.heap[e].id < b.heap[q].id
  BY <1>2, <1>3, <1>4, <1>6, <1>7, <1>8, <1>9
<1>11. QED
  BY <1>10 DEF e, q

(***************************************************************************)
(* An ack of the packet p of the cluster a: the first one of the cluster   *)
(* may estimate the cluster before.                                        *)
(***************************************************************************)
LEMMA TouchedKeeps ==
  ASSUME NEW b, NEW nxt, NEW ack, ClustersOK(b, nxt, ack),
         NEW p \in Nat, p > ack, NEW a \in DOMAIN b.heap, a <= p, p < a + b.heap[a].size,
         NEW c, NEW append \in BOOLEAN, append => (~b.heap[a].acked /\ b.heap[a].prev # 0),
         Touched(b, c, a, append)
  PROVE  Owned(c) /\ Layout(c, nxt) /\ Linked(c) /\ Estimated(c, p)
<1>1. /\ ack \in Nat /\ Members(b) /\ Owned(b) /\ Layout(b, nxt) /\ Linked(b)
      /\ Estimated(b, ack)
  BY DEF ClustersOK
<1>2. Owned(c)
  BY <1>1 DEF Touched, Owned
<1>3. Layout(c, nxt)
  BY <1>1 DEF Touched, Layout
<1>4. Linked(c)
  <2> SUFFICES ASSUME NEW s \in DOMAIN c.heap
               PROVE  /\ c.heap[s].next # 0 =>
                           /\ c.heap[s].next \in DOMAIN c.heap
                           /\ c.heap[s].id < c.heap[c.heap[s].next].id
                           /\ \A d \in DOMAIN c.heap :
                                c.heap[s].id < c.heap[d].id
                                  => c.heap[c.heap[s].next].id <= c.heap[d].id
                      /\ c.heap[s].prev # 0 =>
                           c.heap[s].prev \in DOMAIN c.heap /\ c.heap[c.heap[s].prev].next = s
    BY DEF Linked
  <2>1. s \in DOMAIN b.heap
    BY DEF Touched
  <2>2. \A d \in DOMAIN b.heap : /\ c.heap[d].id = b.heap[d].id
                                  /\ c.heap[d].next = b.heap[d].next
                                  /\ c.heap[d].prev = b.heap[d].prev
    BY DEF Touched
  <2>3. DOMAIN c.heap = DOMAIN b.heap
    BY DEF Touched
  <2>4. PICK after, before : after = b.heap[s].next /\ before = b.heap[s].prev
    OBVIOUS
  <2>5. after # 0 => /\ after \in DOMAIN b.heap /\ b.heap[s].id < b.heap[after].id
                     /\ \A d \in DOMAIN b.heap :
                          b.heap[s].id < b.heap[d].id => b.heap[after].id <= b.heap[d].id
    BY <1>1, <2>1, <2>4, Zenon DEF Linked
  <2>6. before # 0 => before \in DOMAIN b.heap /\ b.heap[before].next = s
    BY <1>1, <2>1, <2>4, Zenon DEF Linked
  <2>7. c.heap[s].next = after /\ c.heap[s].prev = before /\ c.heap[s].id = b.heap[s].id
    BY <2>1, <2>2, <2>4, Zenon
  <2>8. after # 0 => /\ after \in DOMAIN c.heap /\ c.heap[s].id < c.heap[after].id
                     /\ \A d \in DOMAIN c.heap :
                          c.heap[s].id < c.heap[d].id => c.heap[after].id <= c.heap[d].id
    BY <2>2, <2>3, <2>5, <2>7, Zenon
  <2>9. before # 0 => before \in DOMAIN c.heap /\ c.heap[before].next = s
    BY <2>2, <2>3, <2>6, Zenon
  <2>10. QED
    BY <2>7, <2>8, <2>9, Zenon
<1>5. Estimated(c, p)
  <2> DEFINE ac == b.acked_clusters
             q  == b.heap[a].prev
  <2>1. \A d \in DOMAIN c.heap : c.heap[d].acked => d <= p
    <3> SUFFICES ASSUME NEW d \in DOMAIN b.heap, d # a, b.heap[d].acked PROVE d <= p
      BY DEF Touched
    <3>1. d <= ack /\ d \in Nat
      BY <1>1 DEF Estimated, Members
    <3>2. QED
      BY <1>1, <3>1
  <2>2. ASSUME NEW i \in DOMAIN ac
        PROVE  /\ ac[i] \in DOMAIN c.heap /\ c.heap[ac[i]].next # 0
               /\ c.heap[c.heap[ac[i]].next].acked /\ c.heap[ac[i]].id = b.heap[ac[i]].id
    <3> DEFINE e == ac[i]
    <3>1. e \in DOMAIN b.heap /\ b.heap[e].next # 0 /\ b.heap[b.heap[e].next].acked
      BY <1>1 DEF Estimated
    <3>2. b.heap[e].next \in DOMAIN b.heap
      BY <1>1, <3>1 DEF Linked
    <3> HIDE DEF e
    <3>3. c.heap[e].next # 0 /\ c.heap[c.heap[e].next].acked /\ c.heap[e].id = b.heap[e].id
          /\ e \in DOMAIN c.heap
      BY <3>1, <3>2 DEF Touched
    <3>4. QED
      BY <3>3 DEF e
  <2>3. \A i, j \in DOMAIN ac : i < j => c.heap[ac[i]].id < c.heap[ac[j]].id
    BY <1>1, <2>2 DEF Estimated
  <2>4. CASE ~append
    <3>1. c.acked_clusters = ac
      BY <2>4 DEF Touched
    <3>2. QED
      BY <2>1, <2>2, <2>3, <3>1 DEF Estimated
  <2>5. CASE append
    <3>1. c.acked_clusters = Append(ac, q) /\ ac \in Seq(Nat) /\ q \in Nat
      BY <1>1, <2>5, ClusterTypes DEF Touched, Members
    <3>2. /\ q \in DOMAIN b.heap /\ b.heap[q].next = a /\ a > 0 /\ a \in Nat
      BY <1>1, <2>5, ClusterTypes DEF Linked, Layout
    <3>3. /\ q \in DOMAIN c.heap /\ c.heap[q].next # 0 /\ c.heap[c.heap[q].next].acked
          /\ c.heap[q].id = b.heap[q].id
      <4> HIDE DEF q
      <4>1. c.heap[q].next = a /\ c.heap[a].acked
        BY <3>2 DEF Touched
      <4>2. QED
        BY <3>2, <4>1 DEF Touched
    <3>4. \A i \in DOMAIN ac : c.heap[ac[i]].id < c.heap[q].id
      BY <2>2, <2>5, <3>3, EstimateAfter
    <3> HIDE DEF ac, q
    <3>5. /\ DOMAIN c.acked_clusters = DOMAIN ac \cup {Len(ac) + 1}
          /\ \A i \in DOMAIN ac : c.acked_clusters[i] = ac[i] /\ i \in Nat /\ i <= Len(ac)
          /\ c.acked_clusters[Len(ac) + 1] = q /\ Len(ac) \in Nat
      BY <3>1
    <3>6. \A i \in DOMAIN c.acked_clusters :
            /\ c.acked_clusters[i] \in DOMAIN c.heap
            /\ c.heap[c.acked_clusters[i]].next # 0
            /\ c.heap[c.heap[c.acked_clusters[i]].next].acked
      BY <2>2, <3>3, <3>5
    <3>7. ASSUME NEW i \in DOMAIN c.acked_clusters, NEW j \in DOMAIN c.acked_clusters, i < j
          PROVE  c.heap[c.acked_clusters[i]].id < c.heap[c.acked_clusters[j]].id
      <4>1. i \in DOMAIN ac
        BY <3>5, <3>7
      <4>2. CASE j \in DOMAIN ac
        BY <2>3, <3>5, <3>7, <4>1, <4>2
      <4>3. CASE j = Len(ac) + 1
        BY <3>4, <3>5, <4>1, <4>3
      <4>4. QED
        BY <3>5, <4>2, <4>3
    <3>8. QED
      BY <2>1, <3>6, <3>7 DEF Estimated
  <2>6. QED
    BY <2>4, <2>5
<1>6. QED
  BY <1>2, <1>3, <1>4, <1>5

(***************************************************************************)
(* Packets up to the last ack are not looked up any more.                  *)
(***************************************************************************)
LEMMA LaterAck ==
  ASSUME NEW b, NEW nxt, NEW ack, ClustersOK(b, nxt, ack), NEW p \in Nat, p > ack, p < nxt
  PROVE  ClustersOK(b, nxt, p)
<1>1. ack \in Nat /\ Estimated(b, ack) /\ Found(b, nxt, ack) /\ Members(b)
  BY DEF ClustersOK
<1>2. Estimated(b, p)
  <2>1. \A a \in DOMAIN b.heap : b.heap[a].acked => a <= p
    <3> SUFFICES ASSUME NEW a \in DOMAIN b.heap, b.heap[a].acked PROVE a <= p
      OBVIOUS
    <3>1. a <= ack /\ a \in Nat
      BY <1>1 DEF Estimated, Members
    <3>2. QED
      BY <1>1, <3>1
  <2>2. QED
    BY <1>1, <2>1 DEF Estimated
<1>3. Found(b, nxt, p)
  <2>1. \A q \in DOMAIN b.seq_round_map : q \in Nat /\ (q > p => q > ack)
    BY <1>1 DEF Members
  <2>2. QED
    BY <1>1, <2>1 DEF Found
<1>4. QED
  BY <1>2, <1>3 DEF ClustersOK

(***************************************************************************)
(* The part of OnAck that finds the cluster of the acked packet, with      *)
(* SentClusterInfo::OnAck: at most one estimate is added.                  *)
(***************************************************************************)
LEMMA AckSampledKeeps ==
  ASSUME NEW b, NEW nxt, NEW ack, ClustersOK(b, nxt, ack), NEW p \in Nat, p > ack, p < nxt,
         NEW later \in BOOLEAN
  PROVE  LET c == AckSampled(b, p, later)
         IN  /\ ClustersOK(c, nxt, p)
             /\ Len(c.acked_clusters) \in {Len(b.acked_clusters), Len(b.acked_clusters) + 1}
<1> DEFINE c == AckSampled(b, p, later)
<1>1. /\ nxt \in Nat \ {0} /\ ack \in Nat /\ ack < nxt
      /\ Members(b) /\ Idle(b) /\ Owned(b) /\ Layout(b, nxt) /\ Linked(b) /\ Estimated(b, ack)
      /\ Found(b, nxt, ack)
  BY DEF ClustersOK
<1>2. CASE p \notin DOMAIN b.seq_round_map
  <2>1. c = b
    BY <1>2 DEF AckSampled
  <2>2. QED
    BY <2>1, LaterAck
<1>3. CASE p \in DOMAIN b.seq_round_map
  <2> DEFINE round   == b.seq_round_map[p]
             a       == b.connection_info[round]
             touched == [b.heap[a] EXCEPT !.acked = TRUE,
                                          !.spread = @ \/ (b.heap[a].acked /\ later)]
             q       == b.heap[a].prev
             append  == ~b.heap[a].acked /\ q # 0 /\ b.heap[q].acked /\ b.heap[q].spread
             estimates == IF append THEN Append(b.acked_clusters, q) ELSE b.acked_clusters
  <2>1. /\ round \in DOMAIN b.connection_info /\ a \in DOMAIN b.heap /\ a <= p
        /\ p < a + b.heap[a].size
    BY <1>1, <1>3 DEF Found, Owned
  <2>2. c = ClusterOnAck([b EXCEPT !.seq_round_map = Without(@, {p})], a, later)
    BY <1>3, <2>1 DEF AckSampled
  <2>3. c = [b EXCEPT !.seq_round_map = Without(b.seq_round_map, {p}),
                      !.heap = With(b.heap, a, touched),
                      !.acked_clusters = estimates]
    <3> HIDE DEF a, c
    <3>1. CASE append
      <4>1. TriggerBandwidthEstimate([b EXCEPT !.seq_round_map = Without(@, {p})], q)
              = [b EXCEPT !.seq_round_map = Without(b.seq_round_map, {p}),
                          !.acked_clusters = estimates]
        BY <1>1, <3>1 DEF TriggerBandwidthEstimate, Members, IsMembers
      <4>2. QED
        BY <1>1, <2>2, <3>1, <4>1 DEF ClusterOnAck, Members, IsMembers
    <3>2. CASE ~append
      BY <1>1, <2>2, <3>2 DEF ClusterOnAck, TriggerBandwidthEstimate, Members, IsMembers
    <3>3. QED
      BY <3>1, <3>2
  <2>4. b.heap[a] \in Cluster /\ q \in Nat
    BY <1>1, <2>1, ClusterTypes DEF Members
  <2>5. /\ touched \in Cluster /\ touched.acked
        /\ touched.id = b.heap[a].id /\ touched.next = b.heap[a].next
        /\ touched.prev = q /\ touched.size = b.heap[a].size
    BY <2>4 DEF Cluster
  <2> HIDE DEF c, touched, estimates
  <2>6. /\ c.mode = b.mode /\ c.round_trip_count = b.round_trip_count
        /\ c.connection_info = b.connection_info /\ c.acked_clusters = estimates
        /\ c.seq_round_map = Without(b.seq_round_map, {p})
        /\ c.heap = With(b.heap, a, touched)
        /\ IsMembers(c)
    BY <1>1, <2>3 DEF Members, IsMembers
  <2> HIDE DEF a, q
  <2>7. /\ DOMAIN c.heap = DOMAIN b.heap /\ c.heap[a] = touched
        /\ \A d \in DOMAIN b.heap : d # a => c.heap[d] = b.heap[d]
    BY <2>1, <2>6 DEF With
  <2>8. /\ DOMAIN c.seq_round_map = DOMAIN b.seq_round_map \ {p}
        /\ \A s \in DOMAIN c.seq_round_map : c.seq_round_map[s] = b.seq_round_map[s]
    BY <2>6 DEF Without
  <2>9. Touched(b, c, a, append)
    <3>1. \A d \in DOMAIN b.heap :
            /\ c.heap[d].id = b.heap[d].id /\ c.heap[d].next = b.heap[d].next
            /\ c.heap[d].prev = b.heap[d].prev /\ c.heap[d].size = b.heap[d].size
            /\ (c.heap[d].acked <=> (d = a \/ b.heap[d].acked))
      BY <2>5, <2>7 DEF q
    <3>2. QED
      BY <2>6, <2>7, <3>1 DEF Touched, estimates, q
  <2>10. append \in BOOLEAN /\ (append => (~b.heap[a].acked /\ b.heap[a].prev # 0))
    BY DEF q
  <2> HIDE DEF append
  <2>11. Owned(c) /\ Layout(c, nxt) /\ Linked(c) /\ Estimated(c, p)
    BY <2>1, <2>9, <2>10, TouchedKeeps
  <2>12. /\ estimates \in Seq(Nat)
         /\ Len(estimates) \in {Len(b.acked_clusters), Len(b.acked_clusters) + 1}
    BY <1>1, <2>4 DEF estimates, Members
  <2>13. Members(c)
    <3>1. \A d \in DOMAIN c.heap : d \in Nat /\ c.heap[d] \in Cluster
      BY <1>1, <2>5, <2>7 DEF Members
    <3>2. \A s \in DOMAIN c.seq_round_map : s \in Nat /\ c.seq_round_map[s] \in Nat
      BY <1>1, <2>8 DEF Members
    <3>3. QED
      BY <1>1, <2>6, <2>12, <3>1, <3>2 DEF Members
  <2>14. Found(c, nxt, p)
    <3> SUFFICES ASSUME NEW s \in DOMAIN c.seq_round_map
                 PROVE  /\ s < nxt
                        /\ s > p =>
                             LET d == c.connection_info[c.seq_round_map[s]]
                             IN  /\ c.seq_round_map[s] \in DOMAIN c.connection_info
                                 /\ d <= s /\ s < d + c.heap[d].size
      BY DEF Found
    <3> DEFINE r == b.seq_round_map[s]
               d == b.connection_info[r]
    <3>1. s \in DOMAIN b.seq_round_map /\ c.seq_round_map[s] = r /\ s \in Nat /\ s < nxt
      BY <1>1, <2>8 DEF Found, Members
    <3>2. ASSUME s > p
          PROVE  /\ r \in DOMAIN b.connection_info /\ d \in DOMAIN b.heap
                 /\ d <= s /\ s < d + b.heap[d].size
      <4>1. s > ack
        BY <1>1, <3>1, <3>2
      <4>2. QED
        BY <1>1, <3>1, <4>1 DEF Found, Owned
    <3> HIDE DEF r, d
    <3>3. ASSUME s > p PROVE c.heap[d].size = b.heap[d].size
      BY <2>9, <3>2, <3>3 DEF Touched
    <3>4. QED
      BY <2>6, <3>1, <3>2, <3>3 DEF d
  <2>15. Idle(c)
    <3>1. b.mode = "PROBE_BW"
      BY <1>1, <1>3 DEF Idle
    <3>2. QED
      BY <2>6, <3>1 DEF Idle
  <2>16. QED
    BY <1>1, <2>6, <2>11, <2>12, <2>13, <2>14, <2>15 DEF ClustersOK, c
<1>4. QED
  BY <1>2, <1>3

(***************************************************************************)
(* The oldest estimate goes with its cluster and all before it: what is    *)
(* left of the links, the estimates and the packets to be acked leads to   *)
(* clusters that are left.                                                 *)
(***************************************************************************)
LEMMA ReleaseKeeps ==
  ASSUME NEW b, NEW nxt, NEW ack, ClustersOK(b, nxt, ack), b.acked_clusters # <<>>
  PROVE  /\ ClustersOK(Release(b), nxt, ack)
         /\ Len(Release(b).acked_clusters) = Len(b.acked_clusters) - 1
<1> DEFINE c      == Release(b)
           ac     == b.acked_clusters
           top    == b.heap[Head(ac)].id
           rounds == {id \in DOMAIN b.connection_info : id <= top}
           gone   == {b.connection_info[id] : id \in rounds}
           nexts  == {b.heap[a].next : a \in gone}
           reset  == [a \in DOMAIN b.heap |->
                        IF a \in nexts THEN [b.heap[a] EXCEPT !.prev = 0] ELSE b.heap[a]]
<1>1. /\ nxt \in Nat \ {0} /\ ack \in Nat /\ ack < nxt
      /\ Members(b) /\ Idle(b) /\ Owned(b) /\ Layout(b, nxt) /\ Linked(b) /\ Estimated(b, ack)
      /\ Found(b, nxt, ack)
  BY DEF ClustersOK
<1>2. c = [b EXCEPT !.acked_clusters = Tail(ac),
                    !.connection_info = Without(b.connection_info, rounds),
                    !.heap = Without(reset, gone)]
  BY <1>1 DEF Release, RemoveClusterLE, Members, IsMembers
<1> HIDE DEF reset, gone, rounds
<1>3. /\ c.mode = b.mode /\ c.round_trip_count = b.round_trip_count
      /\ c.seq_round_map = b.seq_round_map /\ c.acked_clusters = Tail(ac)
      /\ c.connection_info = Without(b.connection_info, rounds)
      /\ c.heap = Without(reset, gone) /\ IsMembers(c)
  BY <1>1, <1>2 DEF Members, IsMembers
<1> HIDE DEF c
<1>4. \A a \in DOMAIN b.heap :
        /\ a \in Nat /\ b.heap[a].id \in Nat /\ b.heap[a].size \in Nat
        /\ b.heap[a].prev \in Nat /\ b.heap[a].next \in Nat /\ b.heap[a] \in Cluster
  BY <1>1, ClusterTypes DEF Members
<1>5. /\ ac \in Seq(Nat) /\ Len(ac) \in Nat /\ Len(ac) > 0 /\ Head(ac) = ac[1]
      /\ 1 \in DOMAIN ac /\ DOMAIN ac = 1..Len(ac)
      /\ Tail(ac) \in Seq(Nat) /\ Len(Tail(ac)) = Len(ac) - 1
      /\ \A i \in DOMAIN Tail(ac) : i \in Nat /\ i > 0 /\ i + 1 \in DOMAIN ac
                                    /\ Tail(ac)[i] = ac[i + 1]
  BY <1>1 DEF Members
<1> DEFINE h == ac[1]
           x == b.heap[h].next
<1>6. /\ h \in DOMAIN b.heap /\ b.heap[h].id = top /\ x # 0 /\ b.heap[x].acked
  BY <1>1, <1>5 DEF Estimated
<1>7. x \in DOMAIN b.heap /\ top < b.heap[x].id /\ x <= ack
  BY <1>1, <1>6 DEF Linked, Estimated
<1>8. top \in Nat
  BY <1>4, <1>6
<1> HIDE DEF ac, h, x, top
<1>9. \A a \in DOMAIN b.heap : a \in gone <=> b.heap[a].id <= top
  BY <1>1 DEF Owned, gone, rounds
<1>10. /\ DOMAIN c.heap = {a \in DOMAIN b.heap : b.heap[a].id > top}
       /\ \A a \in DOMAIN c.heap : c.heap[a] = reset[a]
  <2>1. DOMAIN reset = DOMAIN b.heap
    BY DEF reset
  <2>2. DOMAIN c.heap = DOMAIN b.heap \ gone /\ \A a \in DOMAIN c.heap : c.heap[a] = reset[a]
    BY <1>3, <2>1 DEF Without
  <2>3. QED
    BY <1>4, <1>8, <1>9, <2>2
<1>11. \A a \in DOMAIN c.heap :
         /\ a \in DOMAIN b.heap /\ c.heap[a] \in Cluster
         /\ c.heap[a].id = b.heap[a].id /\ c.heap[a].size = b.heap[a].size
         /\ c.heap[a].next = b.heap[a].next /\ c.heap[a].acked = b.heap[a].acked
         /\ c.heap[a].prev = IF a \in nexts THEN 0 ELSE b.heap[a].prev
  <2> HIDE DEF nexts
  <2> TAKE a \in DOMAIN c.heap
  <2>1. a \in DOMAIN b.heap /\ b.heap[a] \in Cluster
    BY <1>4, <1>10
  <2>2. c.heap[a] = IF a \in nexts THEN [b.heap[a] EXCEPT !.prev = 0] ELSE b.heap[a]
    BY <1>10, <2>1 DEF reset, nexts
  <2>3. QED
    BY <2>1, <2>2 DEF Cluster
<1>12. /\ DOMAIN c.connection_info = {id \in DOMAIN b.connection_info : id > top}
       /\ \A id \in DOMAIN c.connection_info : c.connection_info[id] = b.connection_info[id]
  <2>1. \A id \in DOMAIN b.connection_info : id \in Nat
    BY <1>1 DEF Members
  <2>2. DOMAIN c.connection_info = DOMAIN b.connection_info \ rounds
        /\ \A id \in DOMAIN c.connection_info : c.connection_info[id] = b.connection_info[id]
    BY <1>3 DEF Without
  <2>3. QED
    BY <1>8, <2>1, <2>2 DEF rounds
<1>13. Members(c)
  <2>1. \A a \in DOMAIN c.heap : a \in Nat /\ c.heap[a] \in Cluster
    BY <1>4, <1>11
  <2>2. \A id \in DOMAIN c.connection_info : id \in Nat /\ c.connection_info[id] \in Nat
    BY <1>1, <1>12 DEF Members
  <2>3. QED
    BY <1>1, <1>3, <1>5, <2>1, <2>2 DEF Members
<1>14. Owned(c)
  <2>1. ASSUME NEW id \in DOMAIN c.connection_info
        PROVE  c.connection_info[id] \in DOMAIN c.heap /\ c.heap[c.connection_info[id]].id = id
    <3>1. /\ id \in DOMAIN b.connection_info /\ id > top
          /\ c.connection_info[id] = b.connection_info[id]
      BY <1>12
    <3>2. b.connection_info[id] \in DOMAIN b.heap /\ b.heap[b.connection_info[id]].id = id
      BY <1>1, <3>1 DEF Owned
    <3>3. QED
      BY <1>10, <1>11, <3>1, <3>2
  <2>2. ASSUME NEW a \in DOMAIN c.heap
        PROVE  c.heap[a].id \in DOMAIN c.connection_info /\ c.connection_info[c.heap[a].id] = a
    <3>1. a \in DOMAIN b.heap /\ b.heap[a].id > top /\ c.heap[a].id = b.heap[a].id
      BY <1>10, <1>11
    <3>2. b.heap[a].id \in DOMAIN b.connection_info /\ b.connection_info[b.heap[a].id] = a
      BY <1>1, <3>1 DEF Owned
    <3>3. QED
      BY <1>12, <3>1, <3>2
  <2>3. QED
    BY <2>1, <2>2 DEF Owned
<1>15. Layout(c, nxt)
  BY <1>1, <1>3, <1>11 DEF Layout
<1>16. Linked(c)
  <2> SUFFICES ASSUME NEW a \in DOMAIN c.heap
               PROVE  /\ c.heap[a].next # 0 =>
                           /\ c.heap[a].next \in DOMAIN c.heap
                           /\ c.heap[a].id < c.heap[c.heap[a].next].id
                           /\ \A d \in DOMAIN c.heap :
                                c.heap[a].id < c.heap[d].id
                                  => c.heap[c.heap[a].next].id <= c.heap[d].id
                      /\ c.heap[a].prev # 0 =>
                           c.heap[a].prev \in DOMAIN c.heap /\ c.heap[c.heap[a].prev].next = a
    BY DEF Linked
  <2>1. a \in DOMAIN b.heap /\ b.heap[a].id > top
    BY <1>10
  <2>2. ASSUME c.heap[a].next # 0
        PROVE  /\ c.heap[a].next \in DOMAIN c.heap
               /\ c.heap[a].id < c.heap[c.heap[a].next].id
               /\ \A d \in DOMAIN c.heap :
                    c.heap[a].id < c.heap[d].id => c.heap[c.heap[a].next].id <= c.heap[d].id
    <3> DEFINE y == b.heap[a].next
    <3>1. /\ c.heap[a].next = y /\ y \in DOMAIN b.heap /\ b.heap[a].id < b.heap[y].id
          /\ \A d \in DOMAIN b.heap : b.heap[a].id < b.heap[d].id => b.heap[y].id <= b.heap[d].id
      BY <1>1, <1>11, <2>1, <2>2 DEF Linked
    <3> HIDE DEF y
    <3>2. y \in DOMAIN c.heap
      BY <1>4, <1>8, <1>10, <2>1, <3>1
    <3>3. QED
      BY <1>11, <3>1, <3>2
  <2>3. ASSUME c.heap[a].prev # 0
        PROVE  c.heap[a].prev \in DOMAIN c.heap /\ c.heap[c.heap[a].prev].next = a
    <3> DEFINE q == b.heap[a].prev
    <3>1. c.heap[a].prev = q /\ a \notin nexts /\ q # 0
      BY <1>11, <2>3
    <3>2. q \in DOMAIN b.heap /\ b.heap[q].next = a
      BY <1>1, <2>1, <3>1 DEF Linked
    <3> HIDE DEF q
    <3>3. q \notin gone
      BY <3>1, <3>2
    <3>4. q \in DOMAIN c.heap
      BY <1>4, <1>8, <1>9, <1>10, <3>2, <3>3
    <3>5. QED
      BY <1>11, <3>1, <3>2, <3>4
  <2>4. QED
    BY <2>2, <2>3
<1>17. Estimated(c, ack)
  <2>1. \A a \in DOMAIN c.heap : c.heap[a].acked => a <= ack
    BY <1>1, <1>11 DEF Estimated
  <2>2. ASSUME NEW i \in DOMAIN c.acked_clusters
        PROVE  /\ c.acked_clusters[i] \in DOMAIN c.heap
               /\ c.heap[c.acked_clusters[i]].next # 0
               /\ c.heap[c.heap[c.acked_clusters[i]].next].acked
               /\ c.heap[c.acked_clusters[i]].id = b.heap[ac[i + 1]].id
    <3> DEFINE e == ac[i + 1]
               y == b.heap[e].next
    <3>1. c.acked_clusters[i] = e /\ i + 1 \in DOMAIN ac /\ 1 < i + 1
      BY <1>3, <1>5
    <3>2. e \in DOMAIN b.heap /\ y # 0 /\ b.heap[y].acked /\ top < b.heap[e].id
      BY <1>1, <1>5, <1>6, <3>1 DEF Estimated, ac, h
    <3>3. y \in DOMAIN b.heap /\ b.heap[e].id < b.heap[y].id
      BY <1>1, <3>2 DEF Linked
    <3> HIDE DEF e
    <3>4. e \in DOMAIN c.heap /\ y \in DOMAIN c.heap
      BY <1>4, <1>8, <1>10, <3>2, <3>3
    <3>5. c.heap[e].next = y
      BY <1>11, <3>4
    <3> HIDE DEF y
    <3>6. QED
      BY <1>11, <3>1, <3>2, <3>4, <3>5 DEF e
  <2>3. ASSUME NEW i \in DOMAIN c.acked_clusters, NEW j \in DOMAIN c.acked_clusters, i < j
        PROVE  c.heap[c.acked_clusters[i]].id < c.heap[c.acked_clusters[j]].id
    <3>1. i + 1 \in DOMAIN ac /\ j + 1 \in DOMAIN ac /\ i + 1 < j + 1
      BY <1>3, <1>5, <2>3
    <3>2. b.heap[ac[i + 1]].id < b.heap[ac[j + 1]].id
      BY <1>1, <3>1 DEF Estimated, ac
    <3>3. QED
      BY <2>2, <3>2
  <2>4. QED
    BY <2>1, <2>2, <2>3 DEF Estimated
<1>18. Found(c, nxt, ack)
  <2> SUFFICES ASSUME NEW p \in DOMAIN b.seq_round_map
               PROVE  /\ p < nxt
                      /\ p > ack =>
                           LET a == c.connection_info[b.seq_round_map[p]]
                           IN  /\ b.seq_round_map[p] \in DOMAIN c.connection_info
                               /\ a <= p /\ p < a + c.heap[a].size
    BY <1>3 DEF Found
  <2> DEFINE r == b.seq_round_map[p]
             a == b.connection_info[r]
  <2>1. p \in Nat /\ p < nxt
    BY <1>1 DEF Found, Members
  <2>2. ASSUME p > ack
        PROVE  /\ r \in DOMAIN b.connection_info /\ a \in DOMAIN b.heap /\ b.heap[a].id = r
               /\ a <= p /\ p < a + b.heap[a].size
    BY <1>1, <2>2 DEF Found, Owned
  <2> HIDE DEF r, a
  <2>3. ASSUME p > ack PROVE r > top
    <3> SUFFICES ASSUME ~(r > top) PROVE FALSE
      OBVIOUS
    <3>1. b.heap[a].id < b.heap[x].id
      BY <1>4, <1>7, <1>8, <2>2, <2>3
    <3>2. a + b.heap[a].size <= x
      BY <1>1, <1>7, <2>2, <2>3, <3>1 DEF Layout
    <3>3. QED
      BY <1>1, <1>4, <1>7, <2>1, <2>2, <2>3, <3>2
  <2>4. ASSUME p > ack
        PROVE  /\ r \in DOMAIN c.connection_info /\ c.connection_info[r] = a
               /\ c.heap[a].size = b.heap[a].size
    <3>1. r \in DOMAIN c.connection_info /\ a \in DOMAIN c.heap
      BY <1>10, <1>12, <2>2, <2>3, <2>4
    <3>2. c.heap[a].size = b.heap[a].size
      BY <1>11, <3>1
    <3>3. QED
      BY <1>12, <3>1, <3>2 DEF a
  <2>5. QED
    BY <2>1, <2>2, <2>4 DEF r
<1>19. Idle(c)
  <2>1. b.mode = "PROBE_BW"
    BY <1>1 DEF Idle
  <2>2. QED
    BY <1>3, <2>1 DEF Idle
<1>20. QED
  BY <1>1, <1>3, <1>5, <1>13, <1>14, <1>15, <1>16, <1>17, <1>18, <1>19 DEF ClustersOK, c, ac

(***************************************************************************)
(* The loop at the end of OnAck: one estimate more than the average keeps  *)
(* is released, so fewer than the window are left.                         *)
(***************************************************************************)
LEMMA ReleaseStaleKeeps ==
  ASSUME NEW b, NEW nxt, NEW ack, ClustersOK(b, nxt, ack),
         Len(b.acked_clusters) <= AverageAckRateWindowSize
  PROVE  /\ ClustersOK(ReleaseStale(b), nxt, ack)
         /\ Len(ReleaseStale(b).acked_clusters) < AverageAckRateWindowSize
<1> DEFINE stale == Len(b.acked_clusters) - (AverageAckRateWindowSize - 1)
<1>1. /\ AverageAckRateWindowSize \in Nat \ {0} /\ Len(b.acked_clusters) \in Nat
      /\ stale \in Int /\ stale <= 1 /\ b.acked_clusters \in Seq(Nat)
  BY ClusterAssumption DEF ClustersOK, Members
<1>2. CASE ~(stale > 0)
  <2>1. ReleaseStale(b) = b
    BY <1>2 DEF ReleaseStale
  <2>2. QED
    BY <1>1, <1>2, <2>1
<1>3. CASE stale > 0
  <2>1. stale = 1 /\ Len(b.acked_clusters) = AverageAckRateWindowSize /\ b.acked_clusters # <<>>
    BY <1>1, <1>3
  <2> DEFINE F(f)  == [n \in 0..stale |-> IF n = 0 THEN b ELSE Release(f[n-1])]
             after == CHOOSE f : f = F(f)
             once  == [n \in 0..stale |-> IF n = 0 THEN b ELSE Release(b)]
  <2>2. ReleaseStale(b) = after[stale]
    BY <1>3 DEF ReleaseStale
  <2>3. once = F(once)
    <3> HIDE DEF stale
    <3>1. \A n \in 0..stale : n = 0 \/ n - 1 = 0
      BY <2>1
    <3>2. QED
      BY <2>1, <3>1
  <2> HIDE DEF once
  <2>4. after = F(after)
    BY <2>3
  <2> HIDE DEF after, stale
  <2>5. after[0] = b
    BY <2>1, <2>4
  <2>6. after[1] = Release(after[0])
    BY <2>1, <2>4
  <2>7. ReleaseStale(b) = Release(b)
    BY <2>1, <2>2, <2>5, <2>6
  <2>8. /\ ClustersOK(Release(b), nxt, ack)
        /\ Len(Release(b).acked_clusters) = Len(b.acked_clusters) - 1
    BY <2>1, ReleaseKeeps
  <2>9. Len(Release(b).acked_clusters) < AverageAckRateWindowSize
    BY <1>1, <2>1, <2>8
  <2>10. QED
    BY <2>7, <2>8, <2>9
<1>4. QED
  BY <1>2, <1>3

-----------------------------------------------------------------------------
(***************************************************************************)
(* The invariant holds of a controller just made.                          *)
(***************************************************************************)
LEMMA InitClusters == Init => IInv
<1> SUFFICES ASSUME Init PROVE IInv
  OBVIOUS
<1>1. /\ DOMAIN bbr.heap = {} /\ DOMAIN bbr.connection_info = {}
      /\ DOMAIN bbr.seq_round_map = {} /\ bbr.acked_clusters = <<>> /\ IsMembers(bbr)
      /\ bbr.mode = "START_UP" /\ bbr.round_trip_count = 0
      /\ next_seq = 1 /\ last_ack_seq = 0
  BY DEF Init, NoEntries, IsMembers
<1>2. bbr.acked_clusters \in Seq(Nat) /\ DOMAIN bbr.acked_clusters = {}
      /\ Len(bbr.acked_clusters) = 0
  BY <1>1
<1>3. Members(bbr)
  BY <1>1, <1>2 DEF Members
<1>4. Idle(bbr) /\ Owned(bbr) /\ Layout(bbr, next_seq) /\ Linked(bbr)
  BY <1>1 DEF Idle, Owned, Layout, Linked
<1>5. Estimated(bbr, last_ack_seq) /\ Found(bbr, next_seq, last_ack_seq)
  BY <1>1, <1>2 DEF Estimated, Found
<1>6. QED
  BY <1>1, <1>2, <1>3, <1>4, <1>5, ClusterAssumption DEF IInv, ClustersOK

(***************************************************************************)
(* OnPacketSent and OnAck preserve the invariant.                          *)
(***************************************************************************)
LEMMA NextClusters == IInv /\ [Next]_vars => IInv'
<1> SUFFICES ASSUME IInv, [Next]_vars PROVE IInv'
  OBVIOUS
<1>1. /\ ClustersOK(bbr, next_seq, last_ack_seq)
      /\ Len(bbr.acked_clusters) < AverageAckRateWindowSize
      /\ next_seq \in Nat \ {0} /\ last_ack_seq \in Nat /\ last_ack_seq < next_seq
      /\ Len(bbr.acked_clusters) \in Nat /\ AverageAckRateWindowSize \in Nat \ {0}
  BY ClusterAssumption DEF IInv, ClustersOK, Members
<1>2. CASE OnPacketSent
  <2>1. CASE bbr.mode = "PROBE_BW"
    <3>1. bbr' = AddPacketInfoSampler(bbr, next_seq) /\ next_seq' = next_seq + 1
          /\ last_ack_seq' = last_ack_seq
      BY <1>2, <2>1 DEF OnPacketSent
    <3>2. /\ ClustersOK(AddPacketInfoSampler(bbr, next_seq), next_seq + 1, last_ack_seq)
          /\ AddPacketInfoSampler(bbr, next_seq).acked_clusters = bbr.acked_clusters
      <4>1. CASE bbr.round_trip_count \in DOMAIN bbr.connection_info
        BY <1>1, <2>1, <4>1, GrowKeeps
      <4>2. CASE bbr.round_trip_count \notin DOMAIN bbr.connection_info
        BY <1>1, <2>1, <4>2, NewKeeps
      <4>3. QED
        BY <4>1, <4>2
    <3>3. QED
      BY <1>1, <3>1, <3>2 DEF IInv
  <2>2. CASE bbr.mode # "PROBE_BW"
    <3>1. bbr' = bbr /\ next_seq' = next_seq + 1 /\ last_ack_seq' = last_ack_seq
      BY <1>2, <2>2 DEF OnPacketSent
    <3>2. DOMAIN bbr.heap = {} /\ DOMAIN bbr.seq_round_map = {}
      BY <1>1, <2>2 DEF ClustersOK, Idle
    <3>3. Layout(bbr, next_seq + 1) /\ Found(bbr, next_seq + 1, last_ack_seq)
      BY <3>2 DEF Layout, Found
    <3>4. ClustersOK(bbr, next_seq + 1, last_ack_seq)
      BY <1>1, <3>3 DEF ClustersOK
    <3>5. QED
      BY <1>1, <3>1, <3>4 DEF IInv
  <2>3. QED
    BY <2>1, <2>2
<1>3. ASSUME NEW p \in 1 .. next_seq - 1, NEW advance \in BOOLEAN, NEW expired \in BOOLEAN,
             NEW exit \in BOOLEAN, NEW later \in BOOLEAN,
             OnAck(p, advance, expired, exit, later)
      PROVE  IInv'
  <2> DEFINE b1 == NextRound(bbr, advance)
             b2 == MaybeEnterOrExitProbeRtt(b1, expired, exit)
             b3 == AckSampled(b2, p, later)
  <2>1. bbr' = ReleaseStale(b3) /\ next_seq' = next_seq /\ last_ack_seq' = p
        /\ p > last_ack_seq /\ p \in Nat /\ p < next_seq
    BY <1>1, <1>3 DEF OnAck
  <2>2. ClustersOK(b1, next_seq, last_ack_seq) /\ b1.acked_clusters = bbr.acked_clusters
    BY <1>1, NextRoundKeeps
  <2> HIDE DEF b1
  <2>3. /\ ClustersOK(b2, next_seq, last_ack_seq)
        /\ b2.acked_clusters = b1.acked_clusters \/ b2.acked_clusters = <<>>
    BY <2>2, ProbeRttKeeps
  <2>4. Len(b2.acked_clusters) \in Nat /\ Len(b2.acked_clusters) < AverageAckRateWindowSize
    BY <1>1, <2>2, <2>3
  <2> HIDE DEF b2
  <2>5. /\ ClustersOK(b3, next_seq, p)
        /\ Len(b3.acked_clusters) \in {Len(b2.acked_clusters), Len(b2.acked_clusters) + 1}
    BY <2>1, <2>3, AckSampledKeeps
  <2> HIDE DEF b3
  <2>6. Len(b3.acked_clusters) <= AverageAckRateWindowSize
    BY <1>1, <2>4, <2>5
  <2>7. /\ ClustersOK(ReleaseStale(b3), next_seq, p)
        /\ Len(ReleaseStale(b3).acked_clusters) < AverageAckRateWindowSize
    BY <2>5, <2>6, ReleaseStaleKeeps
  <2>8. QED
    BY <2>1, <2>7 DEF IInv
<1>4. CASE UNCHANGED vars
  BY <1>1, <1>4 DEF IInv, vars
<1>5. QED
  BY <1>2, <1>3, <1>4 DEF Next

(***************************************************************************)
(* No pointer leads to a cluster that was released.                        *)
(***************************************************************************)
LEMMA ClustersArePointed == IInv => PointersLive
<1> SUFFICES ASSUME IInv PROVE PointersLive
  OBVIOUS
<1>1. Members(bbr) /\ Owned(bbr) /\ Linked(bbr) /\ Estimated(bbr, last_ack_seq)
  BY DEF IInv, ClustersOK
<1>2. DOMAIN bbr.heap = Clusters
  BY <1>1 DEF Owned, Clusters
<1>3. Range(bbr.acked_clusters) \subseteq Clusters
  BY <1>1, <1>2 DEF Estimated, Range
<1>4. \A a \in Clusters : {bbr.heap[a].prev, bbr.heap[a].next} \subseteq Clusters \cup {0}
  BY <1>1, <1>2 DEF Linked
<1>5. QED
  BY <1>2, <1>3, <1>4 DEF PointersLive

(***************************************************************************)
(* The acks to come find their packets, and the estimates are in order.    *)
(***************************************************************************)
LEMMA ClustersAreSampled == IInv => SamplesExact
<1> SUFFICES ASSUME IInv PROVE SamplesExact
  OBVIOUS
<1>1. /\ Members(bbr) /\ Owned(bbr) /\ Estimated(bbr, last_ack_seq)
      /\ Found(bbr, next_seq, last_ack_seq)
      /\ Len(bbr.acked_clusters) < AverageAckRateWindowSize
  BY DEF IInv, ClustersOK
<1>2. ASSUME NEW p \in DOMAIN bbr.seq_round_map, p > last_ack_seq
      PROVE  /\ bbr.seq_round_map[p] \in DOMAIN bbr.connection_info
             /\ LET a == bbr.connection_info[bbr.seq_round_map[p]]
                IN  p \in a .. a + bbr.heap[a].size - 1
  <2> DEFINE a == bbr.connection_info[bbr.seq_round_map[p]]
  <2>1. /\ bbr.seq_round_map[p] \in DOMAIN bbr.connection_info /\ a \in DOMAIN bbr.heap
        /\ a <= p /\ p < a + bbr.heap[a].size /\ p \in Nat
    BY <1>1, <1>2 DEF Found, Owned, Members
  <2> HIDE DEF a
  <2>2. a \in Nat /\ bbr.heap[a].size \in Nat
    BY <1>1, <2>1, ClusterTypes
  <2>3. p \in a .. a + bbr.heap[a].size - 1
    BY <2>1, <2>2
  <2>4. QED
    BY <2>1, <2>3 DEF a
<1>3. QED
  BY <1>1, <1>2 DEF SamplesExact, Estimated

(***************************************************************************)
(* For every window of the average and every order of sends and acks: the  *)
(* clusters that MyBbrSender releases leave no pointer to them, and an ack *)
(* finds the cluster of its packet.                                        *)
(***************************************************************************)
THEOREM ClustersCorrect == Spec => [](PointersLive /\ SamplesExact)
<1>1. IInv => PointersLive /\ SamplesExact
  BY ClustersArePointed, ClustersAreSampled
<1>2. QED
  BY <1>1, InitClusters, NextClusters, PTL DEF Spec
=============================================================================
