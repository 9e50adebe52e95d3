---------------------------- MODULE Topology_proofs ----------------------------
(***************************************************************************)
(* Proofs about TopologyManager, for every set of peers and IPs, every     *)
(* limit and every bound on the counts: ip_connections never counts fewer *)
(* connections at an IP than the two maps hold there, although a second   *)
(* registration of a peer id replaces its entry and still increments, and *)
(* so can_accept_inbound never says yes to an IP already at its cap.      *)
(***************************************************************************)
EXTENDS Topology, FiniteSetTheorems, TLAPS

\* The peers a map holds at an IP.
At(f, ip) == {p \in DOMAIN f : f[p] = ip}

\* A count of a map from IPs, absent keys being 0.
Cnt(ic, ip) == IF ip \in DOMAIN ic THEN ic[ip] ELSE 0

\* ip_connections never counts fewer connections than the maps hold.
CountCovers == \A ip \in Ips : IpCount(ip) >= EntriesAt(ip)

TopoInv ==
    /\ TypeOK
    /\ IsFiniteSet(DOMAIN inbound)
    /\ IsFiniteSet(DOMAIN outbound)
    /\ CountCovers

-----------------------------------------------------------------------------
(* Maps.                                                                   *)

LEMMA PartialFacts ==
    ASSUME NEW D, NEW R, NEW f \in PartialFunctions(D, R)
    PROVE  /\ f = [x \in DOMAIN f |-> f[x]]
           /\ DOMAIN f \subseteq D
           /\ \A x \in DOMAIN f : f[x] \in R
BY DEF PartialFunctions

LEMMA PutPartial ==
    ASSUME NEW D, NEW R, NEW f \in PartialFunctions(D, R),
           NEW k \in D, NEW v \in R
    PROVE  Put(f, k, v) \in PartialFunctions(D, R)
<1>1. /\ DOMAIN f \cup {k} \in SUBSET D
      /\ Put(f, k, v) \in [DOMAIN f \cup {k} -> R]
  BY PartialFacts DEF Put
<1>. QED
  BY <1>1 DEF PartialFunctions

LEMMA DropPartial ==
    ASSUME NEW D, NEW R, NEW f \in PartialFunctions(D, R), NEW k
    PROVE  Drop(f, k) \in PartialFunctions(D, R)
<1>1. /\ DOMAIN f \ {k} \in SUBSET D
      /\ Drop(f, k) \in [DOMAIN f \ {k} -> R]
  BY PartialFacts DEF Drop
<1>. QED
  BY <1>1 DEF PartialFunctions

LEMMA AtFinite ==
    ASSUME NEW f, IsFiniteSet(DOMAIN f), NEW ip
    PROVE  /\ IsFiniteSet(At(f, ip))
           /\ Cardinality(At(f, ip)) \in Nat
<1>1. At(f, ip) \subseteq DOMAIN f
  BY DEF At
<1>. QED
  BY <1>1, FS_Subset, FS_CardinalityType

\* Storing a peer adds it at most at the IP it is stored with.
LEMMA AtPut ==
    ASSUME NEW f, IsFiniteSet(DOMAIN f), NEW k, NEW v, NEW ip
    PROVE  /\ IsFiniteSet(DOMAIN Put(f, k, v))
           /\ Cardinality(At(Put(f, k, v), ip))
                <= Cardinality(At(f, ip)) + (IF v = ip THEN 1 ELSE 0)
<1>0. /\ IsFiniteSet(At(f, ip)) /\ Cardinality(At(f, ip)) \in Nat
  BY AtFinite
<1>1. DOMAIN Put(f, k, v) = DOMAIN f \cup {k}
  BY DEF Put
<1>2. IsFiniteSet(DOMAIN Put(f, k, v))
  BY <1>1, FS_AddElement
<1>3. CASE v = ip
  <2>0. At(Put(f, k, v), ip) \subseteq At(f, ip) \cup {k}
    BY DEF At, Put
  <2>1. /\ IsFiniteSet(At(f, ip) \cup {k})
        /\ Cardinality(At(f, ip) \cup {k})
             = IF k \in At(f, ip) THEN Cardinality(At(f, ip))
               ELSE Cardinality(At(f, ip)) + 1
    BY <1>0, FS_AddElement, Zenon
  <2>2. /\ IsFiniteSet(At(f, ip) \cup {k})
        /\ Cardinality(At(f, ip) \cup {k}) <= Cardinality(At(f, ip)) + 1
    BY <1>0, <2>1
  <2>3. Cardinality(At(Put(f, k, v), ip)) <= Cardinality(At(f, ip) \cup {k})
    BY <2>0, <2>2, FS_Subset
  <2>4. Cardinality(At(f, ip) \cup {k}) \in Nat
    BY <2>2, FS_CardinalityType
  <2>5. Cardinality(At(Put(f, k, v), ip)) \in Nat
    BY <1>2, AtFinite
  <2>. QED
    BY <1>0, <1>2, <1>3, <2>2, <2>3, <2>4, <2>5
<1>4. CASE v # ip
  <2>1. At(Put(f, k, v), ip) \subseteq At(f, ip)
    BY <1>4 DEF At, Put
  <2>. QED
    BY <1>0, <1>2, <1>4, <2>1, FS_Subset
<1>. QED
  BY <1>3, <1>4

\* Removing a peer removes it from the IP it was held at.
LEMMA AtDrop ==
    ASSUME NEW f, IsFiniteSet(DOMAIN f), NEW k \in DOMAIN f, NEW ip
    PROVE  /\ IsFiniteSet(DOMAIN Drop(f, k))
           /\ Cardinality(At(Drop(f, k), ip))
                = Cardinality(At(f, ip)) - (IF f[k] = ip THEN 1 ELSE 0)
<1>0. /\ IsFiniteSet(At(f, ip)) /\ Cardinality(At(f, ip)) \in Nat
  BY AtFinite
<1>1. DOMAIN Drop(f, k) = DOMAIN f \ {k}
  BY DEF Drop
<1>2. IsFiniteSet(DOMAIN Drop(f, k))
  BY <1>1, FS_RemoveElement
<1>3. At(Drop(f, k), ip) = At(f, ip) \ {k}
  BY DEF At, Drop
<1>4. CASE f[k] = ip
  <2>1. k \in At(f, ip)
    BY <1>4 DEF At
  <2>2. Cardinality(At(f, ip) \ {k}) = Cardinality(At(f, ip)) - 1
    BY <1>0, <2>1, FS_RemoveElement
  <2>. QED
    BY <1>2, <1>3, <1>4, <2>2
<1>5. CASE f[k] # ip
  <2>1. At(Drop(f, k), ip) = At(f, ip)
    BY <1>3, <1>5 DEF At
  <2>. QED
    BY <1>0, <1>2, <1>5, <2>1
<1>. QED
  BY <1>4, <1>5

\* *entry(ip).or_insert(0) += 1 adds one to the IP's count.
LEMMA IncrementedCnt ==
    ASSUME NEW ic, \A x \in DOMAIN ic : ic[x] \in Nat, NEW ip0, NEW ip
    PROVE  Cnt(Incremented(ic, ip0), ip) = Cnt(ic, ip) + (IF ip = ip0 THEN 1 ELSE 0)
BY DEF Cnt, Incremented, Put

\* The saturating decrement of a present positive count takes one from it.
LEMMA DecrementedCnt ==
    ASSUME NEW ic, \A x \in DOMAIN ic : ic[x] \in Nat,
           NEW ip0 \in DOMAIN ic, ic[ip0] >= 1, NEW ip
    PROVE  Cnt(Decremented(ic, ip0), ip) = Cnt(ic, ip) - (IF ip = ip0 THEN 1 ELSE 0)
BY DEF Cnt, Decremented, Put, Drop

-----------------------------------------------------------------------------
(* The invariant.  The counts are natural numbers and the limits usize     *)
(* values, which is all the proofs need of the constants.                  *)

TopoConstants == CountBound \in Nat /\ MaxPeersPerIp \in Nat

\* What TypeOK says of each map.
LEMMA TypeFacts ==
    ASSUME TypeOK
    PROVE  /\ DOMAIN inbound \subseteq Peers /\ \A q \in DOMAIN inbound : inbound[q] \in Ips
           /\ DOMAIN outbound \subseteq Peers /\ \A q \in DOMAIN outbound : outbound[q] \in Ips
           /\ \A i \in DOMAIN ipConnections : ipConnections[i] \in Nat /\ ipConnections[i] >= 1
<1>1. DOMAIN inbound \subseteq Peers /\ \A q \in DOMAIN inbound : inbound[q] \in Ips
  BY PartialFacts DEF TypeOK
<1>2. DOMAIN outbound \subseteq Peers /\ \A q \in DOMAIN outbound : outbound[q] \in Ips
  BY PartialFacts DEF TypeOK
<1>3. \A i \in DOMAIN ipConnections : ipConnections[i] \in 1..CountBound
  BY PartialFacts DEF TypeOK
<1>. QED
  BY <1>1, <1>2, <1>3

\* HashMap::new().
LEMMA EmptyPartial ==
    ASSUME NEW D, NEW R, NEW v
    PROVE  [x \in {} |-> v] \in PartialFunctions(D, R)
<1>1. {} \in SUBSET D /\ [x \in {} |-> v] \in [{} -> R]
  OBVIOUS
<1>. QED
  BY <1>1 DEF PartialFunctions

\* The two counts of an IP, in terms of the maps.
LEMMA EntriesFacts ==
    ASSUME NEW ip
    PROVE  /\ EntriesAt(ip) = Cardinality(At(inbound, ip)) + Cardinality(At(outbound, ip))
           /\ EntriesAt(ip)' = Cardinality(At(inbound', ip)) + Cardinality(At(outbound', ip))
           /\ IpCount(ip) = Cnt(ipConnections, ip)
           /\ IpCount(ip)' = Cnt(ipConnections', ip)
BY DEF EntriesAt, At, IpCount, Cnt

LEMMA InitTopo == Init => TopoInv
<1>. SUFFICES ASSUME Init PROVE TopoInv
  OBVIOUS
<1>1. DOMAIN inbound = {} /\ DOMAIN outbound = {} /\ DOMAIN ipConnections = {}
  BY DEF Init
<1>2. TypeOK
  BY EmptyPartial DEF Init, TypeOK
<1>3. ASSUME NEW ip \in Ips PROVE IpCount(ip) >= EntriesAt(ip)
  <2>1. At(inbound, ip) = {} /\ At(outbound, ip) = {}
    BY <1>1 DEF At
  <2>2. Cardinality(At(inbound, ip)) = 0 /\ Cardinality(At(outbound, ip)) = 0
    BY <2>1, FS_EmptySet, Zenon
  <2>3. IpCount(ip) = 0
    BY <1>1 DEF IpCount
  <2>4. EntriesAt(ip) = Cardinality(At(inbound, ip)) + Cardinality(At(outbound, ip))
    BY EntriesFacts
  <2>. QED
    BY <2>2, <2>3, <2>4
<1>. QED
  BY <1>1, <1>2, <1>3, FS_EmptySet DEF TopoInv, CountCovers

\* register_inbound and register_outbound: the map stores the peer at the
\* IP, which the count gains one for, whatever the map held for the peer.
LEMMA RegisterStep ==
    ASSUME TopoConstants, TopoInv, NEW p \in Peers, NEW ip0 \in Ips,
           RegisterInbound(p, ip0) \/ RegisterOutbound(p, ip0)
    PROVE  TopoInv'
<1>0. /\ inbound \in PartialFunctions(Peers, Ips)
      /\ outbound \in PartialFunctions(Peers, Ips)
      /\ ipConnections \in PartialFunctions(Ips, 1..CountBound)
      /\ \A i \in DOMAIN ipConnections : ipConnections[i] \in Nat
      /\ IsFiniteSet(DOMAIN inbound) /\ IsFiniteSet(DOMAIN outbound)
      /\ CountBound \in Nat
  BY TypeFacts DEF TopoInv, TypeOK, TopoConstants
<1>1. /\ IpCount(ip0) < CountBound
      /\ ipConnections' = Incremented(ipConnections, ip0)
      /\ UNCHANGED <<preferred, peerScores>>
  BY DEF RegisterInbound, RegisterOutbound
<1>2. ipConnections' \in PartialFunctions(Ips, 1..CountBound)
  <2>1. (IF ip0 \in DOMAIN ipConnections THEN ipConnections[ip0] + 1 ELSE 1)
          \in 1..CountBound
    BY <1>0, <1>1 DEF IpCount
  <2>. QED
    BY <1>0, <1>1, <2>1, PutPartial DEF Incremented
<1>3. \A ip \in Ips :
         IpCount(ip)' = IpCount(ip) + (IF ip = ip0 THEN 1 ELSE 0)
  BY <1>0, <1>1, IncrementedCnt, EntriesFacts
<1>4. CASE RegisterInbound(p, ip0)
  <2>1. inbound' = Put(inbound, p, ip0) /\ outbound' = outbound
    BY <1>4 DEF RegisterInbound
  <2>2. ASSUME NEW ip \in Ips PROVE IpCount(ip)' >= EntriesAt(ip)'
    <3>1. Cardinality(At(inbound', ip))
            <= Cardinality(At(inbound, ip)) + (IF ip0 = ip THEN 1 ELSE 0)
      BY <1>0, <2>1, AtPut
    <3>2. /\ Cardinality(At(inbound, ip)) \in Nat
          /\ Cardinality(At(outbound, ip)) \in Nat
      BY <1>0, AtFinite
    <3>3. IpCount(ip) >= EntriesAt(ip) /\ IpCount(ip) \in Nat
      BY <1>0 DEF TopoInv, CountCovers, IpCount
    <3>4. /\ EntriesAt(ip) = Cardinality(At(inbound, ip)) + Cardinality(At(outbound, ip))
          /\ EntriesAt(ip)' = Cardinality(At(inbound', ip)) + Cardinality(At(outbound', ip))
      BY EntriesFacts
    <3>5. IpCount(ip)' = IpCount(ip) + (IF ip = ip0 THEN 1 ELSE 0)
      BY <1>3
    <3>6. Cardinality(At(outbound', ip)) = Cardinality(At(outbound, ip))
      BY <2>1, Zenon
    <3>7. Cardinality(At(inbound', ip)) \in Nat
      BY <1>0, <2>1, AtPut, AtFinite
    <3>. QED
      BY <3>1, <3>2, <3>3, <3>4, <3>5, <3>6, <3>7
  <2>3. inbound' \in PartialFunctions(Peers, Ips) /\ IsFiniteSet(DOMAIN inbound')
    BY <1>0, <2>1, PutPartial, AtPut
  <2>. QED
    BY <1>0, <1>1, <1>2, <2>1, <2>2, <2>3 DEF TopoInv, TypeOK, CountCovers
<1>5. CASE RegisterOutbound(p, ip0)
  <2>1. outbound' = Put(outbound, p, ip0) /\ inbound' = inbound
    BY <1>5 DEF RegisterOutbound
  <2>2. ASSUME NEW ip \in Ips PROVE IpCount(ip)' >= EntriesAt(ip)'
    <3>1. Cardinality(At(outbound', ip))
            <= Cardinality(At(outbound, ip)) + (IF ip0 = ip THEN 1 ELSE 0)
      BY <1>0, <2>1, AtPut
    <3>2. /\ Cardinality(At(inbound, ip)) \in Nat
          /\ Cardinality(At(outbound, ip)) \in Nat
      BY <1>0, AtFinite
    <3>3. IpCount(ip) >= EntriesAt(ip) /\ IpCount(ip) \in Nat
      BY <1>0 DEF TopoInv, CountCovers, IpCount
    <3>4. /\ EntriesAt(ip) = Cardinality(At(inbound, ip)) + Cardinality(At(outbound, ip))
          /\ EntriesAt(ip)' = Cardinality(At(inbound', ip)) + Cardinality(At(outbound', ip))
      BY EntriesFacts
    <3>5. IpCount(ip)' = IpCount(ip) + (IF ip = ip0 THEN 1 ELSE 0)
      BY <1>3
    <3>6. Cardinality(At(inbound', ip)) = Cardinality(At(inbound, ip))
      BY <2>1, Zenon
    <3>7. Cardinality(At(outbound', ip)) \in Nat
      BY <1>0, <2>1, AtPut, AtFinite
    <3>. QED
      BY <3>1, <3>2, <3>3, <3>4, <3>5, <3>6, <3>7
  <2>3. outbound' \in PartialFunctions(Peers, Ips) /\ IsFiniteSet(DOMAIN outbound')
    BY <1>0, <2>1, PutPartial, AtPut
  <2>. QED
    BY <1>0, <1>1, <1>2, <2>1, <2>2, <2>3 DEF TopoInv, TypeOK, CountCovers
<1>. QED
  BY <1>4, <1>5

\* remove_connection: the peer leaves the map that held it, and the count
\* of the IP it was held at loses one, which the invariant shows present.
LEMMA RemoveStep ==
    ASSUME TopoConstants, TopoInv, NEW p \in Peers, RemoveConnection(p)
    PROVE  TopoInv'
<1>0. /\ inbound \in PartialFunctions(Peers, Ips)
      /\ outbound \in PartialFunctions(Peers, Ips)
      /\ ipConnections \in PartialFunctions(Ips, 1..CountBound)
      /\ \A q \in DOMAIN inbound : inbound[q] \in Ips
      /\ \A q \in DOMAIN outbound : outbound[q] \in Ips
      /\ \A i \in DOMAIN ipConnections : ipConnections[i] \in Nat
      /\ IsFiniteSet(DOMAIN inbound) /\ IsFiniteSet(DOMAIN outbound)
      /\ CountBound \in Nat
  BY TypeFacts DEF TopoInv, TypeOK, TopoConstants
<1>1. CASE p \in DOMAIN inbound
  <2>0. PICK ip0 \in Ips : ip0 = inbound[p]
    BY <1>0, <1>1
  <2>1. /\ inbound' = Drop(inbound, p) /\ outbound' = outbound
        /\ ipConnections' = Decremented(ipConnections, ip0)
        /\ UNCHANGED <<preferred, peerScores>>
    BY <1>1, <2>0 DEF RemoveConnection
  <2>2. /\ IsFiniteSet(DOMAIN inbound')
        /\ \A ip : Cardinality(At(inbound', ip))
                      = Cardinality(At(inbound, ip)) - (IF ip0 = ip THEN 1 ELSE 0)
    BY <1>0, <1>1, <2>0, <2>1, AtDrop
  <2>3. /\ \A ip : Cardinality(At(inbound', ip)) \in Nat
        /\ \A ip : Cardinality(At(inbound, ip)) \in Nat
        /\ \A ip : Cardinality(At(outbound, ip)) \in Nat
    BY <1>0, <2>2, AtFinite
  <2>4. Cardinality(At(inbound, ip0)) >= 1
    BY <2>2, <2>3
  <2>5. ip0 \in DOMAIN ipConnections /\ ipConnections[ip0] >= 1
    <3>1. IpCount(ip0) >= EntriesAt(ip0)
      BY DEF TopoInv, CountCovers
    <3>. QED
      BY <1>0, <2>3, <2>4, <3>1, EntriesFacts DEF Cnt
  <2>6. \A ip \in Ips : IpCount(ip)' = IpCount(ip) - (IF ip = ip0 THEN 1 ELSE 0)
    BY <1>0, <2>1, <2>5, DecrementedCnt, EntriesFacts
  <2>7. ipConnections' \in PartialFunctions(Ips, 1..CountBound)
    <3>1. CASE ipConnections[ip0] <= 1
      BY <1>0, <2>1, <2>5, <3>1, DropPartial DEF Decremented
    <3>2. CASE ~(ipConnections[ip0] <= 1)
      <4>0. ipConnections[ip0] \in 1..CountBound
        BY <1>0, <2>5, PartialFacts
      <4>1. ipConnections[ip0] - 1 \in 1..CountBound
        BY <1>0, <3>2, <4>0
      <4>. QED
        BY <1>0, <2>1, <2>5, <3>2, <4>1, PutPartial DEF Decremented
    <3>. QED
      BY <3>1, <3>2
  <2>8. ASSUME NEW ip \in Ips PROVE IpCount(ip)' >= EntriesAt(ip)'
    <3>1. IpCount(ip) >= EntriesAt(ip) /\ IpCount(ip) \in Nat
      BY <1>0 DEF TopoInv, CountCovers, IpCount
    <3>2. /\ EntriesAt(ip) = Cardinality(At(inbound, ip)) + Cardinality(At(outbound, ip))
          /\ EntriesAt(ip)' = Cardinality(At(inbound', ip)) + Cardinality(At(outbound', ip))
      BY EntriesFacts
    <3>3. Cardinality(At(outbound', ip)) = Cardinality(At(outbound, ip))
      BY <2>1, Zenon
    <3>. QED
      BY <2>2, <2>3, <2>6, <3>1, <3>2, <3>3
  <2>9. inbound' \in PartialFunctions(Peers, Ips)
    BY <1>0, <2>1, DropPartial
  <2>. QED
    BY <1>0, <2>1, <2>2, <2>7, <2>8, <2>9 DEF TopoInv, TypeOK, CountCovers
<1>2. CASE p \notin DOMAIN inbound /\ p \in DOMAIN outbound
  <2>0. PICK ip0 \in Ips : ip0 = outbound[p]
    BY <1>0, <1>2
  <2>1. /\ outbound' = Drop(outbound, p) /\ inbound' = inbound
        /\ ipConnections' = Decremented(ipConnections, ip0)
        /\ UNCHANGED <<preferred, peerScores>>
    BY <1>2, <2>0 DEF RemoveConnection
  <2>2. /\ IsFiniteSet(DOMAIN outbound')
        /\ \A ip : Cardinality(At(outbound', ip))
                      = Cardinality(At(outbound, ip)) - (IF ip0 = ip THEN 1 ELSE 0)
    BY <1>0, <1>2, <2>0, <2>1, AtDrop
  <2>3. /\ \A ip : Cardinality(At(outbound', ip)) \in Nat
        /\ \A ip : Cardinality(At(outbound, ip)) \in Nat
        /\ \A ip : Cardinality(At(inbound, ip)) \in Nat
    BY <1>0, <2>2, AtFinite
  <2>4. Cardinality(At(outbound, ip0)) >= 1
    BY <2>2, <2>3
  <2>5. ip0 \in DOMAIN ipConnections /\ ipConnections[ip0] >= 1
    <3>1. IpCount(ip0) >= EntriesAt(ip0)
      BY DEF TopoInv, CountCovers
    <3>. QED
      BY <1>0, <2>3, <2>4, <3>1, EntriesFacts DEF Cnt
  <2>6. \A ip \in Ips : IpCount(ip)' = IpCount(ip) - (IF ip = ip0 THEN 1 ELSE 0)
    BY <1>0, <2>1, <2>5, DecrementedCnt, EntriesFacts
  <2>7. ipConnections' \in PartialFunctions(Ips, 1..CountBound)
    <3>1. CASE ipConnections[ip0] <= 1
      BY <1>0, <2>1, <2>5, <3>1, DropPartial DEF Decremented
    <3>2. CASE ~(ipConnections[ip0] <= 1)
      <4>0. ipConnections[ip0] \in 1..CountBound
        BY <1>0, <2>5, PartialFacts
      <4>1. ipConnections[ip0] - 1 \in 1..CountBound
        BY <1>0, <3>2, <4>0
      <4>. QED
        BY <1>0, <2>1, <2>5, <3>2, <4>1, PutPartial DEF Decremented
    <3>. QED
      BY <3>1, <3>2
  <2>8. ASSUME NEW ip \in Ips PROVE IpCount(ip)' >= EntriesAt(ip)'
    <3>1. IpCount(ip) >= EntriesAt(ip) /\ IpCount(ip) \in Nat
      BY <1>0 DEF TopoInv, CountCovers, IpCount
    <3>2. /\ EntriesAt(ip) = Cardinality(At(inbound, ip)) + Cardinality(At(outbound, ip))
          /\ EntriesAt(ip)' = Cardinality(At(inbound', ip)) + Cardinality(At(outbound', ip))
      BY EntriesFacts
    <3>3. Cardinality(At(inbound', ip)) = Cardinality(At(inbound, ip))
      BY <2>1, Zenon
    <3>. QED
      BY <2>2, <2>3, <2>6, <3>1, <3>2, <3>3
  <2>9. outbound' \in PartialFunctions(Peers, Ips)
    BY <1>0, <2>1, DropPartial
  <2>. QED
    BY <1>0, <2>1, <2>2, <2>7, <2>8, <2>9 DEF TopoInv, TypeOK, CountCovers
<1>. QED
  BY <1>1, <1>2 DEF RemoveConnection

\* mark_preferred and update_peer_score leave the maps and the counts.
LEMMA PreferStep ==
    ASSUME TopoInv, NEW p \in Peers,
           MarkPreferred(p) \/ \E s \in Scores : UpdatePeerScore(p, s)
    PROVE  TopoInv'
<1>1. CASE MarkPreferred(p)
  BY <1>1 DEF MarkPreferred, TopoInv, TypeOK, CountCovers, EntriesAt, IpCount
<1>2. ASSUME NEW s \in Scores, UpdatePeerScore(p, s) PROVE TopoInv'
  <2>1. peerScores' \in PartialFunctions(Peers, Scores)
    BY <1>2, PutPartial DEF UpdatePeerScore, TopoInv, TypeOK
  <2>. QED
    BY <1>2, <2>1 DEF UpdatePeerScore, TopoInv, TypeOK, CountCovers, EntriesAt, IpCount
<1>. QED
  BY <1>1, <1>2

LEMMA NextTopo == TopoConstants /\ TopoInv /\ [Next]_vars => TopoInv'
<1>. SUFFICES ASSUME TopoConstants, TopoInv, [Next]_vars PROVE TopoInv'
  OBVIOUS
<1>1. ASSUME NEW p \in Peers, NEW ip \in Ips,
             RegisterInbound(p, ip) \/ RegisterOutbound(p, ip)
      PROVE  TopoInv'
  BY <1>1, RegisterStep
<1>2. ASSUME NEW p \in Peers, RemoveConnection(p) PROVE TopoInv'
  BY <1>2, RemoveStep
<1>3. ASSUME NEW p \in Peers,
             MarkPreferred(p) \/ \E s \in Scores : UpdatePeerScore(p, s)
      PROVE  TopoInv'
  BY <1>3, PreferStep
<1>4. CASE UNCHANGED vars
  BY <1>4 DEF vars, TopoInv, TypeOK, CountCovers, EntriesAt, IpCount
<1>. QED
  BY <1>1, <1>2, <1>3, <1>4 DEF Next

LEMMA TopoInvariant == TopoConstants => (Spec => []TopoInv)
<1>. SUFFICES ASSUME TopoConstants PROVE Spec => []TopoInv
  OBVIOUS
<1>1. Init => TopoInv
  BY InitTopo
<1>2. TopoInv /\ [Next]_vars => TopoInv'
  BY NextTopo
<1>. QED
  BY <1>1, <1>2, PTL DEF Spec

\* The cap check follows from the counts covering the maps.
LEMMA CapCheckFromCovers ==
    ASSUME TopoConstants, TopoInv
    PROVE  CapCheckSound
<1>. SUFFICES ASSUME NEW ip \in Ips, CanAcceptInbound(ip)
              PROVE  EntriesAt(ip) < MaxPeersPerIp
  BY DEF CapCheckSound
<1>1. /\ IpCount(ip) >= EntriesAt(ip)
      /\ IpCount(ip) \in Nat
  BY TypeFacts DEF TopoInv, CountCovers, IpCount
<1>2. /\ Cardinality(At(inbound, ip)) \in Nat
      /\ Cardinality(At(outbound, ip)) \in Nat
  BY AtFinite DEF TopoInv
<1>3. EntriesAt(ip) = Cardinality(At(inbound, ip)) + Cardinality(At(outbound, ip))
  BY EntriesFacts
<1>4. ~(IpCount(ip) >= MaxPeersPerIp)
  BY DEF CanAcceptInbound
<1>. QED
  BY <1>1, <1>2, <1>3, <1>4 DEF TopoConstants

\* The topology manager's maps, counts, preferred set and scores stay well
\* typed over any sequence of register, remove, mark and score calls, for
\* any peers, IPs and limits that are usize values.
THEOREM TopologyTypeCorrect ==
    ASSUME TopoConstants
    PROVE  Spec => []TypeOK
BY TopoInvariant, PTL DEF TopoInv

\* can_accept_inbound never answers yes for an IP that already holds
\* max_peers_per_ip connections (CapCheckSound), over any sequence of
\* register_inbound, register_outbound and remove_connection calls, double
\* registrations of a peer id and registrations in both maps included: the
\* per-IP count over-counts in those cases but never under-counts.
THEOREM CapCheckSoundHolds ==
    ASSUME TopoConstants
    PROVE  Spec => []CapCheckSound
<1>1. Spec => []TopoInv
  BY TopoInvariant
<1>2. TopoInv => CapCheckSound
  BY CapCheckFromCovers
<1>. QED
  BY <1>1, <1>2, PTL
=============================================================================
