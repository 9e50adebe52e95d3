----------------------------- MODULE Topology -----------------------------
(***************************************************************************)
(* network/topology.rs, TopologyManager.  Its methods take &self or &mut   *)
(* self and never await, so each call is one step; callers may call them   *)
(* in any order, with any peer id and address (the service creates the     *)
(* manager but nothing registers connections yet).  An address stands for *)
(* its IP, which is all the manager reads of it.  f32 scores are a small   *)
(* ordered set of integers.                                                *)
(***************************************************************************)
EXTENDS Naturals, FiniteSets

CONSTANTS
    Peers,          \* peer ids
    Ips,            \* the IPs of the addresses callers pass
    Scores,         \* the scores callers pass to update_peer_score
    MaxInbound,     \* config.max_inbound
    MaxPeersPerIp,  \* config.max_peers_per_ip
    TargetOutbound, \* config.target_outbound
    CountBound      \* bound on each ip_connections count explored

\* The configurations give Scores as a set of naturals and the other
\* constants as naturals; no theorem of this module needs more.

VARIABLES
    inbound,        \* inbound_connections: peer id -> IP
    outbound,       \* outbound_connections: peer id -> IP
    ipConnections,  \* ip_connections: IP -> count, absent keys are 0
    preferred,      \* preferred_peers
    peerScores      \* peer_scores

vars == <<inbound, outbound, ipConnections, preferred, peerScores>>

PartialFunctions(D, R) == UNION {[S -> R] : S \in SUBSET D}

TypeOK ==
    /\ inbound \in PartialFunctions(Peers, Ips)
    /\ outbound \in PartialFunctions(Peers, Ips)
    /\ ipConnections \in PartialFunctions(Ips, 1..CountBound)
    /\ preferred \subseteq Peers
    /\ peerScores \in PartialFunctions(Peers, Scores)

IpCount(ip) == IF ip \in DOMAIN ipConnections THEN ipConnections[ip] ELSE 0

\* Map insertion, replacing the value of a present key.
Put(f, k, v) == [x \in DOMAIN f \cup {k} |-> IF x = k THEN v ELSE f[x]]

\* Map removal.
Drop(f, k) == [x \in DOMAIN f \ {k} |-> f[x]]

\* *ip_connections.entry(ip).or_insert(0) += 1.
Incremented(ic, ip) == Put(ic, ip, IF ip \in DOMAIN ic THEN ic[ip] + 1 ELSE 1)

\* Mutant: the count is decremented, but a key that reaches 0 is kept.
DecrementedKeepsZero(ic, ip) ==
    IF ip \notin DOMAIN ic THEN ic
    ELSE Put(ic, ip, IF ic[ip] = 0 THEN 0 ELSE ic[ip] - 1)

\* Mutant: the key is removed whether or not the count reached 0.
DecrementedDropsKey(ic, ip) == IF ip \notin DOMAIN ic THEN ic ELSE Drop(ic, ip)

\* count.saturating_sub(1), and the key removed when it reaches 0; an
\* absent key is left alone.
Decremented(ic, ip) ==
    IF ip \notin DOMAIN ic THEN ic
    ELSE IF ic[ip] <= 1 THEN Drop(ic, ip) ELSE Put(ic, ip, ic[ip] - 1)

\* can_accept_inbound(addr): below max_inbound, and the IP below
\* max_peers_per_ip.
CanAcceptInbound(ip) ==
    /\ ~(Cardinality(DOMAIN inbound) >= MaxInbound)
    /\ ~(IpCount(ip) >= MaxPeersPerIp)

\* needs_more_outbound.
NeedsMoreOutbound == Cardinality(DOMAIN outbound) < TargetOutbound

\* TopologyManager::new.
Init ==
    /\ inbound = [p \in {} |-> CHOOSE ip \in Ips : TRUE]
    /\ outbound = inbound
    /\ ipConnections = [ip \in {} |-> 1]
    /\ preferred = {}
    /\ peerScores = [p \in {} |-> CHOOSE s \in Scores : TRUE]

\* register_inbound(peer_id, addr).
RegisterInbound(p, ip) ==
    /\ IpCount(ip) < CountBound
    /\ inbound' = Put(inbound, p, ip)
    /\ ipConnections' = Incremented(ipConnections, ip)
    /\ UNCHANGED <<outbound, preferred, peerScores>>

\* register_outbound(peer_id, addr).
RegisterOutbound(p, ip) ==
    /\ IpCount(ip) < CountBound
    /\ outbound' = Put(outbound, p, ip)
    /\ ipConnections' = Incremented(ipConnections, ip)
    /\ UNCHANGED <<inbound, preferred, peerScores>>

\* remove_connection(peer_id): out of inbound_connections if there, else out
\* of outbound_connections if there, else return; then decrement the IP of
\* the address removed.
RemoveConnection(p) ==
    /\ p \in DOMAIN inbound \cup DOMAIN outbound
    /\ IF p \in DOMAIN inbound
       THEN /\ inbound' = Drop(inbound, p)
            /\ ipConnections' = Decremented(ipConnections, inbound[p])
            /\ UNCHANGED outbound
       ELSE /\ outbound' = Drop(outbound, p)
            /\ ipConnections' = Decremented(ipConnections, outbound[p])
            /\ UNCHANGED inbound
    /\ UNCHANGED <<preferred, peerScores>>

\* mark_preferred(peer_id).
MarkPreferred(p) ==
    /\ preferred' = preferred \cup {p}
    /\ UNCHANGED <<inbound, outbound, ipConnections, peerScores>>

\* update_peer_score(peer_id, score).
UpdatePeerScore(p, s) ==
    /\ peerScores' = Put(peerScores, p, s)
    /\ UNCHANGED <<inbound, outbound, ipConnections, preferred>>

Next ==
    \E p \in Peers :
       \/ \E ip \in Ips : RegisterInbound(p, ip) \/ RegisterOutbound(p, ip)
       \/ RemoveConnection(p)
       \/ MarkPreferred(p)
       \/ \E s \in Scores : UpdatePeerScore(p, s)

Spec == Init /\ [][Next]_vars

-----------------------------------------------------------------------------

\* The connections the manager holds at an IP, inbound and outbound.
EntriesAt(ip) ==
    Cardinality({p \in DOMAIN inbound : inbound[p] = ip})
      + Cardinality({p \in DOMAIN outbound : outbound[p] = ip})

\* can_accept_inbound never lets a connection past the per-IP cap that it
\* should refuse: whenever it answers yes for an IP, fewer than
\* max_peers_per_ip connections are held at that IP, whatever sequence of
\* registrations and removals came before (ip_connections never counts
\* fewer connections than the maps hold).
CapCheckSound ==
    \A ip \in Ips : CanAcceptInbound(ip) => EntriesAt(ip) < MaxPeersPerIp

\* Section 3 of the spec: every peer id the manager holds is in exactly one
\* of inbound_connections and outbound_connections, although
\* register_inbound and register_outbound never look at the other map.
ExactlyOneDirection == DOMAIN inbound \cap DOMAIN outbound = {}

\* Section 3 of the spec: ip_connections counts exactly the connections
\* held at each IP, although a second registration of a peer id replaces
\* its entry and still increments.
IpCountExact == \A ip \in Ips : IpCount(ip) = EntriesAt(ip)

=============================================================================
