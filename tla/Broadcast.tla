----------------------------- MODULE Broadcast -----------------------------
(***************************************************************************)
(* network/propagation.rs, BroadcastManager::broadcast_message.  The       *)
(* service runs it under the write lock of its RwLock<BroadcastManager>    *)
(* (service.rs:558), so a broadcast is one step.  send_message_to_peer     *)
(* always succeeds, so a send is a delivery.  The selection policies that  *)
(* only order the peers (ValidatorPriority, Geographic) select all of      *)
(* them; the order is not modelled, nor peer_capabilities, which only the  *)
(* order depends on.  hash_message is a constant operator here: the model  *)
(* holds for any hash function, collisions included, and MC_Broadcast      *)
(* binds it to MessageCodec's HashMessage.                                 *)
(***************************************************************************)
EXTENDS RecentMessages

CONSTANTS
    Peers,              \* the keys of active_peers
    Msgs,               \* the messages the higher layer broadcasts
    Protocols,          \* the Protocol values
    ProtocolPolicies,   \* config.protocol_policies
    DefaultPolicy,      \* config.default_policy
    HashMessage(_)      \* hash_message

Policies ==
    [kind : {"AllPeers", "ValidatorPriority", "Geographic"}]
    \cup [kind : {"RandomSubset"}, num : Nat, den : Nat \ {0}, min : Nat]

ASSUME BroadcastAssumption ==
    /\ Hashes = {HashMessage(m) : m \in Msgs}
    /\ DOMAIN ProtocolPolicies \subseteq Protocols
    /\ \A p \in DOMAIN ProtocolPolicies : ProtocolPolicies[p] \in Policies
    /\ DefaultPolicy \in Policies

VARIABLES
    delivered,          \* the <<message, peer>> pairs sent so far
    lastSent,           \* the instant each message was last sent
    lastBroadcast       \* the protocol and the peers of the last send

bcVars == <<delivered, lastSent, lastBroadcast>>
vars == <<rmVars, bcVars>>

TypeOK ==
    /\ RMTypeOK
    /\ delivered \subseteq Msgs \X Peers
    /\ DOMAIN lastSent \subseteq Msgs
    /\ lastBroadcast \in [protocol : Protocols \cup {"none"}, peers : SUBSET Peers]

\* protocol_policies.get(&protocol).unwrap_or(&default_policy).
PolicyFor(protocol) ==
    IF protocol \in DOMAIN ProtocolPolicies
    THEN ProtocolPolicies[protocol] ELSE DefaultPolicy

\* select_random_peers: ((n as f32 * fraction) as usize).max(min).min(n),
\* for a fraction num / den that f32 holds exactly.
SelectCount(n, pol) ==
    LET c == (n * pol.num) \div pol.den
        atLeast == IF c < pol.min THEN pol.min ELSE c
    IN  IF atLeast < n THEN atLeast ELSE n

\* The sets of peers a policy can select from all the active peers.
Selections(pol) ==
    IF pol.kind = "RandomSubset"
    THEN {s \in SUBSET Peers : Cardinality(s) = SelectCount(Cardinality(Peers), pol)}
    ELSE {Peers}

\* BroadcastManager::new over a set of active peers, with a recent set of
\* capacity Capacity (1000 in the code) and TTL config.message_ttl.
Init ==
    /\ RMInit
    /\ delivered = {}
    /\ lastSent = [m \in {} |-> 0]
    /\ lastBroadcast = [protocol |-> "none", peers |-> {}]

\* Mutant: the recently_broadcast check left out.
DedupedBroadcastUnchecked(h) == FALSE

\* recently_broadcast.contains(&hash), with its cleanup.
DedupedBroadcast(h) == h \in DOMAIN Cleanup(seen, now)

\* broadcast_message(protocol, message): return if recently broadcast
\* (contains cleans the set up first); otherwise select peers by the
\* protocol's policy, send to each, and insert the hash.
BroadcastMessage(protocol, m) ==
    LET h == HashMessage(m)
        c == Cleanup(seen, now)
    IN  IF DedupedBroadcast(h)
        THEN /\ seen' = c
             /\ lastOp' = [op |-> "contains", hash |-> h, answer |-> TRUE]
             /\ UNCHANGED <<now, bcVars>>
        ELSE \E sel \in Selections(PolicyFor(protocol)) :
               /\ delivered' = delivered \cup ({m} \X sel)
               /\ lastSent' = [k \in DOMAIN lastSent \cup {m} |->
                                 IF k = m THEN now ELSE lastSent[k]]
               /\ lastBroadcast' = [protocol |-> protocol, peers |-> sel]
               /\ seen' \in InsertResults(c, h, now)
               /\ lastOp' = [op |-> "insert", hash |-> h, answer |-> FALSE]
               /\ UNCHANGED now

Next ==
    \/ RMTick /\ UNCHANGED bcVars
    \/ \E protocol \in Protocols, m \in Msgs : BroadcastMessage(protocol, m)

Spec == Init /\ [][Next]_vars

-----------------------------------------------------------------------------

\* A step of broadcast_message that sends a message with hash h (a tick
\* leaves lastOp as it was, but moves the clock).
SendsHash(h) == now' = now /\ lastOp'.op = "insert" /\ lastOp'.hash = h

\* Spec scenario S6 and message.rs insert: dedup suppresses a second
\* broadcast of a message within its TTL, except that a full recently
\* broadcast set evicts its oldest hash.  So broadcast_message sends a
\* message (or one with the same hash) again less than message_ttl after
\* it last sent it only when Capacity hashes stored at or after that send
\* are in the set: only a flood of newer broadcasts pushes it out.
NoResendWithinTtlUnlessFlooded ==
    [][\A m \in DOMAIN lastSent :
         (SendsHash(HashMessage(m)) /\ now - lastSent[m] < Ttl)
           => Cardinality(Newer(seen, lastSent[m])) >= Capacity
      ]_vars

\* Spec section 4.8 and scenario S6: a RandomSubset{fraction, min_peers}
\* broadcast to N peers reaches max(ceil(fraction * N), min_peers) of them.
RandomSubsetSize ==
    LET pol == PolicyFor(lastBroadcast.protocol)
        n == Cardinality(Peers)
        ceil == (n * pol.num + pol.den - 1) \div pol.den
    IN  (lastBroadcast.protocol # "none" /\ pol.kind = "RandomSubset") =>
           Cardinality(lastBroadcast.peers) = IF ceil < pol.min THEN pol.min ELSE ceil
=============================================================================
