------------------------------ MODULE Gossip ------------------------------
(***************************************************************************)
(* network/propagation.rs, GossipManager: process_incoming_gossip and the  *)
(* propagation it schedules.  Its methods take &mut self or &self, so a    *)
(* call is one step.  hash_bytes (a 64-bit DefaultHasher digest) is taken  *)
(* as injective on the messages explored, so a message is its own hash.    *)
(* The propagation only logs what it would send; the model records the     *)
(* peers it selects.                                                       *)
(***************************************************************************)
EXTENDS RecentMessages

CONSTANTS
    Peers,          \* peers gossip arrives from
    CacheSize,      \* cache_size of message_cache (1000 by default)
    Fanout,         \* gossip_factors.fanout (3)
    Rounds          \* gossip_factors.rounds (2)

ASSUME GossipAssumption ==
    /\ CacheSize \in Nat
    /\ Fanout \in Nat
    /\ Rounds \in Nat

VARIABLES
    messageCache,   \* the keys of message_cache (LruCache)
    tracking,       \* peer_message_tracking: the hashes each peer has
    lastGossip      \* the sender and the selected peers of the last message

gsVars == <<messageCache, tracking, lastGossip>>
vars == <<rmVars, gsVars>>

TypeOK ==
    /\ RMTypeOK
    /\ messageCache \subseteq Hashes
    /\ DOMAIN tracking \subseteq Peers
    /\ \A p \in DOMAIN tracking : tracking[p] \subseteq Hashes
    /\ lastGossip \in [from : Peers \cup {"none"}, hash : Hashes \cup {"none"},
                       peers : SUBSET Peers]

\* GossipManager::new: empty caches and tracking.
Init ==
    /\ RMInit
    /\ messageCache = {}
    /\ tracking = [p \in {} |-> {}]
    /\ lastGossip = [from |-> "none", hash |-> "none", peers |-> {}]

\* peer_message_tracking.entry(peer).or_insert_with(HashSet::new).insert(h).
Track(t, p, h) == [k \in DOMAIN t \cup {p} |->
                     IF k = p THEN (IF p \in DOMAIN t THEN t[p] ELSE {}) \cup {h}
                     ELSE t[k]]

\* select_gossip_peers(hash, fanout): the tracked peers not known to have
\* the hash, cut down to a random subset of fanout when there are more.
GossipSelections(t, h) ==
    LET cand == {p \in DOMAIN t : h \notin t[p]}
    IN  IF Cardinality(cand) > Fanout
        THEN {s \in SUBSET cand : Cardinality(s) = Fanout}
        ELSE {cand}

\* LruCache::put(key, value): at capacity the eviction branch does nothing
\* ("For now, just do nothing"), then the key is inserted.
LruPut(cache, h) == cache \cup {h}

\* schedule_gossip_propagation(hash, rounds): nothing for zero rounds or an
\* uncached message, else one selection of peers.
Propagation(cache, t, h) ==
    IF Rounds = 0 \/ h \notin cache THEN {{}} ELSE GossipSelections(t, h)

\* Mutant: the sender tracked only after the propagation is scheduled.
ProcessNewTrackedLate(p, h) ==
    /\ seen' \in InsertResults(seen, h, now)
    /\ messageCache' = LruPut(messageCache, h)
    /\ \E sel \in Propagation(messageCache', tracking, h) :
          lastGossip' = [from |-> p, hash |-> h, peers |-> sel]
    /\ tracking' = Track(tracking, p, h)

\* A new message: known_messages.insert, message_cache.put, track the sender, then schedule.
ProcessNew(p, h) ==
    /\ seen' \in InsertResults(seen, h, now)
    /\ messageCache' = LruPut(messageCache, h)
    /\ tracking' = Track(tracking, p, h)
    /\ \E sel \in Propagation(messageCache', tracking', h) :
          lastGossip' = [from |-> p, hash |-> h, peers |-> sel]

\* process_incoming_gossip(from_peer, message): a message known_messages
\* contains (after its cleanup) is only tracked for the sender; a new one
\* is handled by ProcessNew.
ProcessIncomingGossip(p, h) ==
    /\ IF h \in DOMAIN Cleanup(seen, now)
       THEN /\ seen' = Cleanup(seen, now)
            /\ tracking' = Track(tracking, p, h)
            /\ lastOp' = [op |-> "contains", hash |-> h, answer |-> TRUE]
            /\ UNCHANGED <<messageCache, lastGossip>>
       ELSE /\ ProcessNew(p, h)
            /\ lastOp' = [op |-> "insert", hash |-> h, answer |-> FALSE]
    /\ UNCHANGED now

Next ==
    \/ RMTick /\ UNCHANGED gsVars
    \/ \E p \in Peers, h \in Hashes : ProcessIncomingGossip(p, h)

Spec == Init /\ [][Next]_vars

-----------------------------------------------------------------------------

\* Spec section 4.9: gossip goes only to peers not yet marked as holding
\* the message; in particular never back to the peer it came from.
GossipToUnaware ==
    [][lastGossip' # lastGossip =>
         \A q \in lastGossip'.peers :
            /\ q # lastGossip'.from
            /\ lastGossip'.hash \notin tracking'[q]
      ]_vars

\* The LRU message cache holds at most cache_size messages.
CacheBound == Cardinality(messageCache) <= CacheSize
=============================================================================
