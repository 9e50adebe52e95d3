------------------------------ MODULE Gossip_proofs ------------------------------
(***************************************************************************)
(* Proofs about GossipManager and its RecentMessages, for every set of     *)
(* peers and hashes, capacity, TTL, fan-out and number of rounds: the      *)
(* model stays well typed, the known-message set never exceeds its         *)
(* capacity, and gossip is only ever propagated to tracked peers that are  *)
(* not known to hold the message.                                          *)
(***************************************************************************)
EXTENDS Gossip, RecentMessages_proofs, FiniteSetTheorems, TLAPS

\* A sender is tracked with the hash, and tracking stays within the peers
\* and the hashes.
LEMMA TrackFacts ==
    ASSUME NEW t, NEW p, NEW h
    PROVE  /\ DOMAIN Track(t, p, h) = DOMAIN t \cup {p}
           /\ h \in Track(t, p, h)[p]
           /\ \A k \in DOMAIN t \ {p} : Track(t, p, h)[k] = t[k]
           /\ p \in DOMAIN t => Track(t, p, h)[p] = t[p] \cup {h}
           /\ p \notin DOMAIN t => Track(t, p, h)[p] = {h}
BY DEF Track

\* The propagation of a hash selects tracked peers that are not known to
\* hold it.
LEMMA PropagationFacts ==
    ASSUME NEW c, NEW t, NEW h, NEW sel \in Propagation(c, t, h)
    PROVE  /\ sel \subseteq DOMAIN t
           /\ \A q \in sel : h \notin t[q]
BY DEF Propagation, GossipSelections

-----------------------------------------------------------------------------
(* The invariants of process_incoming_gossip.                              *)

\* TypeOK with what the bound on the known set needs: a finite set of
\* keys within the capacity.
GossipInv ==
    /\ TypeOK
    /\ IsFiniteSet(DOMAIN seen)
    /\ RecentBound

LEMMA InitGossip == Init => GossipInv
<1>1. (CHOOSE h \in Hashes : TRUE) \in Hashes
  BY RecentMessagesAssumption
<1>2. DOMAIN [h \in {} |-> 0] = {}
  OBVIOUS
<1>. QED
  BY <1>1, <1>2, FS_EmptySet, RecentMessagesAssumption
  DEF Init, RMInit, GossipInv, TypeOK, RMTypeOK, Ops, RecentBound

LEMMA TickGossip ==
    ASSUME GossipInv, RMTick, UNCHANGED gsVars
    PROVE  GossipInv'
BY RecentMessagesAssumption
DEF GossipInv, TypeOK, RMTypeOK, RMTick, gsVars, RecentBound

\* The tracking map stays a map from peers to sets of hashes.
LEMMA TrackType ==
    ASSUME NEW t, DOMAIN t \subseteq Peers,
           \A k \in DOMAIN t : t[k] \subseteq Hashes,
           NEW p \in Peers, NEW h \in Hashes
    PROVE  /\ DOMAIN Track(t, p, h) \subseteq Peers
           /\ \A k \in DOMAIN Track(t, p, h) : Track(t, p, h)[k] \subseteq Hashes
BY DEF Track

LEMMA GossipStep ==
    ASSUME GossipInv, NEW p \in Peers, NEW h \in Hashes,
           ProcessIncomingGossip(p, h)
    PROVE  GossipInv'
<1>0. /\ DOMAIN tracking \subseteq Peers
      /\ \A k \in DOMAIN tracking : tracking[k] \subseteq Hashes
      /\ IsFiniteSet(DOMAIN seen) /\ Cardinality(DOMAIN seen) <= Capacity
      /\ \A k \in DOMAIN seen : seen[k] \in 0..TimeMax
      /\ now \in 0..TimeMax
      /\ DOMAIN seen \subseteq Hashes
      /\ messageCache \subseteq Hashes
  BY DEF GossipInv, TypeOK, RMTypeOK, RecentBound
<1>a. Cardinality(DOMAIN seen) \in Nat /\ Capacity \in Nat
  BY <1>0, FS_CardinalityType, RecentMessagesAssumption
<1>1. /\ DOMAIN tracking' \subseteq Peers
      /\ \A k \in DOMAIN tracking' : tracking'[k] \subseteq Hashes
  <2>1. tracking' = Track(tracking, p, h)
    BY DEF ProcessIncomingGossip, ProcessNew
  <2>. QED
    BY <1>0, <2>1, TrackType
<1>2. CASE h \in DOMAIN Cleanup(seen, now)
  <2>1. /\ seen' = Cleanup(seen, now)
        /\ lastOp' = [op |-> "contains", hash |-> h, answer |-> TRUE]
        /\ messageCache' = messageCache /\ lastGossip' = lastGossip
        /\ now' = now
    BY <1>2 DEF ProcessIncomingGossip
  <2>2. /\ DOMAIN seen' \subseteq DOMAIN seen /\ IsFiniteSet(DOMAIN seen')
        /\ Cardinality(DOMAIN seen') <= Cardinality(DOMAIN seen)
        /\ \A k \in DOMAIN seen' : seen'[k] = seen[k]
    BY <1>0, <2>1, CleanupFacts
  <2>3. Cardinality(DOMAIN seen') \in Nat
    BY <2>2, FS_CardinalityType
  <2>4. RMTypeOK'
    BY <1>0, <2>1, <2>2 DEF RMTypeOK, Ops
  <2>5. RecentBound'
    BY <1>0, <1>a, <2>2, <2>3 DEF RecentBound
  <2>. QED
    BY <1>1, <2>1, <2>2, <2>4, <2>5 DEF GossipInv, TypeOK
<1>3. CASE h \notin DOMAIN Cleanup(seen, now)
  <2>1. /\ seen' \in InsertResults(seen, h, now)
        /\ messageCache' = messageCache \cup {h}
        /\ \E sel \in Propagation(messageCache', tracking', h) :
              lastGossip' = [from |-> p, hash |-> h, peers |-> sel]
        /\ lastOp' = [op |-> "insert", hash |-> h, answer |-> FALSE]
        /\ now' = now
    BY <1>3 DEF ProcessIncomingGossip, ProcessNew, LruPut
  <2>2. /\ IsFiniteSet(DOMAIN seen')
        /\ Cardinality(DOMAIN seen') <= Capacity
    BY <1>0, <2>1, InsertBound
  <2>3. /\ DOMAIN seen' \subseteq DOMAIN seen \cup {h}
        /\ \A k \in DOMAIN seen' :
              seen'[k] = now \/ (k \in DOMAIN seen /\ seen'[k] = seen[k])
    BY <2>1, InsertValues
  <2>4. lastGossip' \in [from : Peers \cup {"none"},
                         hash : Hashes \cup {"none"}, peers : SUBSET Peers]
    <3>1. PICK sel \in Propagation(messageCache', tracking', h) :
             lastGossip' = [from |-> p, hash |-> h, peers |-> sel]
      BY <2>1
    <3>2. sel \subseteq DOMAIN tracking'
      BY PropagationFacts
    <3>. QED
      BY <1>1, <3>1, <3>2
  <2>. QED
    BY <1>0, <1>1, <2>1, <2>2, <2>3, <2>4
    DEF GossipInv, TypeOK, RMTypeOK, Ops, RecentBound
<1>. QED
  BY <1>2, <1>3

LEMMA NextGossip == GossipInv /\ [Next]_vars => GossipInv'
<1>. SUFFICES ASSUME GossipInv, [Next]_vars PROVE GossipInv'
  OBVIOUS
<1>1. CASE RMTick /\ UNCHANGED gsVars
  BY <1>1, TickGossip
<1>2. CASE \E p \in Peers, h \in Hashes : ProcessIncomingGossip(p, h)
  BY <1>2, GossipStep
<1>3. CASE UNCHANGED vars
  BY <1>3 DEF GossipInv, TypeOK, RMTypeOK, RecentBound, vars, rmVars, gsVars
<1>. QED
  BY <1>1, <1>2, <1>3 DEF Next

LEMMA GossipInvariant == Spec => []GossipInv
BY InitGossip, NextGossip, PTL DEF Spec

\* process_incoming_gossip keeps every piece of GossipManager's state
\* well typed, for any peers, hashes and limits.
THEOREM GossipTypeCorrect == Spec => []TypeOK
BY GossipInvariant, PTL DEF GossipInv

\* The known-message set never holds more than its capacity: insert
\* evicts an oldest entry when cleanup leaves it full, for any capacity
\* the code can pass, any TTL and any order of arrivals and ticks.
THEOREM RecentBoundHolds == Spec => []RecentBound
BY GossipInvariant, PTL DEF GossipInv

\* A step that changes lastGossip schedules the propagation of a new
\* message, to peers the tracking does not show holding it.
LEMMA GossipStepUnaware ==
    ASSUME GossipInv, [Next]_vars
    PROVE  [lastGossip' # lastGossip =>
              \A q \in lastGossip'.peers :
                 /\ q # lastGossip'.from
                 /\ lastGossip'.hash \notin tracking'[q]]_vars
<1>1. CASE RMTick /\ UNCHANGED gsVars
  BY <1>1 DEF gsVars
<1>2. ASSUME NEW p \in Peers, NEW h \in Hashes, ProcessIncomingGossip(p, h)
      PROVE  lastGossip' # lastGossip =>
                \A q \in lastGossip'.peers :
                   /\ q # lastGossip'.from
                   /\ lastGossip'.hash \notin tracking'[q]
  <2>1. CASE h \in DOMAIN Cleanup(seen, now)
    BY <1>2, <2>1 DEF ProcessIncomingGossip
  <2>2. CASE h \notin DOMAIN Cleanup(seen, now)
    <3>1. tracking' = Track(tracking, p, h)
      BY <1>2 DEF ProcessIncomingGossip, ProcessNew
    <3>2. PICK sel \in Propagation(messageCache', tracking', h) :
             lastGossip' = [from |-> p, hash |-> h, peers |-> sel]
      BY <1>2, <2>2 DEF ProcessIncomingGossip, ProcessNew
    <3>3. /\ sel \subseteq DOMAIN tracking'
          /\ \A q \in sel : h \notin tracking'[q]
      BY PropagationFacts
    <3>4. h \in tracking'[p]
      BY <3>1, TrackFacts
    <3>. QED
      BY <3>2, <3>3, <3>4
  <2>. QED
    BY <2>1, <2>2
<1>3. CASE UNCHANGED vars
  BY <1>3 DEF vars, gsVars
<1>. QED
  BY <1>1, <1>2, <1>3 DEF Next

\* Gossip is scheduled only to tracked peers not known to hold the message,
\* and never back to its sender: GossipToUnaware, which gossip_select
\* checks, for any peers, hashes, fan-out and number of rounds.
THEOREM GossipToUnawareHolds == Spec => GossipToUnaware
BY GossipInvariant, GossipStepUnaware, PTL DEF GossipToUnaware, Spec
=============================================================================
