---------------------------- MODULE Broadcast_proofs ----------------------------
(***************************************************************************)
(* Proofs about BroadcastManager::broadcast_message and its recently      *)
(* broadcast set, for every set of peers, messages and protocols, every   *)
(* policy table, capacity and TTL, and every hash function (collisions    *)
(* included): the model stays well typed, and a message is sent again    *)
(* before message_ttl has passed only once Capacity newer hashes fill the *)
(* recently broadcast set.                                                *)
(***************************************************************************)
EXTENDS Broadcast, RecentMessages_proofs, FiniteSetTheorems, TLAPS

\* The instants of the recent set and of the last sends are not in the
\* future.
TimesInv ==
    /\ TypeOK
    /\ \A h \in DOMAIN seen : seen[h] <= now
    /\ \A m \in DOMAIN lastSent : lastSent[m] \in 0..now

\* A message sent less than message_ttl ago has its hash in the recent
\* set, stored no earlier than the send, or the set holds Capacity hashes
\* stored at or after the send.
SentRememberedOrFlooded ==
    \A m \in DOMAIN lastSent :
        now - lastSent[m] < Ttl =>
            \/ /\ HashMessage(m) \in DOMAIN seen
               /\ lastSent[m] <= seen[HashMessage(m)]
            \/ Cardinality(Newer(seen, lastSent[m])) >= Capacity

\* Every message's hash is one of the hashes.
LEMMA HashInHashes ==
    ASSUME NEW m \in Msgs
    PROVE  HashMessage(m) \in Hashes
BY BroadcastAssumption

LEMMA InitTimes == Init => TimesInv /\ SentRememberedOrFlooded
<1>. SUFFICES ASSUME Init PROVE TimesInv /\ SentRememberedOrFlooded
  OBVIOUS
<1>1. (CHOOSE h \in Hashes : TRUE) \in Hashes
  BY RecentMessagesAssumption
<1>2. DOMAIN seen = {} /\ DOMAIN lastSent = {}
  BY DEF Init, RMInit
<1>3. RMTypeOK
  BY <1>1, <1>2, RecentMessagesAssumption DEF Init, RMInit, RMTypeOK, Ops
<1>4. /\ delivered \subseteq Msgs \X Peers
      /\ lastBroadcast \in [protocol : Protocols \cup {"none"}, peers : SUBSET Peers]
  BY DEF Init
<1>. QED
  BY <1>2, <1>3, <1>4 DEF TimesInv, TypeOK, SentRememberedOrFlooded

\* One broadcast_message call, in each of its two branches.
LEMMA BroadcastTimes ==
    ASSUME TimesInv, NEW p \in Protocols, NEW m0 \in Msgs,
           BroadcastMessage(p, m0)
    PROVE  TimesInv'
<1>0. /\ DOMAIN seen \subseteq Hashes
      /\ \A k \in DOMAIN seen : seen[k] \in 0..TimeMax /\ seen[k] <= now
      /\ now \in 0..TimeMax
      /\ delivered \subseteq Msgs \X Peers
      /\ DOMAIN lastSent \subseteq Msgs
      /\ \A m \in DOMAIN lastSent : lastSent[m] \in 0..now
      /\ HashMessage(m0) \in Hashes
  BY HashInHashes DEF TimesInv, TypeOK, RMTypeOK
<1>1. CASE DedupedBroadcast(HashMessage(m0))
  <2>1. /\ seen' = Cleanup(seen, now)
        /\ lastOp' = [op |-> "contains", hash |-> HashMessage(m0), answer |-> TRUE]
        /\ UNCHANGED <<now, delivered, lastSent, lastBroadcast>>
    BY <1>1 DEF BroadcastMessage, bcVars
  <2>2. /\ DOMAIN seen' \subseteq DOMAIN seen
        /\ \A k \in DOMAIN seen' : seen'[k] = seen[k]
    BY <2>1 DEF Cleanup
  <2>. QED
    BY <1>0, <2>1, <2>2 DEF TimesInv, TypeOK, RMTypeOK, Ops
<1>2. CASE ~DedupedBroadcast(HashMessage(m0))
  <2>0. PICK c : c = Cleanup(seen, now)
    OBVIOUS
  <2>1. PICK sel \in Selections(PolicyFor(p)) :
          /\ delivered' = delivered \cup ({m0} \X sel)
          /\ lastSent' = [k \in DOMAIN lastSent \cup {m0} |->
                            IF k = m0 THEN now ELSE lastSent[k]]
          /\ lastBroadcast' = [protocol |-> p, peers |-> sel]
          /\ seen' \in InsertResults(c, HashMessage(m0), now)
          /\ lastOp' = [op |-> "insert", hash |-> HashMessage(m0), answer |-> FALSE]
          /\ now' = now
    BY <1>2, <2>0 DEF BroadcastMessage
  <2>2. sel \subseteq Peers
    BY DEF Selections
  <2>3. /\ DOMAIN c \subseteq DOMAIN seen
        /\ \A k \in DOMAIN c : c[k] = seen[k]
    BY <2>0 DEF Cleanup
  <2>4. /\ DOMAIN seen' \subseteq DOMAIN c \cup {HashMessage(m0)}
        /\ \A k \in DOMAIN seen' :
              seen'[k] = now \/ (k \in DOMAIN c /\ seen'[k] = c[k])
    BY <2>1, InsertValues
  <2>. QED
    BY <1>0, <2>1, <2>2, <2>3, <2>4 DEF TimesInv, TypeOK, RMTypeOK, Ops
<1>. QED
  BY <1>1, <1>2

LEMMA NextTimes == TimesInv /\ [Next]_vars => TimesInv'
<1>. SUFFICES ASSUME TimesInv, [Next]_vars PROVE TimesInv'
  OBVIOUS
<1>1. CASE RMTick /\ UNCHANGED bcVars
  BY <1>1, RecentMessagesAssumption DEF TimesInv, TypeOK, RMTypeOK, RMTick, bcVars
<1>2. CASE \E p \in Protocols, m \in Msgs : BroadcastMessage(p, m)
  BY <1>2, BroadcastTimes
<1>3. CASE UNCHANGED vars
  BY <1>3 DEF TimesInv, TypeOK, RMTypeOK, vars, rmVars, bcVars
<1>. QED
  BY <1>1, <1>2, <1>3 DEF Next

LEMMA TimesInvariant == Spec => []TimesInv
<1>1. Init => TimesInv
  BY InitTimes
<1>. QED
  BY <1>1, NextTimes, PTL DEF Spec

\* broadcast_message, the TTL cleanup of its contains and insert, and the
\* ticks of the clock keep every piece of BroadcastManager's state well
\* typed, for any peers, messages, policies, capacity, TTL and hash.
THEOREM BroadcastTypeCorrect == Spec => []TypeOK
BY TimesInvariant, PTL DEF TimesInv

-----------------------------------------------------------------------------
(* Dedup within the TTL, under eviction.  insert evicts only an oldest    *)
(* entry of a full set whose entries are all live; so a hash stored at or *)
(* after a send is evicted only when every entry of the set is, and the   *)
(* new hash takes its place: the set then holds Capacity hashes stored at *)
(* or after the send, and it keeps holding them until the send expires.   *)

\* The facts of TimesInv the steps below use.
LEMMA TimesFacts ==
    ASSUME TimesInv
    PROVE  /\ DOMAIN seen \subseteq Hashes /\ IsFiniteSet(DOMAIN seen)
           /\ \A k \in DOMAIN seen : seen[k] \in Nat /\ seen[k] <= now
           /\ now \in Nat
           /\ DOMAIN lastSent \subseteq Msgs
           /\ \A m \in DOMAIN lastSent : lastSent[m] \in 0..now
           /\ Ttl \in Nat
<1>1. /\ DOMAIN seen \subseteq Hashes
      /\ \A k \in DOMAIN seen : seen[k] \in 0..TimeMax /\ seen[k] <= now
      /\ now \in 0..TimeMax
  BY DEF TimesInv, TypeOK, RMTypeOK
<1>2. IsFiniteSet(DOMAIN seen)
  BY <1>1, RecentMessagesAssumption, FS_Subset
<1>. QED
  BY <1>1, <1>2, RecentMessagesAssumption DEF TimesInv, TypeOK

\* A message sent less than message_ttl ago stays remembered, or the set
\* stays full of hashes stored at or after its send, over every step.
LEMMA FloodedStep ==
    ASSUME TimesInv, SentRememberedOrFlooded, [Next]_vars
    PROVE  SentRememberedOrFlooded'
<1>0. /\ DOMAIN seen \subseteq Hashes /\ IsFiniteSet(DOMAIN seen)
      /\ \A k \in DOMAIN seen : seen[k] \in Nat /\ seen[k] <= now
      /\ now \in Nat
      /\ DOMAIN lastSent \subseteq Msgs
      /\ \A m \in DOMAIN lastSent : lastSent[m] \in 0..now
      /\ Ttl \in Nat
  BY TimesFacts
<1>1. CASE RMTick /\ UNCHANGED bcVars
  <2>1. seen' = seen /\ lastSent' = lastSent /\ now' = now + 1
    BY <1>1 DEF RMTick, bcVars
  <2>2. \A b : Cardinality(Newer(seen', b)) = Cardinality(Newer(seen, b))
    BY <2>1, Zenon
  <2>. QED
    BY <1>0, <2>1, <2>2 DEF SentRememberedOrFlooded
<1>2. ASSUME NEW p \in Protocols, NEW m0 \in Msgs, BroadcastMessage(p, m0)
      PROVE  SentRememberedOrFlooded'
  <2>0. HashMessage(m0) \in Hashes
    BY HashInHashes
  <2>1. CASE DedupedBroadcast(HashMessage(m0))
    <3>1. /\ seen' = Cleanup(seen, now)
          /\ UNCHANGED <<now, lastSent>>
      BY <1>2, <2>1 DEF BroadcastMessage, bcVars
    <3>2. SUFFICES ASSUME NEW m \in DOMAIN lastSent', now' - lastSent'[m] < Ttl
                   PROVE  \/ /\ HashMessage(m) \in DOMAIN seen'
                             /\ lastSent'[m] <= seen'[HashMessage(m)]
                          \/ Cardinality(Newer(seen', lastSent'[m])) >= Capacity
      BY DEF SentRememberedOrFlooded, Newer
    <3>3. /\ m \in DOMAIN lastSent /\ lastSent'[m] = lastSent[m]
          /\ now - lastSent[m] < Ttl /\ lastSent[m] \in Nat
      BY <1>0, <3>1, <3>2
    <3>4. /\ Newer(seen', lastSent[m]) = Newer(seen, lastSent[m])
          /\ \A k \in Newer(seen, lastSent[m]) : seen'[k] = seen[k]
      BY <1>0, <3>1, <3>3, CleanupNewer
    <3>5. Cardinality(Newer(seen', lastSent[m])) = Cardinality(Newer(seen, lastSent[m]))
      BY <3>4, Zenon
    <3>6. CASE HashMessage(m) \in DOMAIN seen /\ lastSent[m] <= seen[HashMessage(m)]
      BY <1>0, <3>3, <3>4, <3>6 DEF Newer
    <3>7. CASE Cardinality(Newer(seen, lastSent[m])) >= Capacity
      BY <3>3, <3>5, <3>7
    <3>. QED
      BY <3>3, <3>6, <3>7 DEF SentRememberedOrFlooded
  <2>2. CASE ~DedupedBroadcast(HashMessage(m0))
    <3>0. PICK c : c = Cleanup(seen, now)
      OBVIOUS
    <3>1. /\ lastSent' = [k \in DOMAIN lastSent \cup {m0} |->
                            IF k = m0 THEN now ELSE lastSent[k]]
          /\ seen' \in InsertResults(c, HashMessage(m0), now)
          /\ now' = now
      BY <1>2, <2>2, <3>0 DEF BroadcastMessage
    <3>2. /\ IsFiniteSet(DOMAIN c)
          /\ \A k \in DOMAIN c : c[k] \in Nat /\ now - c[k] < Ttl
          /\ HashMessage(m0) \notin DOMAIN c
      <4>1. DOMAIN c \subseteq DOMAIN seen
        BY <3>0 DEF Cleanup
      <4>. QED
        BY <1>0, <2>2, <3>0, <4>1, FS_Subset DEF DedupedBroadcast, Cleanup
    <3>3. SUFFICES ASSUME NEW m \in DOMAIN lastSent', now' - lastSent'[m] < Ttl
                   PROVE  \/ /\ HashMessage(m) \in DOMAIN seen'
                             /\ lastSent'[m] <= seen'[HashMessage(m)]
                          \/ Cardinality(Newer(seen', lastSent'[m])) >= Capacity
      BY DEF SentRememberedOrFlooded, Newer
    <3>4. CASE m = m0
      <4>1. HashMessage(m0) \in DOMAIN seen' /\ seen'[HashMessage(m0)] = now
        BY <1>0, <3>1, <3>2, InsertNewer
      <4>2. lastSent'[m] = now
        BY <3>1, <3>4
      <4>. QED
        BY <1>0, <3>4, <4>1, <4>2
    <3>5. CASE m # m0
      <4>1. /\ m \in DOMAIN lastSent /\ lastSent'[m] = lastSent[m]
            /\ now - lastSent[m] < Ttl
        BY <3>1, <3>3, <3>5
      <4>2. PICK b \in 0..now : b = lastSent[m]
        BY <1>0, <4>1
      <4>3. /\ Newer(c, b) = Newer(seen, b)
            /\ \A k \in Newer(seen, b) : c[k] = seen[k]
        BY <1>0, <3>0, <4>1, <4>2, CleanupNewer
      <4>4. /\ IsFiniteSet(Newer(c, b)) /\ Cardinality(Newer(c, b)) \in Nat
            /\ Cardinality(Newer(seen', b)) >= Cardinality(Newer(c, b))
            /\ \A k \in DOMAIN c :
                  c[k] >= b =>
                    \/ k \in DOMAIN seen' /\ seen'[k] = c[k]
                    \/ Cardinality(Newer(seen', b)) >= Capacity
        BY <1>0, <3>1, <3>2, <4>2, InsertNewer
      <4>5. Cardinality(Newer(c, b)) = Cardinality(Newer(seen, b))
        BY <4>3, Zenon
      <4>8. /\ Cardinality(Newer(seen', b)) \in Nat
            /\ Capacity \in Nat
        <5>1. IsFiniteSet(Newer(seen', b))
          BY <1>0, <3>1, <3>2, <4>2, InsertNewer
        <5>. QED
          BY <5>1, FS_CardinalityType, RecentMessagesAssumption
      <4>6. CASE HashMessage(m) \in DOMAIN seen /\ b <= seen[HashMessage(m)]
        <5>1. HashMessage(m) \in Newer(seen, b)
          BY <1>0, <4>6 DEF Newer
        <5>2. HashMessage(m) \in DOMAIN c /\ c[HashMessage(m)] = seen[HashMessage(m)]
          BY <4>3, <5>1 DEF Newer
        <5>3. c[HashMessage(m)] >= b
          BY <1>0, <4>2, <4>6, <5>2
        <5>. QED
          BY <4>1, <4>2, <4>4, <4>6, <5>2, <5>3
      <4>7. CASE Cardinality(Newer(seen, b)) >= Capacity
        <5>1. Cardinality(Newer(seen', b)) >= Capacity
          BY <4>4, <4>5, <4>7, <4>8
        <5>. QED
          BY <4>1, <4>2, <5>1
      <4>. QED
        BY <4>1, <4>2, <4>6, <4>7 DEF SentRememberedOrFlooded
    <3>. QED
      BY <3>4, <3>5
  <2>. QED
    BY <2>1, <2>2
<1>3. CASE UNCHANGED vars
  BY <1>3 DEF SentRememberedOrFlooded, vars, rmVars, bcVars
<1>. QED
  BY <1>1, <1>2, <1>3 DEF Next

\* A step that sends a message's hash again less than message_ttl after the
\* message's last send finds the set full of hashes stored since then.
LEMMA NoResendStep ==
    ASSUME TimesInv, SentRememberedOrFlooded, [Next]_vars
    PROVE  [\A m \in DOMAIN lastSent :
               (SendsHash(HashMessage(m)) /\ now - lastSent[m] < Ttl)
                 => Cardinality(Newer(seen, lastSent[m])) >= Capacity
           ]_vars
<1>0. /\ \A k \in DOMAIN seen : seen[k] \in Nat /\ seen[k] <= now
      /\ now \in Nat
      /\ \A m \in DOMAIN lastSent : lastSent[m] \in 0..now
      /\ Ttl \in Nat
  BY TimesFacts
<1>1. CASE RMTick /\ UNCHANGED bcVars
  BY <1>0, <1>1 DEF RMTick, SendsHash
<1>2. ASSUME NEW p \in Protocols, NEW m0 \in Msgs, BroadcastMessage(p, m0)
      PROVE  \A m \in DOMAIN lastSent :
               (SendsHash(HashMessage(m)) /\ now - lastSent[m] < Ttl)
                 => Cardinality(Newer(seen, lastSent[m])) >= Capacity
  <2>1. CASE DedupedBroadcast(HashMessage(m0))
    <3>1. lastOp'.op = "contains"
      BY <1>2, <2>1 DEF BroadcastMessage
    <3>. QED
      BY <3>1 DEF SendsHash
  <2>2. CASE ~DedupedBroadcast(HashMessage(m0))
    <3>1. lastOp'.hash = HashMessage(m0)
      BY <1>2, <2>2 DEF BroadcastMessage
    <3>2. SUFFICES ASSUME NEW m \in DOMAIN lastSent,
                          HashMessage(m) = HashMessage(m0),
                          now - lastSent[m] < Ttl
                   PROVE  Cardinality(Newer(seen, lastSent[m])) >= Capacity
      BY <3>1 DEF SendsHash
    <3>3. ~(HashMessage(m) \in DOMAIN seen /\ lastSent[m] <= seen[HashMessage(m)])
      BY <1>0, <2>2, <3>2 DEF DedupedBroadcast, Cleanup
    <3>. QED
      BY <3>2, <3>3 DEF SentRememberedOrFlooded
  <2>. QED
    BY <2>1, <2>2
<1>3. CASE UNCHANGED vars
  BY <1>3 DEF vars
<1>. QED
  BY <1>1, <1>2, <1>3 DEF Next

\* broadcast_message sends a message (or one with the same hash) again
\* less than message_ttl after its last send only when the recently
\* broadcast set holds Capacity hashes stored at or after that send
\* (NoResendWithinTtlUnlessFlooded, which broadcast_dedup checks), for any
\* peers, policies, capacity, TTL and hash function.
THEOREM NoResendWithinTtlUnlessFloodedHolds ==
    Spec => NoResendWithinTtlUnlessFlooded
<1>1. Spec => []TimesInv
  BY TimesInvariant
<1>2. Init => SentRememberedOrFlooded
  BY InitTimes
<1>3. TimesInv /\ SentRememberedOrFlooded /\ [Next]_vars => SentRememberedOrFlooded'
  BY FloodedStep
<1>4. Spec => []SentRememberedOrFlooded
  BY <1>1, <1>2, <1>3, PTL DEF Spec
<1>5. TimesInv /\ SentRememberedOrFlooded /\ [Next]_vars =>
        [\A m \in DOMAIN lastSent :
            (SendsHash(HashMessage(m)) /\ now - lastSent[m] < Ttl)
              => Cardinality(Newer(seen, lastSent[m])) >= Capacity
        ]_vars
  BY NoResendStep
<1>. QED
  BY <1>1, <1>4, <1>5, PTL DEF NoResendWithinTtlUnlessFlooded, Spec
=============================================================================
