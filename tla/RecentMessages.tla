-------------------------- MODULE RecentMessages --------------------------
(***************************************************************************)
(* network/message.rs, RecentMessages: message hashes with the Instant at  *)
(* which each was inserted, a capacity and a TTL.  Its owners call it with *)
(* &mut self (BroadcastManager under the service's write lock, and         *)
(* GossipManager), so each call is one step.  Instants are ticks of a      *)
(* clock that only moves forward.                                          *)
(***************************************************************************)
EXTENDS Naturals, FiniteSets

CONSTANTS
    Hashes,         \* MessageHash values
    Capacity,       \* capacity
    Ttl,            \* ttl, in ticks
    TimeMax         \* the last instant explored

\* Both owners create their set with RecentMessages::new(1000, ttl)
\* (propagation.rs:55, :305), and a hash is 32 bytes, so there are
\* finitely many.
ASSUME RecentMessagesAssumption ==
    /\ Hashes # {} /\ IsFiniteSet(Hashes)
    /\ Capacity \in Nat \ {0}
    /\ Ttl \in Nat
    /\ TimeMax \in Nat

VARIABLES
    seen,           \* seen: a function from the stored hashes to instants
    now,            \* Instant::now()
    lastOp          \* the last call and its answer, for the properties

rmVars == <<seen, now, lastOp>>

Ops == [op : {"none", "contains", "insert"}, hash : Hashes,
        answer : BOOLEAN]

RMTypeOK ==
    /\ DOMAIN seen \subseteq Hashes
    /\ \A h \in DOMAIN seen : seen[h] \in 0..TimeMax
    /\ now \in 0..TimeMax
    /\ lastOp \in Ops

\* cleanup: seen.retain(|_, time| now.duration_since(*time) < ttl).
Cleanup(s, t) == [h \in {k \in DOMAIN s : t - s[k] < Ttl} |-> s[h]]

\* The keys whose instant is the least (min_by_key picks one of them, in
\* the HashMap's iteration order).
Oldest(s) == {h \in DOMAIN s : \A k \in DOMAIN s : s[h] <= s[k]}

\* s with h removed, and s with h (re)stored at instant t.
Without(s, h) == [k \in DOMAIN s \ {h} |-> s[k]]

\* Mutant: the hash stored with its expiry instant, as ExpiringCache does.
WithExpiryInstant(s, h, t) ==
    [k \in DOMAIN s \cup {h} |-> IF k = h THEN t + Ttl ELSE s[k]]

With(s, h, t) == [k \in DOMAIN s \cup {h} |-> IF k = h THEN t ELSE s[k]]

\* Mutant: the eviction test after cleanup dropped.
InsertResultsNoEvict(s, h, t) ==
    IF Cardinality(DOMAIN s) >= Capacity
    THEN {With(Cleanup(s, t), h, t)}
    ELSE {With(s, h, t)}

\* Mutant: the eviction removes any live entry, not an oldest one.
InsertResultsAnyVictim(s, h, t) ==
    IF Cardinality(DOMAIN s) >= Capacity
    THEN LET c == Cleanup(s, t)
         IN  IF Cardinality(DOMAIN c) >= Capacity /\ DOMAIN c # {}
             THEN {With(Without(c, o), h, t) : o \in DOMAIN c}
             ELSE {With(c, h, t)}
    ELSE {With(s, h, t)}

\* insert(hash): when at capacity, cleanup, and if still at capacity remove
\* an oldest entry; then store the hash at Instant::now().  The set of the
\* results that the choice of oldest entry allows.
InsertResults(s, h, t) ==
    IF Cardinality(DOMAIN s) >= Capacity
    THEN LET c == Cleanup(s, t)
         IN  IF Cardinality(DOMAIN c) >= Capacity /\ DOMAIN c # {}
             THEN {With(Without(c, o), h, t) : o \in Oldest(c)}
             ELSE {With(c, h, t)}
    ELSE {With(s, h, t)}

RMInit ==
    /\ seen = [h \in {} |-> 0]
    /\ now = 0
    /\ lastOp = [op |-> "none", hash |-> CHOOSE h \in Hashes : TRUE, answer |-> FALSE]

\* Time passes.
RMTick ==
    /\ now < TimeMax
    /\ now' = now + 1
    /\ UNCHANGED <<seen, lastOp>>

\* contains(hash): cleanup, then look the hash up.
Contains(h) ==
    /\ seen' = Cleanup(seen, now)
    /\ lastOp' = [op |-> "contains", hash |-> h,
                  answer |-> h \in DOMAIN Cleanup(seen, now)]
    /\ UNCHANGED now

\* insert(hash).
Insert(h) ==
    /\ seen' \in InsertResults(seen, h, now)
    /\ lastOp' = [op |-> "insert", hash |-> h, answer |-> h \in DOMAIN seen]
    /\ UNCHANGED now

RMNext ==
    \/ RMTick
    \/ \E h \in Hashes : Contains(h) \/ Insert(h)

RMSpec == RMInit /\ [][RMNext]_rmVars

-----------------------------------------------------------------------------

\* The hashes of a set stored at instant t or later.
Newer(s, t) == {k \in DOMAIN s : s[k] >= t}

\* Spec section 3: the recent set never holds more than its capacity.
\* insert evicts before it stores, so a full set stays full, not over.
RecentBound == Cardinality(DOMAIN seen) <= Capacity

\* Spec property 2 (dedup idempotence): inserting a hash that is already
\* there is a no-op.  In particular it evicts no other hash that is still
\* within its TTL (section 4.2 allows that eviction only to make room for a
\* new hash).
ReinsertIsNoOp ==
    [][(lastOp'.op = "insert" /\ lastOp'.hash \in DOMAIN seen) =>
          \A h \in DOMAIN seen : now - seen[h] < Ttl => h \in DOMAIN seen'
      ]_rmVars
=============================================================================
