--------------------------- MODULE DoSProtection ---------------------------
(***************************************************************************)
(* network/security.rs, DoSProtection: violation scores, the ban list and  *)
(* the rate-limit check.  Its methods run under the write (record) or read *)
(* (check) lock of the service's RwLock<DoSProtection>, so each is one     *)
(* step.  The token buckets behind check_rate_limit are TokenBucket; here  *)
(* try_consume is a nondeterministic yes or no.                           *)
(*                                                                         *)
(* Instants are left out: nothing reads recent_violators or                *)
(* banned_addresses (ExpiringCache::get, cleanup and ExpiringSet::contains *)
(* have no caller), so a ban is recorded with the duration computed for it.*)
(***************************************************************************)
EXTENDS Naturals

CONSTANTS
    Peers,              \* PeerIds that commit violations or are checked
    Ips,                \* IP addresses
    PeerIp,             \* the IP each peer connects from
    Whitelist,          \* whitelist
    Resources,          \* ResourceType
    LimitedResources,   \* the keys of rate_limiters
    BanThreshold,       \* ban_threshold (20)
    MaxScore,           \* bound on the scores explored
    Build               \* "debug" or "release"

(* The constants are expected to satisfy:                                  *)
(*   PeerIp \in [Peers -> Ips], Whitelist \subseteq Ips,                    *)
(*   LimitedResources \subseteq Resources, BanThreshold, MaxScore \in Nat,   *)
(*   Build \in {"debug", "release"}.                                        *)

Violations == {"RateLimit", "ProtocolViolation", "InvalidMessage",
               "InvalidBlock", "InvalidTransaction"}

\* ViolationType::penalty_points.
PenaltyPoints(v) ==
    CASE v = "RateLimit"          -> 1
      [] v = "ProtocolViolation"  -> 5
      [] v = "InvalidMessage"     -> 2
      [] v = "InvalidBlock"       -> 10
      [] v = "InvalidTransaction" -> 3

\* calculate_ban_duration, in hours: (2_u64.pow(score / 5) - 1).min(24 * 7).
\* 2^k overflows u64 from k = 64 on: the pow panics in a debug build and
\* wraps to 0 in a release build, where 0 - 1 wraps to u64::MAX and the
\* min gives 168.  For 8 <= k < 64, 2^k - 1 > 168.
BanHours(score) ==
    LET k == score \div 5
    IN  IF k >= 8 THEN 168 ELSE 2^k - 1

PowOverflows(score) == score \div 5 >= 64

NoEntry == "none"
CheckResults == {"Ok", "NotFound", "Exceeded"}

VARIABLES
    penaltyScores,      \* penalty_scores (absent = 0)
    recentViolators,    \* recent_violators: the last violation per peer
    peerToAddr,         \* peer_to_addr: the set of peers it has a key for
    bannedAddresses,    \* banned_addresses: ban hours per IP
    panicked,           \* a debug build panicked in calculate_ban_duration
    lastCheck           \* what the last check_rate_limit returned

dosVars == <<penaltyScores, recentViolators, peerToAddr, bannedAddresses,
             panicked, lastCheck>>

TypeOK ==
    /\ penaltyScores \in [Peers -> Nat]
    /\ recentViolators \in [Peers -> Violations \cup {NoEntry}]
    /\ peerToAddr \subseteq Peers
    /\ DOMAIN bannedAddresses = Ips
    /\ \A i \in Ips : bannedAddresses[i] = NoEntry \/ bannedAddresses[i] \in 0..168
    /\ panicked \in BOOLEAN
    /\ lastCheck \in [peer : Peers \cup {NoEntry}, result : CheckResults]

\* DoSProtection::new: empty maps; peer_to_addr starts empty and no method
\* ever inserts into it.
Init ==
    /\ penaltyScores = [p \in Peers |-> 0]
    /\ recentViolators = [p \in Peers |-> NoEntry]
    /\ peerToAddr = {}
    /\ bannedAddresses = [i \in Ips |-> NoEntry]
    /\ panicked = FALSE
    /\ lastCheck = [peer |-> NoEntry, result |-> "Ok"]

\* Mutant: the penalty taken off the score, as the float reputation does.
ScoreAfterSubtracted(p, v) == penaltyScores[p] - PenaltyPoints(v)

ScoreAfter(p, v) == penaltyScores[p] + PenaltyPoints(v)

\* ExpiringCache::insert(key, value, ttl); the expiry instant is left out,
\* since nothing reads it (get and cleanup have no caller).
CacheInsert(c, k, v) == [c EXCEPT ![k] = v]

\* ExpiringSet::insert(item, ttl), keeping the ban duration in hours in
\* place of the expiry instant Instant::now() + ttl.
SetInsert(st, i, hours) == [st EXCEPT ![i] = hours]

\* ban_peer(peer_id): only if peer_to_addr has the peer, ban its address
\* for calculate_ban_duration (the disconnect future is never awaited).
BanPeer(p, score) ==
    IF p \in peerToAddr
    THEN IF Build = "debug" /\ PowOverflows(score)
         THEN /\ panicked' = TRUE
              /\ UNCHANGED bannedAddresses
         ELSE /\ bannedAddresses' =
                     [bannedAddresses EXCEPT ![PeerIp[p]] = BanHours(score)]
              /\ UNCHANGED panicked
    ELSE UNCHANGED <<bannedAddresses, panicked>>

\* record_violation(peer_id, violation): remember it for 300 s, add its
\* penalty points, and ban_peer once the score reaches ban_threshold.
RecordViolation(p, v) ==
    /\ ~panicked
    /\ ScoreAfter(p, v) <= MaxScore
    /\ recentViolators' = CacheInsert(recentViolators, p, v)
    /\ penaltyScores' = [penaltyScores EXCEPT ![p] = ScoreAfter(p, v)]
    /\ IF ScoreAfter(p, v) >= BanThreshold
       THEN BanPeer(p, ScoreAfter(p, v))
       ELSE UNCHANGED <<bannedAddresses, panicked>>
    /\ UNCHANGED <<peerToAddr, lastCheck>>

\* check_rate_limit(resource, peer_id, amount): Ok for a peer whose
\* peer_to_addr entry is whitelisted; Err when no limiter exists for the
\* resource; otherwise the limiter's try_consume decides.
CheckRateLimit(p, r) ==
    /\ ~panicked
    /\ \E consumed \in BOOLEAN :
          lastCheck' = [peer |-> p,
                        result |->
                          CASE p \in peerToAddr /\ PeerIp[p] \in Whitelist -> "Ok"
                            [] r \notin LimitedResources -> "NotFound"
                            [] consumed -> "Ok"
                            [] OTHER -> "Exceeded"]
    /\ UNCHANGED <<penaltyScores, recentViolators, peerToAddr,
                   bannedAddresses, panicked>>

Next ==
    \E p \in Peers :
       \/ \E v \in Violations : RecordViolation(p, v)
       \/ \E r \in Resources : CheckRateLimit(p, r)

Spec == Init /\ [][Next]_dosVars

-----------------------------------------------------------------------------

\* Ban escalation (spec, section 4.7 and property 7; scenario S4): once a
\* peer's accumulated penalty score reaches ban_threshold, record_violation
\* has banned the peer's IP.
BanOnThreshold ==
    \A p \in Peers :
       penaltyScores[p] >= BanThreshold => bannedAddresses[PeerIp[p]] # NoEntry

=============================================================================
