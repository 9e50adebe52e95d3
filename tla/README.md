# TLA+ models of the ProzChain networking core

These modules model the peer-to-peer layer in `src/network/` of this
repository. Each one is written from the Rust source: its state, the code
between two `await`s on a lock, and the guards and early returns of each
handler. `PROJECT.json` maps every definition to the lines it translates,
and lists the runs, mutants, findings, hazards and theorems.

## 1. The system (inventory)

| Component | Source | State | Operations |
|---|---|---|---|
| Sybil protection | `security.rs:67-248` | `connection_counts` per IP, `ip_address_groups` per /24 or /48 subnet, `asn_connection_counts` per ASN, restriction level and caps | `is_connection_allowed`, `record_connection`, `record_disconnection` (saturating) |
| Reputation tracker | `security.rs:98-124` | float score per peer | `update_score`, `is_banned` (not called by the service) |
| Rate limiter | `security.rs:251-330` | atomic `tokens: u32`, atomic `last_refill: u64` (ms) | `try_consume` (CAS loop), `refill_if_needed` (CAS, then a separate store) |
| DoS protection | `security.rs:333-538` | limiters per kind, violation scores, banned set, `peer_to_addr` | `check_rate_limit`, `record_violation`, `ban_peer`, `calculate_ban_duration` |
| Connection manager | `connection.rs` | `connections` (never written), `connecting`, `handshaking`, `ip_connections` | `handle_inbound_connection`, `establish_outbound_connection`, `disconnect`, `clean_up_stale_connections` (never called) |
| Network service | `service.rs` | status, peer table, two mpsc channels of capacity 100, a broadcast shutdown signal, locked handles on every component | `start`, `bootstrap_peer_connections`, `connect_to_peer`, the accept loop, the message handler, `stop`, `trigger_peer_discovery` |
| Peer discovery | `discovery.rs` | known peers with their source and priority | `bootstrap`, `add_peer`, `find_more_peers` |
| Topology | `topology.rs` | inbound and outbound sets, per-IP counts | `can_accept_inbound`, `register_*`, `remove_connection`, eviction |
| Broadcast and gossip | `propagation.rs` | recently broadcast set, LRU cache, gossip tracking | `broadcast_message`, policies, `process_incoming_gossip` |
| Framing and recent messages | `message.rs` | a bounded set of recent hashes with TTL | `serialize`, `deserialize`, `RecentMessages::insert`/`contains`, `hash_message` |
| Version negotiation | `protocol_version.rs` | capabilities | `is_compatible_with`, `negotiate` |
| Compact blocks | `block_propagation.rs` | mempool view | `create_compact_block`, `handle_compact_block` |
| Service lifecycle | `service.rs:127-640`, `nat.rs:35-98`, `main.rs:34-88` | status, the two bounded channels, the shutdown broadcast and its subscribers, the message handler, main's response task | `start` (listeners, NAT, UPnP, bootstrap notifications, tasks), the handler loop, `send_message`/`broadcast`, `stop` |
| Metrics, health checker | `metrics/` | counters | not modelled (section 6) |

How the components interact:

- **Admission.** `start()` runs `bootstrap_peer_connections`, which works through the peers the discovery bootstrap returns. Each peer is inserted into the peer table under a hash of its address. The table size is compared with `max_peers`. `connect_to_peer` then asks the Sybil protection, dials through the connection manager, records the connection with the Sybil protection, and inserts a second peer-table entry under the connection's random id.
- **Locks.** Each component sits behind its own tokio `RwLock`, so every `.await` on a lock is a point where other tasks run.
- **Concurrent bootstraps.** `NetworkServiceInterfaceTrait::trigger_peer_discovery` on the service runs the same bootstrap again, concurrently with anything else.
- **Inbound path.** The accept loop hands sockets to the connection manager.
- **Shutdown.** `stop()` sends the shutdown signal. It then calls `record_disconnection` for every entry of the peer table while holding its read lock, queues `Disconnect` messages, and sets status `Stopped`.

**What the shipped configuration reaches.** `NetworkService::new` installs `PeerDiscovery::default()` (`service.rs:152`). Its `BootstrapConfig` (`discovery.rs`, built at `service.rs:841-853`) has no bootstrap nodes, no DNS seeds, no static peers, local discovery off and no peer database. So `bootstrap()` returns an empty list, and the service as shipped never dials. `trigger_peer_discovery` has no caller in the built crate: its only callers are in the health checker, which is not compiled. The dial path is still modelled, because it is the code that runs once discovery is configured. `Admission`'s `Seeds` (three addresses in `MC_Admission`) and `ServiceLifecycle`'s `BootSeeds` (2) are over-approximations that let the passing runs cover that path. No violation run depends on them, and the hazards of concurrent dials (the subnet-cap race, the peer-table overshoot, the counters stop decrements) are not claimed as reachable. `discovery_dns` is a finding about `PeerDiscovery` called repeatedly with DNS seeds configured, not about the shipped service.

Two more facts of the source bear on what is modelled. The crate does not compile as written: `start(&self)` calls `setup_block_propagation(&mut self)` (`service.rs:246`, `:671`); the models take the evident intent, the call made. And the handler's `Disconnect` arm calls `ConnectionManager::disconnect`, which finds no connection to remove, because `connections` is never written (`connection.rs:228`, `:265-285`); a handled `Disconnect` changes nothing, and `ServiceLifecycle` only counts it.

Hard behaviours:

- counters moved in separate lock sections, and counters that only grow (`connection.rs:226`, `:120`);
- a CAS refill that races (`security.rs:295-329`) and u64/u32 edges;
- an eviction that lets a live message be broadcast again (`message.rs:193`);
- bounded channels and shutdown: a handler that waits on a full response channel, and queued calls dropped with the receiver (`service.rs:513`, `:534`);
- a UPnP step whose error `start` propagates although UPnP is disabled inside (`service.rs:238`).

`PROJECT.json` "hazards" lists each of these at its line.

What makes each component correct, as the spec (spec.md) states it:

- the per-IP and per-subnet caps;
- the three Sybil counters kept in lock-step and never negative;
- `sum(ip_connections) == |connections|`;
- `max_peers` as a ceiling on the peer table;
- dedup idempotence and the recent-set bound;
- framing round-trip;
- version negotiation taking the minimum;
- compact-block order;
- ban escalation.

## 2. Modules

| Module | Models | Extends |
|---|---|---|
| `PeerAddress` | addresses, IPs, subnets (`get_subnet_for_ip`) | – |
| `SybilProtection` | `SybilProtection` in `security.rs` | `PeerAddress` |
| `ConnectionManager` | `ConnectionManager` in `connection.rs` | `PeerAddress` |
| `Admission` | `NetworkService` new / start / bootstrap / connect / accept / stop | both of the above |
| `TokenBucket` | `RateLimiter` (`security.rs:251-330`), one step per atomic access | `RateLimiterSpec` by INSTANCE |
| `RateLimiterSpec` | what `RateLimiter` promises: an atomic bucket with indivisible refill and consume | – |
| `ServiceLifecycle` | `NetworkService` start / message handler / stop as `main.rs` drives it, with `NatTraversal` | – |
| `DoSProtection` | `DoSProtection` (`security.rs:333-538`) with its expiring cache and set | – |
| `RecentMessages` | `RecentMessages` (`message.rs:160-213`) with a tick clock | – |
| `MessageCodec` | `Message::new`, `serialize`, `deserialize`, `hash_message` as operators on byte sequences | – |
| `Broadcast` | `BroadcastManager::broadcast_message`, with `hash_message` as the constant operator `HashMessage(_)`, which `MC_Broadcast` binds to `MessageCodec`'s | `RecentMessages` |
| `Gossip` | `GossipManager::process_incoming_gossip` with its LRU cache | `RecentMessages` |
| `Negotiation` | `protocol_version.rs`: `is_compatible_with`, `negotiate`, `default_capabilities` | – |
| `CompactBlocks` | `BlockPropagator` (`block_propagation.rs`) as the service calls it | – |
| `Topology` | `TopologyManager` (`topology.rs`) | – |
| `Discovery` | `PeerDiscovery` (`discovery.rs`) | – |
| `MC_*` | small instances, and properties that need a reference definition | the module |
| `Admission_proofs` | TLAPS proofs | `Admission` |
| `TokenBucket_proofs` | TLAPS proofs | `TokenBucket` (and `RateLimiterSpec_proofs` by INSTANCE) |
| `RateLimiterSpec_proofs` | TLAPS proofs | `RateLimiterSpec` |
| `Gossip_proofs` | TLAPS proofs | `Gossip`, `RecentMessages_proofs` |
| `ServiceLifecycle_proofs` | TLAPS proofs | `ServiceLifecycle` |
| `RecentMessages_proofs` | TLAPS lemmas on the `RecentMessages` operators | `RecentMessages` |
| `Broadcast_proofs` | TLAPS proofs | `Broadcast`, `RecentMessages_proofs` |
| `Topology_proofs` | TLAPS proofs | `Topology` |

**State correspondence in `ConnectionManager`:**

- `handshaking` is the key set of the map of the same name.
- `ipConnections[ip]` is `ip_connections`, with an absent key meaning 0.
- `connections` is never written by any method, so `ConnectionCount == 0`.
- `connecting` is only non-empty inside `establish_outbound_connection`, whose callers hold the manager's write lock across its awaits. That call is therefore one atomic action, `EstablishOutboundConnection(a, res)`, and its dial outcome `res` is one of `Connected`, `Refused` or `TimedOut`.

**State correspondence in `Admission`:**

- `peers` is the peer table. Its keys are `DiscId(a)`, the address hash of discovery, and `ConnId(n)`, the random connection ids, numbered as they are drawn.
- Each dialer has a program counter `dialPc` with one value per await point of `bootstrap_peer_connections` / `connect_to_peer`:

  | Action | Source |
  |---|---|
  | `DialInsert` | 381 |
  | `DialCheck` | 384 |
  | `DialAllowed` | 399 |
  | `DialEstablish` | 404 |
  | `DialRecord` | 418 |
  | `DialStore` | 420 |

- `dialIdx` is its position in the discovery result `Seeds`.
- `stopPc` and `stopTodo` follow `stop()`. While `stopPc = "record"`, stop holds the peers read lock, so `DialInsert` and `DialStore` wait.
- The listener's `select!` only looks at the shutdown signal while it waits for a socket. One accept can therefore follow the signal, and `ListenerExit` is a separate action.
- `StartDialer` is `start()` itself. The other dialers are `trigger_peer_discovery` calls, enabled once the service is `Running`, because `main` only hands the service out after `start` returns.
- The health checker's corrective action goes through `LocalNetworkServiceInterface`, whose `trigger_peer_discovery` only logs, so it adds no dialer.

**State correspondence in `ServiceLifecycle`:**

- `status` is `*self.status`; `mainPc` is where `main` is inside `start` or `stop`, one value per await between two state changes.
- `msgQ` and `respQ` are the two `mpsc::channel(100)`s, as sequences of message kinds bounded by `MsgCapacity` and `RespCapacity`. A send blocks (`CanSend` false) while the channel is full, and fails once the handler has dropped the receiver (`RxOpen` false).
- `subscribers` are the `shutdown_signal` receivers, taken when each task is spawned; `signalled` is the set the `send(())` of `stop` reached. A task that subscribes after the send never sees it.
- `handlerPc` follows the message handler: `HandlerRecv` is one arm of its `select!`, `HandlerRespond` the send of the response, `HandlerExit` the shutdown arm, which drops the receiver with what is queued in it.
- `BootInsert`, `BootConnect`, `BootNotify` are the bootstrap loop of `start` as this module sees it: a peer-table entry, a dial that may fail, and a `PeerDiscovered` message on the channel that no one reads before the handler is spawned. What the dial does to the Sybil counters is `Admission`'s part.
- `StartNat` is `discover_nat_type` and `try_upnp_port_mapping` on the `NatTraversal::default()` that `new` installs: no STUN servers, UPnP disabled whatever `enable_upnp` says.
- `ClientCall` is a `send_message` or `broadcast` by the holder of the service after `start` returned; `ConsumeResponse` is main's task that drains the response channel.

**The other components:**

- `TokenBucket` has one program counter per caller, with one value per atomic load, `compare_exchange` and store, and per read of the clock. Callers run concurrently because `check_rate_limit` holds only the read lock of `dos_protection`. A load sees the latest value, which is a subset of what `Relaxed` allows. `u32` and `u64` keep their wrap-around at the reduced widths `TokenBits` and `TimeBits`. `Build` chooses whether an overflowing `+` panics (debug) or wraps (release). `granted` is a history variable holding the tokens handed out.
- `RecentMessages`: `seen` maps each hash to its insertion instant. `Contains` includes the cleanup and `Insert` includes the eviction, as in the code.
- `Broadcast` and `Gossip` call `RecentMessages` inside their own actions, exactly where the code does.
- `Negotiation` is pure: a `HashMap` is a function on its key set. The loops become set comprehensions, because their order does not change the result.
- `CompactBlocks` keeps the placeholders of the code:
  - the zero hashes;
  - the prevalence estimate of 0.8;
  - a lookup that always answers `None`;
  - an integrity check that always passes.
- `Topology` and `Discovery` make each method one step:
  - no `TopologyManager` method awaits;
  - `bootstrap` is called under the `peer_discovery` write lock, which is held across its DNS awaits.

  DNS answers are chosen nondeterministically at the step. `generate_temporary_peer_id` is taken to be injective.

## 3. Runs

The project keeps nine runs, and each asks one question. Where a disagreement was found but no run could be kept for it, `PROJECT.json` "hazards" records it with its property and the TLC result.

The Admission runs use `MC_Admission`:

- three addresses `a1, a2, a3`;
- `a1` and `a2` on IP `i1`, and `a3` on `i2`;
- one subnet;
- the discovery result `<<a1, a2, a3>>` (an over-approximation: the shipped configuration discovers nothing, section 1);
- every cap at 2.

The code's defaults are larger: 5 per IP, 10 per subnet, `max_peers` 25. A cap of 2 is reached within the three dials, which is what lets the cap checks happen. Runs set `CHECK_DEADLOCK FALSE` where the system really stops: after `stop()` and the end of every bootstrap no task has anything left to do.

| Run | Instance | Checks | Result |
|---|---|---|---|
| `admission_concurrent` | 2 dialers | `TypeOK`, `PerIpCap`, `CountersAgree` | pass, 97,961 states |
| `token_bucket_single` | 1 caller, capacity 2, 100 tokens/s, 5 ms ticks to 40 ms, debug | `TypeOK`, `RateBound`, `ImplementsRateLimiterSpec` | pass, 11,015 states |
| `token_bucket_race` | 2 callers, release | `RateBound` | violated: a caller reads `now`, another stores a later `last_refill`, `now - last` wraps, the refill saturates and the bucket is refilled |
| `broadcast_dedup` | 2 peers, 3 messages, TTL 2, capacity 2 | `TypeOK`, `NoResendWithinTtlUnlessFlooded` | pass, 53,609 states |
| `gossip_select` | 3 peers, 3 hashes, fan-out 1, cache 2 | `TypeOK`, `GossipToUnaware`, `RecentBound` | pass, 199,830 states |
| `discovery_dns` | 2 bootstrap nodes (one unresolvable), 1 DNS seed with 3 possible answers, interval 1 | `DnsRateLimited` | violated: two bootstraps at the same instant both query the seeds |
| `service_lifecycle` | 2 listeners, NAT on, UPnP off, 2 bootstrap peers (an over-approximation, section 1), message channel 2, response channel 1, 2 API calls | `TypeOK`, `StartCompletes`, `StopCompletes`, `TasksExit` | pass, 32,352 states |
| `service_upnp` | as above with `EnableUpnp = TRUE` (main's default) | `StartCompletes` | violated: `try_upnp_port_mapping` returns `Err("UPnP is disabled")` and `start` returns it, with the listeners already accepting |
| `topology_caps` | 3 peers, 2 IPs, `max_peers_per_ip` 2, `max_inbound` 2, counts up to 3 | `TypeOK`, `CapCheckSound` | pass, 546,264 states |

`CountersAgree` relates three pieces of state kept by three components:

- the connection manager's `ip_connections`;
- the Sybil per-IP counter;
- the peer table's connection entries.

They agree up to the dialers that are between the dial, the record and the insert. This holds until `stop` begins, whatever the interleaving.

`NoResendWithinTtlUnlessFlooded` is the dedup promise of scenario S6 as the code keeps it. A message comes back within `message_ttl` of its last send only when the recently broadcast set holds `Capacity` hashes stored at or after that send. With three messages and capacity two, insert does evict live hashes, so the run reaches the resends the property allows. It fails if insert evicts any live entry rather than an oldest one.

`CapCheckSound` is about `TopologyManager`, whose methods no code calls yet: any sequence of registrations, removals and preferences keeps `ip_connections` at or above the entries held at each IP, so `can_accept_inbound` never admits past the cap.

The bounds are the smallest at which each interesting case happens:

- **TokenBucket.** 5 ms ticks cross the 10 ms minimum and the 1000 ms division of the refill. With two callers, one can read the clock while the other refills.
- **Broadcast and Gossip.** A capacity of 2 with 3 hashes forces an eviction of a live entry. A TTL of 2 lets an entry both stay and expire within the explored time.
- **ServiceLifecycle.** A message channel of 2 with 2 bootstrap notifications fills the channel exactly before the handler is spawned, so a third send (an API call) blocks; a response channel of 1 makes the handler wait on main's task. Two listeners let one task be signalled while the other is still running. The code's 100 changes none of these orders, only how many sends it takes to reach them.

Further configurations check properties that have no run of their own:

| Configuration | Property | Result |
|---|---|---|
| `MC_Discovery_sources.cfg` | `TypeOK`, `SourceNeverDowngraded` | pass, 19,740 states |
| `MC_CompactBlocks_reconstruct.cfg` | `CompactRoundTrip` | violated by a one-transaction block whose transaction is in the mempool |
| `MC_DoSProtection_ban.cfg` | `BanOnThreshold` | violated: `peer_to_addr` is never filled, so `ban_peer` never bans |
| `MC_MessageCodec_roundtrip.cfg` | `RoundTrip` | violated: `serialize` writes a 10-byte header and `deserialize` expects 12 |
| `MC_Negotiation_rule.cfg` | `NegotiationAsSpecified` | violated: the service's minimum 1.0.0 refuses a remote at 1.1.0 (`is_compatible_with` runs the wrong way round) |
| `MC_TokenBucket_idle.cfg` | `ImplementsRateLimiterSpec` | violated with one caller in a release build: after 4 s idle at 100 tokens/s with 8-bit tokens, `new_tokens` saturates, `current + new_tokens` wraps and the refill lowers the tokens from 2 to 1 |

The first two were runs of their own earlier; a unit test reaches each of the violations here, so no run is kept for them.

`IpCountExact` and `ExactlyOneDirection` (`Topology`) are violated in two registrations. So is `EveryNewBlockAnnounced` (`CompactBlocks`). These violations are recorded as hazards.

Each property of a passing run has a mutant, listed in `PROJECT.json`, that TLC catches:

| Mutant | Caught by |
|---|---|
| an unchecked decrement (`SatDecUnchecked`) | `TypeOK` of `admission_concurrent` |
| `<=` in the per-IP check (`OutboundAllowedOffByOne`) | `PerIpCap` |
| the IP count bumped on a failed dial | `CountersAgree` |
| the consuming CAS without its `current < amount` check | `TypeOK` of `token_bucket_single` |
| the refill that forgets to store `last_refill` | `RateBound` |
| the expiry instant stored in place of the insertion instant | `TypeOK` of `broadcast_dedup` and `gossip_select` |
| an eviction of any live entry, not an oldest one (`InsertResultsAnyVictim`) | `NoResendWithinTtlUnlessFlooded` |
| the sender tracked after the propagation is scheduled | `GossipToUnaware` |
| `insert` at capacity without eviction | `RecentBound` |
| the refill that forgets to store `last_refill` | `ImplementsRateLimiterSpec` |
| `can_send` that admits one message past the capacity (`CanSendPastCapacity`) | `TypeOK` of `service_lifecycle` |
| a channel one slot short (`CanSendOneShort`) | `StartCompletes`: the bootstrap blocks on the last notification |
| the handler not subscribed to the shutdown signal when spawned (`StartTasksLateSubscribe`) | `TasksExit` |
| a `Disconnect` send that waits on a closed channel (`StopDisconnectWaits`) | `StopCompletes` |
| a count kept at 0 rather than removed (`DecrementedKeepsZero`) | `TypeOK` of `topology_caps` |
| the key removed on every decrement (`DecrementedDropsKey`) | `CapCheckSound` |

**Fairness.** Only `ServiceLifecycle` states liveness. Its `Fairness` is weak fairness of every step a tokio task takes on its own: the steps of `start` and `stop` once `main` is in them, each arm of the handler, each task's exit on the signal, and main's response task and a client's wake-up. tokio polls every task that is ready, and nothing here spins, so each step that stays enabled is eventually taken. Two steps are not forced: `StopBegin`, which waits for ctrl-c, and `ClientCall`, which a user may never make. The liveness properties are therefore conditional: `StartCompletes` once a listener is bound, `StopCompletes` and `TasksExit` once `stop` has begun.

**Refinement.** `RateLimiterSpec` is the bucket `RateLimiter` promises: refill and consume as indivisible steps, a refill credits `elapsed * rate / 1000` whole tokens up to the capacity and moves `last_refill`. `TokenBucket` instantiates it with `lastRefill <- CommittedRefill`: a refill takes effect at its successful CAS, and while the caller is between the CAS and its `store` the committed instant is its own `now`. Every other step (the clock read, the loads, failed CASes, the early returns, a panic) is a stutter. `ImplementsRateLimiterSpec` holds with one caller in a debug build (`token_bucket_single`), fails with two callers (a second refill of the same interval between the first one's CAS and store) and fails after a long idle in release (`MC_TokenBucket_idle.cfg`).

## 4. Proofs

`Admission_proofs` proves three theorems for every value of the constants that satisfies the modules' `ASSUME`s:

- `TypeCorrect`: `Spec => []TypeOK`;
- `PerIpCapHolds`: `Spec => []PerIpCap`;
- `CountersAgreeHolds`: `Spec => []CountersAgree`.

They hold for any finite set of dialers, any discovery result and any limits. The first two follow from the supporting theorem `InductiveInvariant`: `Spec => []AdmissionInductive`.

TypeOK is not inductive as it stands, and `AdmissionInductive` strengthens it in three ways:

- it adds `PerIpCap`;
- a dialer past the insert (`DialBusy`) implies that the discovery result is non-empty, without which `Seeds[dialIdx[d]]` is not an address;
- `stopTodo` holds only entries of the peer table, so `record_disconnection` gets an address.

The proof is laid out as follows:

- one lemma per action (`DialEstablishInv` is where the cap is kept: the check and the increment are in one step);
- helper lemmas on `NextSeed`, the Sybil updates and peer-table writes;
- `InitInductive` and `NextInductive`;
- a final PTL step.

TLC checked `AdmissionInductive` on the `admission_concurrent` instance before it was proved.

`CountersAgree` relates three counts that `connect_to_peer` moves in three separate lock sections: `ip_connections` at the establish (404), the Sybil `connection_counts` at `record_connection` (418), and the peer table's connection entries at the insert (420). The dialers between two of those sections make up the difference. Its inductive form `AgreeInv` adds two facts, and TLC checked it on the `admission_concurrent` instance before it was proved:

- `FreshConnIds`: a connection id not drawn yet has no entry, so the insert of line 420 always adds an entry and never overwrites one;
- `IdleBeforeStart`: before the first stop, a stopped service runs no bootstrap, so `start()`'s dialer is idle when `StartBegin` moves it.

The step lemmas are proved with `AdmissionInductive` as a hypothesis, one per action. `DialEstablishAgree`, `DialRecordAgree` and `DialStoreAgree` do the counting: each one moves a single dialer or adds a single entry for one IP, and `FS_AddElement` and `FS_RemoveElement` give the change in cardinality. The other actions keep every per-IP set as it is (`AgreeFrame`, `PcFrame`). The finiteness of the sets counted comes from `Dialers` being finite and from the connection ids being the image of `1..MaxConnIds` (`ConnIdSetFinite`, through `FS_Surjection`). The theorem combines `Spec => []AdmissionInductive` with the step lemma in one PTL step.

`TokenBucket_proofs` proves one theorem, for every capacity, rate, width, clock step and clock bound that satisfy `TokenBucketAssumption` (which also asks for a non-empty `Amounts`, as `Init`'s choice of a first amount needs):

- `TypeCorrect`: `Spec => []TypeOK`, for any set of callers and either build. `TypeOK` is inductive as it stands. The lemmas it rests on state that `TimeSub` and `NewTokens` stay in their machine ranges; with them, each action keeps the type in a lemma of its own, the wrapped `(cur + new_tokens) % 2^TokenBits` of `RefillCas` included.

`RateLimiterSpec_proofs` proves `RateBoundHolds` for the abstract, atomic bucket: for any constants, `granted <= Capacity + Earned(clock)`. It rests on the inductive invariant `BucketInv`, `granted + tokens <= Capacity + Earned(lastRefill)`, and on `EarnedSplit`: the tokens earned from 0 to a and then from a to b are at most those earned from 0 to b, because of the integer division by 1000 in `NewTokens`. This is a fact about the promise, not about the code. Whether `try_consume` keeps it is left to TLC: it does for one caller in a debug build (`token_bucket_single`), and it does not with two callers (`token_bucket_race`) or after a long idle in release (`MC_TokenBucket_idle.cfg`). A proof for the one case where it holds would exclude both ways the code departs from it, so none is kept.

`Gossip_proofs` proves three theorems for any hash set, peer set, capacity, TTL and fanout that satisfy the `ASSUME`s:

- `GossipTypeCorrect`: `Spec => []TypeOK`;
- `RecentBoundHolds`: `Spec => []RecentBound`, so the recent set never exceeds its capacity;
- `GossipToUnawareHolds`: `Spec => GossipToUnaware`, an action property.

The invariant is `GossipInv`, which adds two conjuncts to `TypeOK`: the recent set's domain is finite, and the set is within its bound. The lemmas on the `RecentMessages` operators are in `RecentMessages_proofs`, which `Gossip_proofs` and `Broadcast_proofs` share. They show the following:

- `Cleanup` only removes keys;
- `With` adds at most one key;
- `Without` removes exactly one key;
- `InsertBound`: an insert into a full set cleans up first. If the set is still full, it evicts an oldest entry before it stores the new hash, so the cardinality stays at most `Capacity`;
- `CleanupNewer`: cleanup at `t` keeps every entry stored at `b` or later when `t - b < Ttl`;
- `StoreNewer` and `InsertNewer`: an insert of a hash the live set does not hold stores it at `t`, keeps at least as many entries stored at `b <= t` or later, and evicts such an entry only from a set whose entries all are (an oldest entry is evicted, and the new hash takes its place).

`GossipToUnawareHolds` comes from a step lemma, `GossipStepUnaware`: the peers that `select_gossip_peers` returns are tracked peers that do not hold the message. The step lemma and `Spec => []GossipInv` are then combined by PTL. `RecentMessagesAssumption` asks for a non-empty hash set and a positive capacity. The code justifies both: both owners call `RecentMessages::new(1000, ttl)`, and a hash is a 32-byte value.

`ServiceLifecycle_proofs` proves one theorem for every set of listeners, both flags, any number of bootstrap peers, any table cap, any positive channel capacities and any call bound:

- `LifecycleTypeCorrect`: `Spec => []TypeOK`. The message and response channels never hold more than their capacity. The peer-table count stays within two entries per discovered peer. `stop()`'s index and the handler's count of handled Disconnects stay within the peer ids `stop()` read.

`TypeOK` is not inductive, and `LifecycleInv` strengthens it. TLC checked the strengthening on the `service_lifecycle` instance and on one with three peers and a channel of three before it was proved. It adds the following:

- `peerCount` plus one while a dial is in progress is at most twice the peers inserted;
- stop's index is 0 until stop reaches its Disconnect loop, because `StopBegin` copies the peer count into `stopPeers`;
- no task is signalled before start;
- the API caller only ever sends `SendMessage` or `Broadcast`;
- `DisconnectsSent`: the Disconnects handled and those still queued are at most those `stop()` has sent, which bounds `disconnected` when the handler takes one off the channel. It is a step of the type proof, not a result of its own: it follows from the shape of the channel.

The queued Disconnects are counted as the cardinality of their positions in the channel. The lemmas say what each channel operation does to that count:

- `DisconnectIdxAppend`: an append adds at most one;
- `DisconnectIdxTail`: taking the head removes one exactly when the head is a Disconnect (the shift of the positions is an injection, `FS_Injection`);
- `DisconnectIdxEmpty`: the empty channel that `HandlerExit` leaves holds none.

`Broadcast_proofs` proves two theorems, for any peers, messages, protocols, policy table, capacity, TTL and hash function. The hash is a constant operator of `Broadcast`, so the theorems hold whatever `hash_message` computes, collisions included. This is also what lets the module reach no `Bitwise`.

- `BroadcastTypeCorrect`: `Spec => []TypeOK`. Its invariant `TimesInv` adds that no instant stored in the recent set or in `lastSent` is in the future.
- `NoResendWithinTtlUnlessFloodedHolds`: `Spec => NoResendWithinTtlUnlessFlooded`, with no hypothesis on the number of hashes. A message (or one with the same hash) is sent again less than `message_ttl` after its last send only when the recently broadcast set holds `Capacity` hashes stored at or after that send.

  The invariant is `SentRememberedOrFlooded`: for a message sent less than `message_ttl` ago, either its hash is in the set, stored no earlier than the send, or the set holds `Capacity` hashes stored at or after the send. TLC checked it on the `broadcast_dedup` instance before it was proved. A tick only shrinks the messages it speaks of. The dedup branch's cleanup keeps every entry younger than the send (`CleanupNewer`). The insert branch cleans up the same way, then `InsertNewer` applies: the new hash, stored now, replaces at most one entry, so the count of entries stored since the send never drops; and the remembered hash can be evicted only as an oldest entry of a full set all of whose entries are younger than the send. A message whose hash cleanup does not find is therefore covered by the second disjunct.

  This is the promise the code keeps, eviction included (the `message.rs:193` hazard): with capacity 1000, a message comes back within its TTL only after 1000 newer broadcasts.

`Topology_proofs` proves two theorems, for any peers, IPs, scores and limits, under `TopoConstants`: `CountBound` and `MaxPeersPerIp` are naturals, as the `usize` fields are.

- `TopologyTypeCorrect`: `Spec => []TypeOK`.
- `CapCheckSoundHolds`: `Spec => []CapCheckSound`. `can_accept_inbound` never says yes to an IP that already holds `max_peers_per_ip` connections.

The invariant is `CountCovers`: the count of each IP is at least the number of entries the two maps hold at it. TLC checked it under `MC_Topology_caps.cfg` (546,264 states) before it was proved. It is not equality, because a second registration of a peer id replaces its entry and still increments; `IpCountExact` is violated. The lemmas on the map operators do the counting:

- `AtPut`: a `Put` adds at most one entry at the IP stored;
- `AtDrop`: a `Drop` removes exactly the entry of the peer dropped;
- `IncrementedCnt` and `DecrementedCnt`: what `entry(ip).or_insert(0) += 1` and the saturating decrement do to the count.

`remove_connection` decrements the IP of the entry it removes. The invariant shows that IP's count is positive, so the decrement takes exactly one. `topology_caps` checks both properties on a small instance; the methods have no caller yet.

The following stay with TLC only:

- all liveness, `ServiceLifecycle`'s included. The prover does not reason about `WF` and `ENABLED`.
- `RateBound` and `ImplementsRateLimiterSpec` of `TokenBucket`: they hold for one caller in a debug build (`token_bucket_single`) and fail with two callers (`token_bucket_race`) or in release (`MC_TokenBucket_idle.cfg`). `RateBound` for one caller in a release build is checked by no run and claimed by no theorem.

## 5. Plan for the remaining work

1. The stale `handshaking` entries of the connection manager (`connection.rs:120`), as a liveness property under weak fairness of the accept loop, composed with `ServiceLifecycle`'s listeners.
2. Feed `Admission`'s `Seeds` from `Discovery`'s `bootstrap`, with duplicates, as a refinement.
3. Give the discovery and compact-block checks runs of their own.
4. Model the configured discovery (`BootstrapConfig` with nodes and seeds) as the source of `Seeds`, so that the concurrent-dial hazards can be stated for a configuration that reaches them.

## 6. Not modelled

The following are left out:

- the I/O of NAT traversal (STUN queries and UPnP requests); `ServiceLifecycle` models only what `start` sees of it, the results of `discover_nat_type` and `try_upnp_port_mapping` on the default `NatTraversal`;
- `TransactionPropagator`, which nothing calls, and `select_eviction_candidates`, `set_peer_region` and `get_peers_by_region` of the topology manager (queries, or state only a query reads);
- metrics and the health checker, whose only action on the service is a no-op;
- the node facade, utilities and types, which are wiring and data; of `main`, `ServiceLifecycle` models the start, the response task and the stop on ctrl-c;
- TLS and the handshake content, which the code leaves as placeholders;
- the text formats of log messages.

`PROJECT.json` "components" gives the reason for each.
