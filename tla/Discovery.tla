----------------------------- MODULE Discovery -----------------------------
(***************************************************************************)
(* network/discovery.rs, PeerDiscovery: the known-peer book, and           *)
(* bootstrap, find_more_peers, mark_attempted and mark_banned.  The        *)
(* service calls bootstrap under the write lock of peer_discovery and      *)
(* holds it across the DNS awaits, so each call is one step.  Resolution   *)
(* of a bootstrap node is a fixed sequence of addresses (empty: an error); *)
(* a DNS seed answers with any of a set of sequences, chosen at the step.  *)
(* generate_temporary_peer_id hashes the address with DefaultHasher; the   *)
(* model takes it to be injective, so an address is its own peer id.      *)
(* Instants are a tick clock.                                              *)
(***************************************************************************)
EXTENDS Naturals, Sequences, FiniteSets

CONSTANTS
    Addrs,          \* socket addresses
    BootstrapNodes, \* config.bootstrap_nodes, in order
    Resolved,       \* address.to_socket_addrs() of each bootstrap node
    DnsSeeds,       \* config.dns_seeds, in order
    DnsAnswers,     \* the answers lookup_host may give for each seed
    DnsInterval,    \* config.dns_lookup_interval, in ticks
    ClockMax        \* the last instant explored

\* PeerSource, with source_priority.
Priority == [ManuallyAdded |-> 5, Incoming |-> 4, LocalDiscovery |-> 3,
             Bootstrap |-> 2, PeerExchange |-> 1, DNSSeed |-> 0]
Sources == DOMAIN Priority

\* generate_temporary_peer_id(addr).
TemporaryPeerId(a) == a

\* The bootstrap goes on to the DNS seeds below this many discoveries.
DnsQueryBelow == 10

\* The elements of a sequence.
Elems(s) == {s[i] : i \in 1..Len(s)}

\* add_peer for every address of a set, with one source: the record is
\* created (first_seen, address, source) if absent; then its address is
\* replaced unless the source is Incoming, and its source is replaced only
\* by one of higher priority.  With one source the order does not matter.
AddPeers(kp, as, s) ==
    [id \in DOMAIN kp \cup {TemporaryPeerId(a) : a \in as} |->
        IF id \notin DOMAIN kp THEN [address |-> id, source |-> s]
        ELSE [address |-> IF s # "Incoming" /\ id \in as THEN id ELSE kp[id].address,
              source  |-> IF id \in as /\ Priority[s] > Priority[kp[id].source]
                          THEN s ELSE kp[id].source]]

VARIABLES
    knownPeers,     \* known_peers: peer id -> [address, source]
    attempted,      \* attempted_peers
    banned,         \* banned_peers
    lastDnsLookup,  \* last_dns_lookup: [set |-> FALSE] for None, or the instant
    clock,          \* Instant::now()
    lastCall        \* history: the last call, the peers it returned, whether it queried DNS

vars == <<knownPeers, attempted, banned, lastDnsLookup, clock, lastCall>>

Records == [address : Addrs, source : Sources]

TypeOK ==
    /\ \E D \in SUBSET Addrs : knownPeers \in [D -> Records]
    /\ attempted \subseteq Addrs
    /\ banned \subseteq Addrs
    /\ lastDnsLookup \in [set : {FALSE}] \cup [set : {TRUE}, at : 0..ClockMax]
    /\ clock \in 0..ClockMax
    /\ lastCall.op \in {"none", "tick", "bootstrap", "find", "mark"}
    /\ lastCall.found \in Seq(Addrs)
    /\ lastCall.dns \in BOOLEAN

\* PeerDiscovery::new.
Init ==
    /\ knownPeers = [a \in {} |-> CHOOSE r \in Records : TRUE]
    /\ attempted = {}
    /\ banned = {}
    /\ lastDnsLookup = [set |-> FALSE]
    /\ clock = 0
    /\ lastCall = [op |-> "none", found |-> <<>>, dns |-> FALSE]

\* Time passes.
Tick ==
    /\ clock < ClockMax
    /\ clock' = clock + 1
    /\ lastCall' = [op |-> "tick", found |-> <<>>, dns |-> FALSE]
    /\ UNCHANGED <<knownPeers, attempted, banned, lastDnsLookup>>

\* resolve_peer_address(node): the resolved addresses, tagged Bootstrap;
\* none is an error, which bootstrap skips.
ResolvePeerAddress(node) == Resolved[node]

\* query_dns_seed(seed): lookup_host of seed:30333, tagged DNSSeed; the
\* answer of this call for the seed, none being an error.
QueryDnsSeed(answer) == [seed \in DOMAIN answer |-> answer[seed]]

\* The concatenation of the sequences f[x] for the x of a sequence xs.
Flatten(xs, f) ==
    LET cat[i \in 0..Len(xs)] == IF i = 0 THEN <<>> ELSE cat[i - 1] \o f[xs[i]]
    IN  cat[Len(xs)]

\* bootstrap(): the addresses of every resolvable bootstrap node, added as
\* Bootstrap; then, if fewer than 10 were found, every DNS seed's answer
\* (an empty answer is an error and is skipped), added as DNSSeed, and
\* last_dns_lookup set to now.  Local discovery is disabled (mdns.enabled is
\* false) and peer_db_path is never set, so nothing more is added.
Bootstrap(answer) ==
    LET boot == Flatten(BootstrapNodes, [n \in Elems(BootstrapNodes) |-> ResolvePeerAddress(n)])
        query == Len(boot) < DnsQueryBelow
        dns == IF query THEN Flatten(DnsSeeds, QueryDnsSeed(answer)) ELSE <<>>
        kp == AddPeers(knownPeers, Elems(boot), "Bootstrap")
    IN  /\ knownPeers' = AddPeers(kp, Elems(dns), "DNSSeed")
        /\ lastDnsLookup' = IF query THEN [set |-> TRUE, at |-> clock] ELSE lastDnsLookup
        /\ lastCall' = [op |-> "bootstrap", found |-> boot \o dns, dns |-> query]
        /\ UNCHANGED <<attempted, banned, clock>>

\* find_more_peers(target_count): nothing if target_count peers are known;
\* else, if there was no DNS lookup or the last one is older than
\* dns_lookup_interval, every DNS seed's answer without the attempted and
\* banned addresses, added as DNSSeed, and last_dns_lookup set to now.
FindMorePeers(target, answer) ==
    LET query == \/ ~lastDnsLookup.set
                 \/ clock - lastDnsLookup.at > DnsInterval
        new == SelectSeq(Flatten(DnsSeeds, QueryDnsSeed(answer)),
                         LAMBDA a : a \notin attempted \cup banned)
    IN  /\ IF Cardinality(DOMAIN knownPeers) >= target \/ ~query
           THEN UNCHANGED <<knownPeers, lastDnsLookup>>
           ELSE /\ knownPeers' = AddPeers(knownPeers, Elems(new), "DNSSeed")
                /\ lastDnsLookup' = [set |-> TRUE, at |-> clock]
        /\ lastCall' =
              [op |-> "find",
               found |-> IF Cardinality(DOMAIN knownPeers) >= target \/ ~query
                         THEN <<>> ELSE new,
               dns |-> Cardinality(DOMAIN knownPeers) < target /\ query]
        /\ UNCHANGED <<attempted, banned, clock>>

\* mark_attempted(addr) and mark_banned(addr).
MarkAttempted(a) ==
    /\ attempted' = attempted \cup {a}
    /\ lastCall' = [op |-> "mark", found |-> <<>>, dns |-> FALSE]
    /\ UNCHANGED <<knownPeers, banned, lastDnsLookup, clock>>

MarkBanned(a) ==
    /\ banned' = banned \cup {a}
    /\ lastCall' = [op |-> "mark", found |-> <<>>, dns |-> FALSE]
    /\ UNCHANGED <<knownPeers, attempted, lastDnsLookup, clock>>

\* The answers the DNS seeds may give together in one call.
SeedAnswers == [Elems(DnsSeeds) -> UNION {DnsAnswers[s] : s \in Elems(DnsSeeds)}]

Next ==
    \/ Tick
    \/ \E answer \in SeedAnswers :
          /\ \A s \in Elems(DnsSeeds) : answer[s] \in DnsAnswers[s]
          /\ \/ Bootstrap(answer)
             \/ \E target \in 0..Cardinality(Addrs) + 1 : FindMorePeers(target, answer)
    \/ \E a \in Addrs : MarkAttempted(a) \/ MarkBanned(a)

Spec == Init /\ [][Next]_vars

-----------------------------------------------------------------------------

\* Section 3 of the spec: an address-book entry is never removed, and its
\* source may only be upgraded, never downgraded, whichever of bootstrap
\* and find_more_peers meets the address again and with which source.
SourceNeverDowngraded ==
    [][\A id \in DOMAIN knownPeers :
          /\ id \in DOMAIN knownPeers'
          /\ Priority[knownPeers'[id].source] >= Priority[knownPeers[id].source]]_vars

\* Section 4.3 of the spec: DNS seeds are re-queried at most once per
\* dns_lookup_interval, by bootstrap and by find_more_peers alike.
DnsRateLimited ==
    [][lastCall'.dns /\ lastDnsLookup.set =>
         clock - lastDnsLookup.at > DnsInterval]_vars

=============================================================================
