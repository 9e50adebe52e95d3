---------------------------- MODULE Negotiation ----------------------------
(***************************************************************************)
(* network/protocol_version.rs: semantic versions, capability sets and     *)
(* ProtocolNegotiator::negotiate, a pure function of the local             *)
(* capabilities, the per-protocol minimum versions and the capabilities a  *)
(* remote advertises.  A map HashMap<ProtocolId, ProtocolVersion> is a     *)
(* function whose domain is the set of its keys; the loops over a map or a *)
(* set are set comprehensions, since their order does not change the      *)
(* result.  Versions are u8 triples; min of two u8 cannot overflow.        *)
(***************************************************************************)
EXTENDS Naturals

\* ProtocolId (types/mod.rs).
ProtocolIds == {"PeerDiscovery", "BlockSync", "TransactionPropagation",
                "ConsensusMessages", "LightClientSync", "StateSync"}

\* FeatureFlag.
FeatureFlags == {"CompactBlocks", "CompactTransactions", "FastSync",
                 "HeaderVerification", "Compression", "Encryption",
                 "PriorityTransactions", "GrapheneBlockSupport", "AnchorSync"}

\* ProtocolVersion::new(major, minor, patch).
Version(ma, mi, pa) == [major |-> ma, minor |-> mi, patch |-> pa]

\* ProtocolVersion::is_compatible_with(self, other): the majors are equal
\* and self.minor is not below other.minor.
IsCompatibleWith(self, other) ==
    /\ self.major = other.major
    /\ ~(self.minor < other.minor)

MinOf(a, b) == IF a < b THEN a ELSE b

\* The version negotiate picks for a protocol both sides support:
\* (local.major, min(local.minor, remote.minor), min(local.patch, remote.patch)).
NegotiatedVersion(lv, rv) ==
    Version(lv.major, MinOf(lv.minor, rv.minor), MinOf(lv.patch, rv.patch))

\* Whether negotiate keeps protocol p: the remote supports it, and if a
\* minimum is configured for p, min_version.is_compatible_with(remote).
Keeps(minVersion, remote, p) ==
    /\ p \in DOMAIN remote.protocols
    /\ p \in DOMAIN minVersion =>
          IsCompatibleWith(minVersion[p], remote.protocols[p])

\* ProtocolNegotiator::negotiate(&self, remote_capabilities): the kept
\* protocols with their negotiated versions, and the common features.
Negotiate(local, minVersion, remote) ==
    LET kept == {p \in DOMAIN local.protocols : Keeps(minVersion, remote, p)}
    IN  [protocols |-> [p \in kept |->
                          NegotiatedVersion(local.protocols[p], remote.protocols[p])],
         features  |-> {f \in local.features : f \in remote.features}]

\* default_capabilities(node_type): PeerDiscovery 1.0.0 for every node;
\* BlockSync and TransactionPropagation with Compression and
\* CompactTransactions for full, validator and archive nodes, and
\* ConsensusMessages with PriorityTransactions for a validator, AnchorSync
\* for an archive; LightClientSync with HeaderVerification and FastSync for
\* a light node; nothing more for any other node type.
DefaultCapabilities(nodeType) ==
    LET full  == nodeType \in {"full", "validator", "archive"}
        protos == {"PeerDiscovery"}
                  \cup (IF full THEN {"BlockSync", "TransactionPropagation"} ELSE {})
                  \cup (IF nodeType = "validator" THEN {"ConsensusMessages"} ELSE {})
                  \cup (IF nodeType = "light" THEN {"LightClientSync"} ELSE {})
        feats == (IF full THEN {"Compression", "CompactTransactions"} ELSE {})
                 \cup (IF nodeType = "validator" THEN {"PriorityTransactions"} ELSE {})
                 \cup (IF nodeType = "archive" THEN {"AnchorSync"} ELSE {})
                 \cup (IF nodeType = "light" THEN {"HeaderVerification", "FastSync"} ELSE {})
    IN  [protocols |-> [p \in protos |-> Version(1, 0, 0)], features |-> feats]

\* NetworkService::new: the minimum versions the service configures.
ServiceMinVersions ==
    [p \in {"PeerDiscovery", "BlockSync"} |-> Version(1, 0, 0)]

=============================================================================
