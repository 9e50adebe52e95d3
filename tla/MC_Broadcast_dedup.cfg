\* broadcast_message under both policies: dedup within the TTL, and eviction.
CONSTANTS
    q1 = q1
    q2 = q2
    Discovery = Discovery
    Transaction = Transaction
    Peers <- MCPeers
    Msgs <- MCMsgs
    Hashes <- MCHashes
    HashMessage <- MCHash
    Protocols <- MCProtocols
    ProtocolPolicies <- MCPolicies
    DefaultPolicy <- MCDefault
    Capacity = 2
    Ttl = 2
    TimeMax = 4
    Build = "release"
INIT Init
NEXT Next
INVARIANT TypeOK
PROPERTY NoResendWithinTtlUnlessFlooded
