\* process_incoming_gossip from every peer: whom it gossips to.
CONSTANTS
    r1 = r1
    r2 = r2
    r3 = r3
    g1 = g1
    g2 = g2
    g3 = g3
    Peers <- MCPeers
    Hashes <- MCHashes
    Capacity = 2
    Ttl = 2
    TimeMax = 2
    CacheSize = 2
    Fanout = 1
    Rounds = 2
INIT Init
NEXT Next
INVARIANT TypeOK
PROPERTY GossipToUnaware
INVARIANT RecentBound
