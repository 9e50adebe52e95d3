\* A peer that reaches the ban threshold is banned.
CONSTANTS
    p1 = p1
    p2 = p2
    ip1 = ip1
    ip2 = ip2
    InboundConnections = InboundConnections
    RpcRequests = RpcRequests
    BlockRequests = BlockRequests
    TransactionAnnouncements = TransactionAnnouncements
    TotalBandwidth = TotalBandwidth
    Peers <- MCPeers
    Ips <- MCIps
    PeerIp <- MCPeerIp
    Whitelist = {}
    Resources <- MCResources
    LimitedResources <- MCLimited
    BanThreshold = 20
    MaxScore = 24
    Build = "release"
INIT Init
NEXT Next
INVARIANT BanOnThreshold
