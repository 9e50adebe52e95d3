CONSTANTS
    p1 = p1
    p2 = p2
    p3 = p3
    i1 = i1
    i2 = i2
    Peers <- MCPeers
    Ips <- MCIps
    Scores = {1, 9}
    MaxInbound = 2
    MaxPeersPerIp = 2
    TargetOutbound = 1
    CountBound = 3
SPECIFICATION Spec
INVARIANT TypeOK
INVARIANT CapCheckSound
