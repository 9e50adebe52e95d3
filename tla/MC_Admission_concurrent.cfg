CONSTANTS
    a1 = a1
    a2 = a2
    a3 = a3
    i1 = i1
    i2 = i2
    s1 = s1
    d1 = d1
    d2 = d2
    NoPeer = NoPeer
    Addr <- MCAddr
    Ip <- MCIp
    Subnet <- MCSubnet
    IpOf <- MCIpOf
    SubnetOf <- MCSubnetOf
    Seeds <- MCSeeds
    Dialers <- MCDialersTwo
    StartDialer = d1
    MaxPeers = 6
    MaxInboundPerIp = 2
    MaxInboundPerSubnet = 2
    MaxInboundPerAsn = 2
    AddressRestrictionLevel = "LimitPerSubnet"
    MaxInboundConnections = 2
    MaxOutboundConnections = 2
    MaxConnectionsPerIp = 2
INIT Init
NEXT Next
CHECK_DEADLOCK FALSE
INVARIANT TypeOK
INVARIANT PerIpCap
INVARIANT CountersAgree
