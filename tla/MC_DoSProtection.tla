-------------------------- MODULE MC_DoSProtection --------------------------
(* Two peers on one IP, the five resource types of which RpcRequests has  *)
(* no limiter, and scores up to a little past the threshold of 20.         *)
EXTENDS DoSProtection

CONSTANTS p1, p2, ip1, ip2,
          InboundConnections, RpcRequests, BlockRequests,
          TransactionAnnouncements, TotalBandwidth

MCPeers == {p1, p2}
MCIps == {ip1, ip2}
MCPeerIp == [p \in MCPeers |-> ip1]
MCResources == {InboundConnections, RpcRequests, BlockRequests,
                TransactionAnnouncements, TotalBandwidth}
MCLimited == MCResources \ {RpcRequests}
=============================================================================
