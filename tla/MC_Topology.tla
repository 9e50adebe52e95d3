---------------------------- MODULE MC_Topology ----------------------------
EXTENDS Topology

CONSTANTS p1, p2, p3, i1, i2

MCPeers == {p1, p2, p3}
MCIps == {i1, i2}

=============================================================================
