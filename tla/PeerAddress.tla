---------------------------- MODULE PeerAddress ----------------------------
(***************************************************************************)
(* Endpoints of remote peers as the networking layer of ProzChain sees     *)
(* them (std::net::SocketAddr).  An address is a model value; what the     *)
(* code reads of it is its IP (addr.ip()) and the subnet bucket the Sybil  *)
(* protection groups it in (a /24 for IPv4, a /48 for IPv6).               *)
(***************************************************************************)
CONSTANTS
    Addr,       \* socket addresses of remote peers (ip:port)
    Ip,         \* IP addresses
    Subnet,     \* subnet buckets
    IpOf,       \* addr.ip()
    SubnetOf    \* SybilProtection::get_subnet_for_ip

ASSUME AddressAssumption ==
    /\ Addr # {}
    /\ IpOf \in [Addr -> Ip]
    /\ SubnetOf \in [Ip -> Subnet]

\* get_subnet_for_ip: the /24 (IPv4) or /48 (IPv6) bucket of an IP.  The
\* masking of the octets is abstracted to the constant map SubnetOf.
GetSubnetForIp(ip) == SubnetOf[ip]

=============================================================================
