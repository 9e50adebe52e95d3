-------------------------- MODULE SybilProtection --------------------------
(***************************************************************************)
(* network/security.rs, SybilProtection: three connection counters, per IP, *)
(* per subnet and per ASN, and the admission check that compares one of    *)
(* them with its cap according to the configured restriction level.        *)
(* HashMap entries that are absent are the value 0: record_disconnection   *)
(* skips an absent entry, which is what a saturating subtraction of 0      *)
(* gives as well.                                                          *)
(***************************************************************************)
EXTENDS PeerAddress, Naturals

CONSTANTS
    MaxInboundPerIp,            \* max_inbound_per_ip
    MaxInboundPerSubnet,        \* max_inbound_per_subnet
    MaxInboundPerAsn,           \* max_inbound_per_asn
    AddressRestrictionLevel     \* address_restriction_level

RestrictionLevels == {"None", "LimitPerIp", "LimitPerSubnet", "LimitPerAsn"}

ASSUME SybilAssumption ==
    /\ MaxInboundPerIp \in Nat
    /\ MaxInboundPerSubnet \in Nat
    /\ MaxInboundPerAsn \in Nat
    /\ AddressRestrictionLevel \in RestrictionLevels

\* IpAsnLookup::get_asn_for_ip returns Some(64496) for every IP.
GetAsnForIp(ip) == 64496
Asn == {64496}

VARIABLES
    connectionCounts,       \* connection_counts: IpAddr -> usize
    ipAddressGroups,        \* ip_address_groups: IpSubnet -> usize
    asnConnectionCounts     \* asn_connection_counts: u32 -> usize

sybilVars == <<connectionCounts, ipAddressGroups, asnConnectionCounts>>

SybilTypeOK ==
    /\ connectionCounts \in [Ip -> Nat]
    /\ ipAddressGroups \in [Subnet -> Nat]
    /\ asnConnectionCounts \in [Asn -> Nat]

SybilInit ==
    /\ connectionCounts = [ip \in Ip |-> 0]
    /\ ipAddressGroups = [s \in Subnet |-> 0]
    /\ asnConnectionCounts = [n \in Asn |-> 0]

\* Mutant: the per-subnet comparison made with <= instead of <.
IsConnectionAllowedOffByOne(a) ==
    LET ip == IpOf[a] IN
    CASE AddressRestrictionLevel = "None" -> TRUE
      [] AddressRestrictionLevel = "LimitPerIp" ->
            connectionCounts[ip] < MaxInboundPerIp
      [] AddressRestrictionLevel = "LimitPerSubnet" ->
            ipAddressGroups[GetSubnetForIp(ip)] <= MaxInboundPerSubnet
      [] AddressRestrictionLevel = "LimitPerAsn" ->
            asnConnectionCounts[GetAsnForIp(ip)] < MaxInboundPerAsn

\* is_connection_allowed(addr).  The ASN lookup never fails, so the
\* fallback to the subnet rule (lines 185-188) is never taken.
IsConnectionAllowed(a) ==
    LET ip == IpOf[a] IN
    CASE AddressRestrictionLevel = "None" -> TRUE
      [] AddressRestrictionLevel = "LimitPerIp" ->
            connectionCounts[ip] < MaxInboundPerIp
      [] AddressRestrictionLevel = "LimitPerSubnet" ->
            ipAddressGroups[GetSubnetForIp(ip)] < MaxInboundPerSubnet
      [] AddressRestrictionLevel = "LimitPerAsn" ->
            asnConnectionCounts[GetAsnForIp(ip)] < MaxInboundPerAsn

\* Mutant: a plain subtraction where the code saturates.
SatDecUnchecked(n) == n - 1

\* Saturating subtraction of one (usize::saturating_sub(1)).
SatDec(n) == IF n > 0 THEN n - 1 ELSE 0

\* record_connection(addr): all three counters go up by one.
RecordConnection(a) ==
    LET ip == IpOf[a] IN
    /\ connectionCounts' = [connectionCounts EXCEPT ![ip] = @ + 1]
    /\ ipAddressGroups' = [ipAddressGroups EXCEPT ![GetSubnetForIp(ip)] = @ + 1]
    /\ asnConnectionCounts' = [asnConnectionCounts EXCEPT ![GetAsnForIp(ip)] = @ + 1]

\* record_disconnection(addr): each counter goes down by one, saturating
\* at zero, each on its own, whether or not that address was recorded.
RecordDisconnection(a) ==
    LET ip == IpOf[a] IN
    /\ connectionCounts' = [connectionCounts EXCEPT ![ip] = SatDec(@)]
    /\ ipAddressGroups' = [ipAddressGroups EXCEPT ![GetSubnetForIp(ip)] = SatDec(@)]
    /\ asnConnectionCounts' = [asnConnectionCounts EXCEPT ![GetAsnForIp(ip)] = SatDec(@)]

=============================================================================
