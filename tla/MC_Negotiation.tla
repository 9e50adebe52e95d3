--------------------------- MODULE MC_Negotiation ---------------------------
(***************************************************************************)
(* ProtocolNegotiator::negotiate as NetworkService::negotiate_protocols    *)
(* calls it: the local capabilities are default_capabilities of the node   *)
(* type and the minimums are those NetworkService::new configures.  The    *)
(* remote is any capability set over three protocols, majors 1 and 2,      *)
(* minors and patches 0 and 1.  Each state is one input; the property      *)
(* compares the code's result with the rule of the specification.          *)
(***************************************************************************)
EXTENDS Negotiation

NodeTypes == {"full", "validator", "light", "other"}

Versions == {Version(ma, mi, pa) : ma \in {1, 2}, mi \in {0, 1}, pa \in {0, 1}}

RemoteProtocols == {"PeerDiscovery", "BlockSync", "TransactionPropagation"}

RemoteCaps ==
    UNION {[protocols : [D -> Versions], features : SUBSET {"Compression", "FastSync"}]
             : D \in SUBSET RemoteProtocols}

VARIABLE input

Init == input \in [nodeType : NodeTypes, remote : RemoteCaps]

Next == UNCHANGED input

Spec == Init /\ [][Next]_input

-----------------------------------------------------------------------------

\* Version a is below version b in the order of semantic versions.
VersionBelow(a, b) ==
    \/ a.major < b.major
    \/ a.major = b.major /\ a.minor < b.minor
    \/ a.major = b.major /\ a.minor = b.minor /\ a.patch < b.patch

\* The negotiation rule of the specification (section 4.5): for each
\* protocol both sides support, the version (local.major, min minor, min
\* patch), rejected if the majors differ or if it is below the configured
\* minimum; the features are the intersection.
SpecNegotiate(local, minVersion, remote) ==
    LET both == DOMAIN local.protocols \cap DOMAIN remote.protocols
        v(p) == NegotiatedVersion(local.protocols[p], remote.protocols[p])
        ok(p) == /\ local.protocols[p].major = remote.protocols[p].major
                 /\ p \in DOMAIN minVersion => ~VersionBelow(v(p), minVersion[p])
    IN  [protocols |-> [p \in {q \in both : ok(q)} |-> v(p)],
         features  |-> local.features \cap remote.features]

\* Spec property 5: negotiate, as the service configures it, yields exactly
\* the protocols and versions of the negotiation rule: the shared major,
\* the minimum minor and patch, and no protocol whose majors differ.
NegotiationAsSpecified ==
    LET local == DefaultCapabilities(input.nodeType)
    IN  Negotiate(local, ServiceMinVersions, input.remote)
          = SpecNegotiate(local, ServiceMinVersions, input.remote)

=============================================================================
