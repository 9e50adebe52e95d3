------------------------- MODULE ConnectionManager -------------------------
(***************************************************************************)
(* network/connection.rs, ConnectionManager.  Its state is four maps:      *)
(* connections, connecting, handshaking and ip_connections.                *)
(*                                                                         *)
(*  - connections is never written by any method (the successful branches *)
(*    of both handshakes leave "we would store the connection" as a        *)
(*    comment), so it is always empty and connection_count() is 0.         *)
(*  - connecting is written only inside establish_outbound_connection,     *)
(*    which every caller runs under the manager's write lock held across   *)
(*    its awaits (service.rs:404-405 and 533), and every path out of it    *)
(*    removes the entry again: no other method can observe it non-empty.   *)
(*    The call is therefore one atomic step and connecting is left out.    *)
(*  - handshaking gains the address of every accepted inbound socket and   *)
(*    nothing removes it (clean_up_stale_connections is never called).     *)
(*  - ip_connections counts, per IP, the successful outbound connections. *)
(***************************************************************************)
EXTENDS PeerAddress, Naturals

CONSTANTS
    MaxInboundConnections,      \* limits.max_inbound_connections
    MaxOutboundConnections,     \* limits.max_outbound_connections
    MaxConnectionsPerIp         \* limits.max_connections_per_ip

ASSUME ConnectionLimitsAssumption ==
    /\ MaxInboundConnections \in Nat
    /\ MaxOutboundConnections \in Nat
    /\ MaxConnectionsPerIp \in Nat

\* The outcome of TcpStream::connect under tokio::time::timeout.
DialResults == {"Connected", "Refused", "TimedOut"}

VARIABLES
    handshaking,        \* handshaking: the key set of HashMap<SocketAddr, Instant>
    ipConnections       \* ip_connections: IpAddr -> usize (absent = 0)

cmVars == <<handshaking, ipConnections>>

CMTypeOK ==
    /\ handshaking \subseteq Addr
    /\ ipConnections \in [Ip -> Nat]

CMInit ==
    /\ handshaking = {}
    /\ ipConnections = [ip \in Ip |-> 0]

\* connection_count(): the connections map is never populated.
ConnectionCount == 0

\* handle_inbound_connection(stream, addr): the three early returns are its
\* guards; on success the address enters handshaking and a handshake task is
\* spawned that only logs its outcome.
HandleInboundConnection(a) ==
    /\ ConnectionCount < MaxInboundConnections
    /\ ipConnections[IpOf[a]] < MaxConnectionsPerIp
    /\ a \notin handshaking
    /\ handshaking' = handshaking \cup {a}
    /\ UNCHANGED ipConnections

\* Mutant: the per-IP limit checked with <=, letting one connection more through.
OutboundAllowedOffByOne(a) ==
    /\ ConnectionCount < MaxOutboundConnections
    /\ ipConnections[IpOf[a]] <= MaxConnectionsPerIp

\* The guards of establish_outbound_connection(addr) (connecting is empty).
OutboundAllowed(a) ==
    /\ ConnectionCount < MaxOutboundConnections
    /\ ipConnections[IpOf[a]] < MaxConnectionsPerIp

\* Mutant: the IP count bumped before the dial's outcome is known.
EstablishCountsEveryDial(a, res) ==
    /\ OutboundAllowed(a)
    /\ ipConnections' = [ipConnections EXCEPT ![IpOf[a]] = @ + 1]
    /\ UNCHANGED handshaking

\* establish_outbound_connection(addr) when its guards pass: a failed or
\* timed-out dial returns an error and changes nothing; a connected socket is
\* handed to the outbound handshake, which always succeeds, and the IP's
\* count goes up although the connection is dropped, not stored.
EstablishOutboundConnection(a, res) ==
    /\ OutboundAllowed(a)
    /\ ipConnections' =
          IF res = "Connected"
          THEN [ipConnections EXCEPT ![IpOf[a]] = @ + 1]
          ELSE ipConnections
    /\ UNCHANGED handshaking

=============================================================================
