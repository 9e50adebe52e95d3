----------------------------- MODULE Admission -----------------------------
(***************************************************************************)
(* network/service.rs, NetworkService: how peers get into the peer table   *)
(* and the connection counters, and how stop() takes them out again.       *)
(*                                                                         *)
(* Actors:                                                                 *)
(*  - dialers: each runs bootstrap_peer_connections() once, over the list  *)
(*    of peers the discovery bootstrap returns (the constant Seeds).  The  *)
(*    dialer StartDialer is start(); the others are calls of               *)
(*    NetworkServiceInterfaceTrait::trigger_peer_discovery on the running  *)
(*    service, which runs the same function concurrently with it;          *)
(*  - the accept loop of a listener (handle_incoming_connections);         *)
(*  - stop().                                                              *)
(* Every await on one of the service's RwLocks (peers, sybil_protection,   *)
(* connection_manager) is a point where the actors interleave; the code    *)
(* between two such awaits is one action.                                  *)
(***************************************************************************)
EXTENDS SybilProtection, ConnectionManager, Sequences, FiniteSets

CONSTANTS
    Dialers,        \* the tasks that run bootstrap_peer_connections
    StartDialer,    \* the one that start() runs
    Seeds,          \* the peers PeerDiscovery::bootstrap returns, in order
    MaxPeers,       \* config.max_peers
    NoPeer          \* an absent entry of the peer table

ASSUME AdmissionAssumption ==
    /\ IsFiniteSet(Dialers)
    /\ StartDialer \in Dialers
    /\ Seeds \in Seq(Addr)
    /\ MaxPeers \in Nat
    /\ NoPeer \notin Addr

(***************************************************************************)
(* Peer ids.  The discovery bootstrap names a peer by a hash of its        *)
(* address (discovery.rs generate_temporary_peer_id); the outbound         *)
(* handshake gives the connection a fresh random id (connection.rs         *)
(* generate_temporary_peer_id).  Random ids are taken to be distinct and   *)
(* are numbered in the order they are drawn.                               *)
(***************************************************************************)
DiscId(a) == <<"disc", a>>
ConnId(n) == <<"conn", n>>
MaxConnIds == Cardinality(Dialers) * Len(Seeds)
PeerIds == {DiscId(a) : a \in Addr} \cup {ConnId(n) : n \in 1..MaxConnIds}

Statuses == {"Stopped", "Starting", "Running", "Stopping"}

\* Where a dialer is in bootstrap_peer_connections / connect_to_peer.
DialPcs == {"idle", "insert", "check", "allowed", "establish", "record",
            "store", "done"}

VARIABLES
    status,         \* *self.status
    listenerUp,     \* the accept loop task is running
    shutdown,       \* shutdown_signal has been sent
    peers,          \* self.peers: PeerId -> address (NoPeer = absent)
    dialPc,         \* program counter of each dialer
    dialIdx,        \* index into Seeds of the peer each dialer is at
    nextConn,       \* the number of random connection ids drawn so far
    stopPc,         \* program counter of stop()
    stopTodo        \* entries of peers stop() has still to visit

svcVars == <<status, listenerUp, shutdown, peers, dialPc, dialIdx, nextConn,
             stopPc, stopTodo>>
vars == <<svcVars, sybilVars, cmVars>>

\* The entries of the peer table.
PeerEntries == {id \in PeerIds : peers[id] # NoPeer}

\* The address a dialer is working on.
DialAddr(d) == Seeds[dialIdx[d]]

TypeOK ==
    /\ SybilTypeOK
    /\ CMTypeOK
    /\ status \in Statuses
    /\ listenerUp \in BOOLEAN
    /\ shutdown \in BOOLEAN
    /\ peers \in [PeerIds -> Addr \cup {NoPeer}]
    /\ dialPc \in [Dialers -> DialPcs]
    /\ dialIdx \in [Dialers -> 1..Len(Seeds) \cup {1}]
    /\ nextConn \in 0..MaxConnIds
    /\ stopPc \in {"none", "record", "disconnect", "done"}
    /\ stopTodo \subseteq PeerIds

\* NetworkService::new: status Stopped, empty peer table, nothing running.
Init ==
    /\ SybilInit
    /\ CMInit
    /\ status = "Stopped"
    /\ listenerUp = FALSE
    /\ shutdown = FALSE
    /\ peers = [id \in PeerIds |-> NoPeer]
    /\ dialPc = [d \in Dialers |-> "idle"]
    /\ dialIdx = [d \in Dialers |-> 1]
    /\ nextConn = 0
    /\ stopPc = "none"
    /\ stopTodo = {}

(***************************************************************************)
(* start(), up to the bootstrap: status Starting, a listener bound and its *)
(* accept loop spawned, then bootstrap_peer_connections on this task.      *)
(* The NAT and UPnP steps are taken as disabled (see ServiceLifecycle).    *)
(***************************************************************************)
StartBegin ==
    /\ status = "Stopped"
    /\ stopPc = "none"
    /\ status' = "Starting"
    /\ listenerUp' = TRUE
    /\ dialPc' = [dialPc EXCEPT ![StartDialer] = "insert"]
    /\ UNCHANGED <<shutdown, peers, dialIdx, nextConn, stopPc, stopTodo,
                   sybilVars, cmVars>>

\* The rest of start() once the bootstrap has returned: the block
\* propagation set-up, the maintenance, message-handler and health-checker
\* tasks (none of which touches this state), then status Running.
StartFinish ==
    /\ status = "Starting"
    /\ dialPc[StartDialer] = "done"
    /\ status' = "Running"
    /\ UNCHANGED <<listenerUp, shutdown, peers, dialPc, dialIdx, nextConn,
                   stopPc, stopTodo, sybilVars, cmVars>>

\* trigger_peer_discovery on the running service: another
\* bootstrap_peer_connections, concurrent with whatever else runs.
TriggerPeerDiscovery(d) ==
    /\ d # StartDialer
    /\ status = "Running"
    /\ dialPc[d] = "idle"
    /\ dialPc' = [dialPc EXCEPT ![d] = "insert"]
    /\ UNCHANGED <<status, listenerUp, shutdown, peers, dialIdx, nextConn,
                   stopPc, stopTodo, sybilVars, cmVars>>

\* stop() holds the peers read lock from its first loop to the end of it;
\* no write to the peer table can happen meanwhile.
PeersReadLocked == stopPc = "record"

\* The loop moves on to the next discovered peer, or returns.
NextSeed(d) ==
    IF dialIdx[d] < Len(Seeds)
    THEN /\ dialIdx' = [dialIdx EXCEPT ![d] = @ + 1]
         /\ dialPc' = [dialPc EXCEPT ![d] = "insert"]
    ELSE /\ dialPc' = [dialPc EXCEPT ![d] = "done"]
         /\ UNCHANGED dialIdx

\* Line 381: peers.write().insert(peer.id, peer), keyed by the address hash.
\* An empty discovery result ends the loop at once.
DialInsert(d) ==
    /\ dialPc[d] = "insert"
    /\ ~PeersReadLocked
    /\ IF Len(Seeds) = 0
       THEN /\ dialPc' = [dialPc EXCEPT ![d] = "done"]
            /\ UNCHANGED peers
       ELSE /\ peers' = [peers EXCEPT ![DiscId(DialAddr(d))] = DialAddr(d)]
            /\ dialPc' = [dialPc EXCEPT ![d] = "check"]
    /\ UNCHANGED <<status, listenerUp, shutdown, dialIdx, nextConn, stopPc,
                   stopTodo, sybilVars, cmVars>>

\* Line 384: peers.read().len() < max_peers, else break out of the loop.
DialCheck(d) ==
    /\ dialPc[d] = "check"
    /\ IF Cardinality(PeerEntries) < MaxPeers
       THEN dialPc' = [dialPc EXCEPT ![d] = "allowed"]
       ELSE dialPc' = [dialPc EXCEPT ![d] = "done"]
    /\ UNCHANGED <<status, listenerUp, shutdown, peers, dialIdx, nextConn,
                   stopPc, stopTodo, sybilVars, cmVars>>

\* Line 399: sybil_protection.read().is_connection_allowed(addr); a refusal
\* is an Err that the loop logs before it moves on.
DialAllowed(d) ==
    /\ dialPc[d] = "allowed"
    /\ IF IsConnectionAllowed(DialAddr(d))
       THEN /\ dialPc' = [dialPc EXCEPT ![d] = "establish"]
            /\ UNCHANGED dialIdx
       ELSE NextSeed(d)
    /\ UNCHANGED <<status, listenerUp, shutdown, peers, nextConn, stopPc,
                   stopTodo, sybilVars, cmVars>>

\* Lines 404-405: connection_manager.write().establish_outbound_connection,
\* the whole call under the write lock.  An Err (a limit, a refused or
\* timed-out dial) moves the loop on.
DialEstablish(d) ==
    /\ dialPc[d] = "establish"
    /\ \E res \in DialResults :
          IF OutboundAllowed(DialAddr(d))
          THEN /\ EstablishOutboundConnection(DialAddr(d), res)
               /\ IF res = "Connected"
                  THEN /\ dialPc' = [dialPc EXCEPT ![d] = "record"]
                       /\ UNCHANGED dialIdx
                  ELSE NextSeed(d)
          ELSE /\ NextSeed(d)
               /\ UNCHANGED cmVars
    /\ UNCHANGED <<status, listenerUp, shutdown, peers, nextConn, stopPc,
                   stopTodo, sybilVars>>

\* Line 418: sybil_protection.write().record_connection(addr).
DialRecord(d) ==
    /\ dialPc[d] = "record"
    /\ RecordConnection(DialAddr(d))
    /\ dialPc' = [dialPc EXCEPT ![d] = "store"]
    /\ UNCHANGED <<status, listenerUp, shutdown, peers, dialIdx, nextConn,
                   stopPc, stopTodo, cmVars>>

\* Line 420: peers.write().insert(connection.peer_id, peer_info), under the
\* connection's random id; the PeerDiscovered message of line 423 makes the
\* message handler insert the same entry again, which changes nothing.
DialStore(d) ==
    /\ dialPc[d] = "store"
    /\ ~PeersReadLocked
    /\ nextConn < MaxConnIds
    /\ peers' = [peers EXCEPT ![ConnId(nextConn + 1)] = DialAddr(d)]
    /\ nextConn' = nextConn + 1
    /\ NextSeed(d)
    /\ UNCHANGED <<status, listenerUp, shutdown, stopPc, stopTodo,
                   sybilVars, cmVars>>

\* The accept loop: a socket accepted from addr goes to
\* handle_inbound_connection under the manager's write lock; a rejection is
\* only logged.  The loop checks the shutdown signal only while it waits
\* for the next socket, so one more accept can follow the signal.
Accept(a) ==
    /\ listenerUp
    /\ HandleInboundConnection(a)
    /\ UNCHANGED <<svcVars, sybilVars>>

\* The select! of the accept loop takes the shutdown branch.
ListenerExit ==
    /\ listenerUp
    /\ shutdown
    /\ listenerUp' = FALSE
    /\ UNCHANGED <<status, shutdown, peers, dialPc, dialIdx, nextConn,
                   stopPc, stopTodo, sybilVars, cmVars>>

(***************************************************************************)
(* stop(), called by main once start() has returned: status Stopping, the  *)
(* shutdown signal, then record_disconnection for every value of the peer  *)
(* table, under its read lock, then the Disconnect messages (which         *)
(* ConnectionManager::disconnect ignores: no connection is stored), then   *)
(* status Stopped.                                                         *)
(***************************************************************************)
StopBegin ==
    /\ status = "Running"
    /\ stopPc = "none"
    /\ status' = "Stopping"
    /\ shutdown' = TRUE
    /\ stopPc' = "record"
    /\ stopTodo' = PeerEntries
    /\ UNCHANGED <<listenerUp, peers, dialPc, dialIdx, nextConn,
                   sybilVars, cmVars>>

\* Lines 619-621: one iteration of the loop over peers.values().
StopRecord(id) ==
    /\ stopPc = "record"
    /\ id \in stopTodo
    /\ RecordDisconnection(peers[id])
    /\ stopTodo' = stopTodo \ {id}
    /\ UNCHANGED <<status, listenerUp, shutdown, peers, dialPc, dialIdx,
                   nextConn, stopPc, cmVars>>

\* The loop ends and the read lock is released.
StopUnlock ==
    /\ stopPc = "record"
    /\ stopTodo = {}
    /\ stopPc' = "disconnect"
    /\ UNCHANGED <<status, listenerUp, shutdown, peers, dialPc, dialIdx,
                   nextConn, stopTodo, sybilVars, cmVars>>

\* Lines 623-635: the Disconnect messages, then status Stopped.
StopEnd ==
    /\ stopPc = "disconnect"
    /\ status' = "Stopped"
    /\ stopPc' = "done"
    /\ UNCHANGED <<listenerUp, shutdown, peers, dialPc, dialIdx, nextConn,
                   stopTodo, sybilVars, cmVars>>

Next ==
    \/ StartBegin
    \/ StartFinish
    \/ \E d \in Dialers :
          \/ TriggerPeerDiscovery(d)
          \/ DialInsert(d)
          \/ DialCheck(d)
          \/ DialAllowed(d)
          \/ DialEstablish(d)
          \/ DialRecord(d)
          \/ DialStore(d)
    \/ \E a \in Addr : Accept(a)
    \/ ListenerExit
    \/ StopBegin
    \/ \E id \in PeerIds : StopRecord(id)
    \/ StopUnlock
    \/ StopEnd

Spec == Init /\ [][Next]_vars

-----------------------------------------------------------------------------
(***************************************************************************)
(* Properties.                                                             *)
(***************************************************************************)

\* The entries that connect_to_peer stored, under a connection's random id.
ConnEntries == {id \in PeerEntries : \E n \in 1..MaxConnIds : id = ConnId(n)}

\* Dialers that are between two steps of connect_to_peer for an IP.
DialersAt(pc, ip) == {d \in Dialers : dialPc[d] = pc /\ IpOf[DialAddr(d)] = ip}

\* Per-IP cap of the connection manager: however the dialers interleave, no
\* IP gets more than max_connections_per_ip outbound connections counted in
\* ip_connections.  It rests on establish_outbound_connection checking the
\* count and incrementing it under one write lock held across its awaits.
PerIpCap == \A ip \in Ip : ipConnections[ip] <= MaxConnectionsPerIp

\* Until stop() begins, the three records of an outbound connection agree:
\* the connection manager's ip_connections, the Sybil per-IP counter and the
\* peer table's connection entries, up to the dialers that are between
\* establish_outbound_connection (404), record_connection (418) and the
\* peer-table insert (420).  A count bumped on a failed dial, a record that
\* is skipped or doubled, or an entry stored twice breaks it.
CountersAgree ==
    stopPc = "none" =>
      \A ip \in Ip :
        /\ connectionCounts[ip] =
              Cardinality({id \in ConnEntries : IpOf[peers[id]] = ip})
              + Cardinality(DialersAt("store", ip))
        /\ ipConnections[ip] =
              connectionCounts[ip] + Cardinality(DialersAt("record", ip))

\* The dialer states past the insert of line 381.
DialBusy == {"check", "allowed", "establish", "record", "store"}

\* The inductive strengthening of TypeOK and PerIpCap: a dialer past the
\* insert of line 381 is working on a peer of a non-empty discovery result,
\* and stop() visits only entries that the peer table holds.
AdmissionInductive ==
    /\ TypeOK
    /\ PerIpCap
    /\ \A d \in Dialers : dialPc[d] \in DialBusy => Len(Seeds) > 0
    /\ stopTodo \subseteq PeerEntries

=============================================================================
