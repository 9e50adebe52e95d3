-------------------------- MODULE ServiceLifecycle --------------------------
(***************************************************************************)
(* network/service.rs, the life of a NetworkService as main.rs drives it:  *)
(* start (listeners, NAT discovery, UPnP mapping, the bootstrap dials and  *)
(* their PeerDiscovered notifications, the background tasks), the message  *)
(* handler and the bounded message channel, the response channel and the   *)
(* task of main that drains it, API calls made after start returned, and   *)
(* stop with its shutdown broadcast and Disconnect messages.               *)
(*                                                                         *)
(* What the peer table, the connection manager and the Sybil counters do   *)
(* on these paths is modelled in Admission; here a dial either succeeds or *)
(* fails, the table is a count of its entries (discovery ids and           *)
(* connection ids are distinct), and a message is its kind.  Accepting a   *)
(* socket and the maintenance tick change nothing this module tracks, so   *)
(* a listener and the maintenance task only wait for the shutdown signal.  *)
(* The message channel never reports closed to the handler: the service    *)
(* holds a sender for as long as it lives.                                 *)
(***************************************************************************)
EXTENDS Naturals, Sequences, FiniteSets

CONSTANTS
    Listeners,      \* config.listen_addresses
    EnableNat,      \* config.enable_nat_traversal
    EnableUpnp,     \* config.enable_upnp
    BootSeeds,      \* the number of peers bootstrap() discovers
    MaxPeers,       \* config.max_peers
    MsgCapacity,    \* mpsc::channel(100) of NetworkMessage
    RespCapacity,   \* mpsc::channel(100) of NetworkResponse
    ApiCalls        \* bound on the send_message / broadcast calls explored

ASSUME LifecycleAssumption ==
    /\ EnableNat \in BOOLEAN /\ EnableUpnp \in BOOLEAN
    /\ BootSeeds \in Nat /\ MaxPeers \in Nat /\ ApiCalls \in Nat
    /\ MsgCapacity \in Nat \ {0} /\ RespCapacity \in Nat \ {0}

\* The background tasks that select on the shutdown signal.
Tasks == Listeners \cup {"maintenance", "handler"}

MsgKinds == {"PeerDiscovered", "SendMessage", "Broadcast", "Disconnect"}

\* NatTraversal::default() (service.rs:871), which NetworkService::new
\* installs: no STUN servers and UPnP disabled, whatever the config says.
NatStunServers == {}
NatUpnpEnabled == FALSE

\* discover_nat_type: Ok(Unknown) without STUN servers; query_stun_server
\* is a placeholder that always succeeds.
DiscoverNatTypeOk == TRUE

\* try_upnp_port_mapping: Err("UPnP is disabled") unless upnp_enabled.
TryUpnpPortMappingOk == NatUpnpEnabled

VARIABLES
    status,         \* *self.status
    mainPc,         \* where main, in start or stop, is
    bound,          \* the listeners that bound, each with its accept task
    subscribers,    \* the shutdown_signal receivers, by task
    signalled,      \* the receivers the shutdown value was sent to
    exited,         \* the background tasks that have returned
    bootIdx,        \* the position in the bootstrap result
    peerCount,      \* self.peers.len()
    msgQ,           \* the queued NetworkMessages, by kind
    handlerPc,      \* the message handler task
    respQ,          \* the number of queued NetworkResponses
    clientPc,       \* an API caller: idle, or waiting in send().await
    clientMsg,      \* the kind the API caller is sending
    calls,          \* the API calls made
    stopPeers,      \* the peer ids stop() read from the table
    stopIdx,        \* the Disconnect messages stop() has sent or failed
    disconnected    \* the Disconnect messages the handler has handled

vars == <<status, mainPc, bound, subscribers, signalled, exited, bootIdx,
          peerCount, msgQ, handlerPc, respQ, clientPc, clientMsg, calls,
          stopPeers, stopIdx, disconnected>>

\* The message receiver is dropped when the handler task returns.
RxOpen == handlerPc # "exited"

TypeOK ==
    /\ status \in {"Stopped", "Starting", "Running", "Stopping"}
    /\ mainPc \in {"idle", "nat", "boot", "connect", "notify", "tasks",
                   "running", "disconnect", "done", "failed"}
    /\ bound \subseteq Listeners
    /\ subscribers \subseteq Tasks /\ signalled \subseteq subscribers
    /\ exited \subseteq signalled
    /\ bootIdx \in 0..BootSeeds
    /\ peerCount \in 0..(2 * BootSeeds)
    /\ msgQ \in Seq(MsgKinds) /\ Len(msgQ) <= MsgCapacity
    /\ handlerPc \in {"unspawned", "loop", "respond", "exited"}
    /\ respQ \in 0..RespCapacity
    /\ clientPc \in {"idle", "blocked"} /\ clientMsg \in MsgKinds
    /\ calls \in 0..ApiCalls
    /\ stopPeers \in 0..(2 * BootSeeds) /\ stopIdx \in 0..stopPeers
    /\ disconnected \in 0..stopPeers

\* NetworkService::new.
Init ==
    /\ status = "Stopped"
    /\ mainPc = "idle"
    /\ bound = {} /\ subscribers = {} /\ signalled = {} /\ exited = {}
    /\ bootIdx = 0 /\ peerCount = 0
    /\ msgQ = <<>>
    /\ handlerPc = "unspawned"
    /\ respQ = 0
    /\ clientPc = "idle" /\ clientMsg = "SendMessage" /\ calls = 0
    /\ stopPeers = 0 /\ stopIdx = 0 /\ disconnected = 0

bootVars == <<bootIdx, peerCount>>
taskVars == <<bound, subscribers, signalled, exited>>
clientVars == <<clientPc, clientMsg, calls>>
stopVars == <<stopPeers, stopIdx, disconnected>>

\* _message_tx.send(msg).await: it waits while the channel is full and
\* fails at once, or wakes with an error, when the receiver is dropped.
\* Mutant: a send goes through with the channel already full.
CanSendPastCapacity == RxOpen /\ Len(msgQ) <= MsgCapacity

\* Mutant: a send waits while the channel has one free slot.
CanSendOneShort == RxOpen /\ Len(msgQ) < MsgCapacity - 1

CanSend == RxOpen /\ Len(msgQ) < MsgCapacity

Send(kind) == msgQ' = Append(msgQ, kind)

-----------------------------------------------------------------------------
(* start(), called once by main.                                           *)

\* status Starting; start_listeners binds each listen address it can and
\* spawns its accept task, subscribed to the shutdown signal; none bound is
\* an error that start returns.
StartListeners ==
    /\ mainPc = "idle"
    /\ status' = "Starting"
    /\ \E b \in SUBSET Listeners :
          /\ bound' = b
          /\ subscribers' = b
          /\ mainPc' = IF b = {} THEN "failed" ELSE "nat"
    /\ UNCHANGED <<signalled, exited, bootVars, msgQ, handlerPc, respQ,
                   clientVars, stopVars>>

\* discover_nat_type()? when NAT traversal is enabled, then
\* try_upnp_port_mapping(port)? for each listener when UPnP is enabled:
\* an error of either returns from start, the listeners left running.
StartNat ==
    /\ mainPc = "nat"
    /\ mainPc' = IF \/ EnableNat /\ ~DiscoverNatTypeOk
                    \/ EnableUpnp /\ ~TryUpnpPortMappingOk
                 THEN "failed" ELSE "boot"
    /\ UNCHANGED <<status, taskVars, bootVars, msgQ, handlerPc, respQ,
                   clientVars, stopVars>>

\* bootstrap_peer_connections, one discovered peer: insert it into the
\* table, then dial it if the table is below max_peers, else break.
BootInsert ==
    /\ mainPc = "boot"
    /\ IF bootIdx < BootSeeds
       THEN /\ bootIdx' = bootIdx + 1
            /\ peerCount' = peerCount + 1
            /\ mainPc' = IF peerCount + 1 < MaxPeers THEN "connect" ELSE "tasks"
       ELSE /\ mainPc' = "tasks"
            /\ UNCHANGED bootVars
    /\ UNCHANGED <<status, taskVars, msgQ, handlerPc, respQ, clientVars, stopVars>>

\* connect_to_peer: refused or failed (logged, next peer), or connected
\* and its connection id inserted into the table.
BootConnect ==
    /\ mainPc = "connect"
    /\ \/ mainPc' = "boot" /\ UNCHANGED peerCount
       \/ mainPc' = "notify" /\ peerCount' = peerCount + 1
    /\ UNCHANGED <<status, taskVars, bootIdx, msgQ, handlerPc, respQ,
                   clientVars, stopVars>>

\* connect_to_peer: _message_tx.send(PeerDiscovered).await.  No handler
\* runs yet, so only the channel's capacity lets it through.
BootNotify ==
    /\ mainPc = "notify"
    /\ CanSend
    /\ Send("PeerDiscovered")
    /\ mainPc' = "boot"
    /\ UNCHANGED <<status, taskVars, bootVars, handlerPc, respQ, clientVars, stopVars>>

\* setup_block_propagation, start_maintenance_tasks and
\* start_message_handler (each task subscribed before it is spawned); the
\* metrics feature is off, so no health checker; status Running.
\* Mutant: the handler subscribes to the shutdown signal only from inside
\* its task, after stop may have sent it.
StartTasksLateSubscribe ==
    /\ mainPc = "tasks"
    /\ subscribers' = subscribers \cup {"maintenance"}
    /\ handlerPc' = "loop"
    /\ status' = "Running"
    /\ mainPc' = "running"
    /\ UNCHANGED <<bound, signalled, exited, bootVars, msgQ, respQ,
                   clientVars, stopVars>>

StartTasks ==
    /\ mainPc = "tasks"
    /\ subscribers' = subscribers \cup {"maintenance", "handler"}
    /\ handlerPc' = "loop"
    /\ status' = "Running"
    /\ mainPc' = "running"
    /\ UNCHANGED <<bound, signalled, exited, bootVars, msgQ, respQ,
                   clientVars, stopVars>>

-----------------------------------------------------------------------------
(* stop(), called by main after ctrl_c.                                    *)

\* status Stopping, shutdown_signal.send(()) to every receiver, the
\* record_disconnection loop, and the peer ids read from the table.
StopBegin ==
    /\ mainPc = "running"
    /\ status' = "Stopping"
    /\ signalled' = subscribers
    /\ stopPeers' = peerCount
    /\ mainPc' = "disconnect"
    /\ UNCHANGED <<bound, subscribers, exited, bootVars, msgQ, handlerPc,
                   respQ, clientVars, stopIdx, disconnected>>

\* One Disconnect(peer_id, Normal) sent, or failed because the handler
\* has dropped the receiver.
\* Mutant: a send to a dropped receiver waits instead of failing.
StopDisconnectWaits ==
    /\ mainPc = "disconnect"
    /\ stopIdx < stopPeers
    /\ CanSend /\ Send("Disconnect")
    /\ stopIdx' = stopIdx + 1
    /\ UNCHANGED <<status, mainPc, taskVars, bootVars, handlerPc, respQ,
                   clientVars, stopPeers, disconnected>>

StopDisconnect ==
    /\ mainPc = "disconnect"
    /\ stopIdx < stopPeers
    /\ \/ CanSend /\ Send("Disconnect")
       \/ ~RxOpen /\ UNCHANGED msgQ
    /\ stopIdx' = stopIdx + 1
    /\ UNCHANGED <<status, mainPc, taskVars, bootVars, handlerPc, respQ,
                   clientVars, stopPeers, disconnected>>

\* status Stopped; stop returns Ok.
StopFinish ==
    /\ mainPc = "disconnect"
    /\ stopIdx = stopPeers
    /\ status' = "Stopped"
    /\ mainPc' = "done"
    /\ UNCHANGED <<taskVars, bootVars, msgQ, handlerPc, respQ, clientVars, stopVars>>

-----------------------------------------------------------------------------
(* The background tasks.                                                   *)

\* start_message_handler, the recv branch, and handle_network_message:
\* PeerDiscovered re-inserts a peer already in the table, Disconnect calls
\* ConnectionManager::disconnect, and SendMessage and Broadcast go on to
\* send their result on the response channel.
HandlerRecv ==
    /\ handlerPc = "loop"
    /\ msgQ # <<>>
    /\ msgQ' = Tail(msgQ)
    /\ handlerPc' = IF Head(msgQ) \in {"SendMessage", "Broadcast"}
                    THEN "respond" ELSE "loop"
    /\ disconnected' = IF Head(msgQ) = "Disconnect" THEN disconnected + 1
                       ELSE disconnected
    /\ UNCHANGED <<status, mainPc, taskVars, bootVars, respQ, clientVars,
                   stopPeers, stopIdx>>

\* response_tx.send(response).await: it waits while the response channel
\* is full; main's task never drops the receiver.
HandlerRespond ==
    /\ handlerPc = "respond"
    /\ respQ < RespCapacity
    /\ respQ' = respQ + 1
    /\ handlerPc' = "loop"
    /\ UNCHANGED <<status, mainPc, taskVars, bootVars, msgQ, clientVars, stopVars>>

\* The shutdown branch of the handler's select!, which tokio may take
\* while messages are queued: the task returns and the receiver, with the
\* messages still buffered in it, is dropped.
HandlerExit ==
    /\ handlerPc = "loop"
    /\ "handler" \in signalled
    /\ handlerPc' = "exited"
    /\ exited' = exited \cup {"handler"}
    /\ msgQ' = <<>>
    /\ UNCHANGED <<status, mainPc, bound, subscribers, signalled, bootVars,
                   respQ, clientVars, stopVars>>

\* An accept loop (handle_incoming_connections) or the maintenance task
\* takes the shutdown branch of its select! and returns.
TaskExit(t) ==
    /\ t \in signalled \ exited
    /\ t # "handler"
    /\ exited' = exited \cup {t}
    /\ UNCHANGED <<status, mainPc, bound, subscribers, signalled, bootVars,
                   msgQ, handlerPc, respQ, clientVars, stopVars>>

\* main.rs: the task that receives the responses and logs them.  It stops
\* at a Shutdown response, which nothing sends.
ConsumeResponse ==
    /\ respQ > 0
    /\ respQ' = respQ - 1
    /\ UNCHANGED <<status, mainPc, taskVars, bootVars, msgQ, handlerPc,
                   clientVars, stopVars>>

-----------------------------------------------------------------------------
(* API calls, once start has returned Ok.                                  *)

\* send_message or broadcast: _message_tx.send(..).await, which fails
\* when the receiver is dropped and waits when the channel is full.
ClientCall(kind) ==
    /\ clientPc = "idle"
    /\ calls < ApiCalls
    /\ mainPc \in {"running", "disconnect", "done"}
    /\ calls' = calls + 1
    /\ clientMsg' = kind
    /\ IF CanSend
       THEN Send(kind) /\ UNCHANGED clientPc
       ELSE /\ clientPc' = IF RxOpen THEN "blocked" ELSE "idle"
            /\ UNCHANGED msgQ
    /\ UNCHANGED <<status, mainPc, taskVars, bootVars, handlerPc, respQ, stopVars>>

\* The waiting send completes when there is room, or fails when the
\* receiver is dropped.
ClientWake ==
    /\ clientPc = "blocked"
    /\ \/ CanSend /\ Send(clientMsg)
       \/ ~RxOpen /\ UNCHANGED msgQ
    /\ clientPc' = "idle"
    /\ UNCHANGED <<status, mainPc, taskVars, bootVars, handlerPc, respQ,
                   clientMsg, calls, stopVars>>

Next ==
    \/ StartListeners \/ StartNat \/ BootInsert \/ BootConnect \/ BootNotify
    \/ StartTasks
    \/ StopBegin \/ StopDisconnect \/ StopFinish
    \/ HandlerRecv \/ HandlerRespond \/ HandlerExit
    \/ \E t \in Tasks : TaskExit(t)
    \/ ConsumeResponse
    \/ \E kind \in {"SendMessage", "Broadcast"} : ClientCall(kind)
    \/ ClientWake

\* tokio runs every task that is ready, so each task that can take a step
\* eventually does.  main's ctrl_c and the API caller's calls are not
\* forced.
Fairness ==
    /\ WF_vars(StartListeners) /\ WF_vars(StartNat) /\ WF_vars(BootInsert)
    /\ WF_vars(BootConnect) /\ WF_vars(BootNotify) /\ WF_vars(StartTasks)
    /\ WF_vars(StopDisconnect) /\ WF_vars(StopFinish)
    /\ WF_vars(HandlerRecv) /\ WF_vars(HandlerRespond) /\ WF_vars(HandlerExit)
    /\ \A t \in Tasks : WF_vars(TaskExit(t))
    /\ WF_vars(ConsumeResponse) /\ WF_vars(ClientWake)

Spec == Init /\ [][Next]_vars /\ Fairness

-----------------------------------------------------------------------------

\* Spec section 4.11 and scenario S1: once a listener is bound, start goes
\* on to Running (NAT discovery and the UPnP mapping being best-effort),
\* whichever dials succeed, although every successful bootstrap dial
\* waits for room in a message channel that nobody reads yet.
StartCompletes ==
    (status = "Starting" /\ bound # {}) ~> (status = "Running")

\* stop() always returns: none of its Disconnect sends waits forever on the
\* full message channel, whether the handler is still draining it or has
\* already dropped it on the shutdown signal.
StopCompletes == (status = "Stopping") ~> (status = "Stopped")

\* The background tasks start has spawned.
Spawned == bound \cup (IF handlerPc = "unspawned" THEN {} ELSE {"maintenance", "handler"})

\* Spec section 5 (cancellation): every background task selects on the
\* shutdown signal and exits once stop sends it, the handler included when it is waiting
\* on a full response channel or on a long queue of messages.
TasksExit == (status = "Stopping") ~> (exited = Spawned)

=============================================================================
