--------------------- MODULE ServiceLifecycle_proofs ----------------------
(***************************************************************************)
(* Proofs about ServiceLifecycle for every value of its constants: the     *)
(* channels, the bootstrap counters and stop()'s Disconnect counters stay  *)
(* within their bounds.  TypeOK is not inductive as it stands: stop()      *)
(* copies the peer count it reads into stopPeers, so its index must still  *)
(* be 0 then; each successful bootstrap dial adds a second table entry, so *)
(* the count is bounded by twice the peers inserted, one fewer while a     *)
(* dial is in progress; and the handler counts a Disconnect for each one   *)
(* it takes from the channel, so the handled and the queued Disconnects    *)
(* together are bounded by the ones stop() has sent.                       *)
(***************************************************************************)
EXTENDS ServiceLifecycle, FiniteSetTheorems, TLAPS

\* The positions of the queued Disconnect messages in a channel.
DisconnectIdx(q) == {i \in 1..Len(q) : q[i] = "Disconnect"}

\* The number of Disconnect messages queued in the message channel.
QueuedDisconnects == Cardinality(DisconnectIdx(msgQ))

\* The handler never handles more Disconnect messages than stop() has
\* sent: those it handled and those still queued were all sent by
\* record_disconnection's loop in stop().
DisconnectsSent == disconnected + QueuedDisconnects <= stopIdx

LifecycleInv ==
    /\ TypeOK
    /\ peerCount + (IF mainPc = "connect" THEN 1 ELSE 0) <= 2 * bootIdx
    /\ mainPc \notin {"disconnect", "done"} => stopIdx = 0
    /\ mainPc = "idle" => signalled = {}
    /\ clientMsg \in {"SendMessage", "Broadcast"}
    /\ DisconnectsSent

-----------------------------------------------------------------------------
(* What sending, receiving and dropping do to the queued Disconnects.     *)

LEMMA DisconnectIdxFinite ==
    ASSUME NEW q \in Seq(MsgKinds)
    PROVE  /\ IsFiniteSet(DisconnectIdx(q))
           /\ Cardinality(DisconnectIdx(q)) \in Nat
<1>1. IsFiniteSet(1..Len(q))  BY FS_Interval
<1>2. DisconnectIdx(q) \subseteq 1..Len(q)  BY DEF DisconnectIdx
<1>3. IsFiniteSet(DisconnectIdx(q))  BY <1>1, <1>2, FS_Subset
<1>. QED  BY <1>3, FS_CardinalityType

LEMMA DisconnectIdxEmpty == Cardinality(DisconnectIdx(<<>>)) = 0
<1>1. DisconnectIdx(<<>>) = {}  BY DEF DisconnectIdx
<1>. QED  BY <1>1, FS_EmptySet

\* Appending a message adds a queued Disconnect only when it is one.
LEMMA DisconnectIdxAppend ==
    ASSUME NEW q \in Seq(MsgKinds), NEW k \in MsgKinds
    PROVE  Cardinality(DisconnectIdx(Append(q, k)))
             <= Cardinality(DisconnectIdx(q)) + (IF k = "Disconnect" THEN 1 ELSE 0)
<1>. DEFINE S == DisconnectIdx(q)
            T == DisconnectIdx(Append(q, k))
<1>1. /\ IsFiniteSet(S) /\ Cardinality(S) \in Nat  BY DisconnectIdxFinite
<1>2. CASE k = "Disconnect"
  <2>1. T = S \cup {Len(q) + 1}  BY <1>2 DEF DisconnectIdx
  <2>2. Len(q) + 1 \notin S  BY DEF DisconnectIdx
  <2>3. Cardinality(S \cup {Len(q) + 1}) = Cardinality(S) + 1  BY <1>1, <2>2, FS_AddElement
  <2>4. Cardinality(T) = Cardinality(S) + 1  BY <2>1, <2>3, Zenon
  <2>. QED  BY <1>1, <1>2, <2>4 DEF S, T
<1>3. CASE k # "Disconnect"
  <2>1. T = S  BY <1>3 DEF DisconnectIdx
  <2>. QED  BY <1>1, <1>3, <2>1 DEF S, T
<1>. QED  BY <1>2, <1>3

\* Taking the head off leaves one queued Disconnect fewer when the head
\* is one: shifting every position down by one is an injection.
LEMMA DisconnectIdxTail ==
    ASSUME NEW q \in Seq(MsgKinds), q # <<>>
    PROVE  Cardinality(DisconnectIdx(Tail(q))) + (IF Head(q) = "Disconnect" THEN 1 ELSE 0)
             <= Cardinality(DisconnectIdx(q))
<1>. DEFINE S == DisconnectIdx(q)
            T == DisconnectIdx(Tail(q))
            f == [i \in T |-> i + 1]
<1>1. /\ IsFiniteSet(S) /\ Cardinality(S) \in Nat  BY DisconnectIdxFinite
<1>2. /\ Tail(q) \in Seq(MsgKinds) /\ Len(Tail(q)) = Len(q) - 1
      /\ \A i \in 1..Len(Tail(q)) : Tail(q)[i] = q[i + 1]
  OBVIOUS
<1>3. f \in Injection(T, S \ {1})  BY <1>2 DEF DisconnectIdx, Injection, IsInjective
<1>4. IsFiniteSet(S \ {1})  BY <1>1, FS_RemoveElement
<1>5. Cardinality(T) <= Cardinality(S \ {1})  BY <1>3, <1>4, FS_Injection
<1>6. /\ IsFiniteSet(T) /\ Cardinality(T) \in Nat  BY <1>2, DisconnectIdxFinite
<1>7. Cardinality(S \ {1}) = IF 1 \in S THEN Cardinality(S) - 1 ELSE Cardinality(S)
  BY <1>1, FS_RemoveElement
<1>8. (1 \in S) <=> Head(q) = "Disconnect"  BY DEF DisconnectIdx
<1>. QED  BY <1>1, <1>5, <1>6, <1>7, <1>8 DEF S, T

-----------------------------------------------------------------------------
(* The invariant holds initially and is kept by every step.               *)

LEMMA InitLifecycle == Init => LifecycleInv
<1>. SUFFICES ASSUME Init PROVE LifecycleInv  OBVIOUS
<1>1. QueuedDisconnects = 0  BY DisconnectIdxEmpty DEF Init, QueuedDisconnects
<1>. QED  BY <1>1, LifecycleAssumption DEF MsgKinds, Init, LifecycleInv, TypeOK, DisconnectsSent, QueuedDisconnects

\* The steps that leave the message channel and the Disconnect counters alone.
LEMMA StartListenersStep == ASSUME LifecycleInv, StartListeners PROVE LifecycleInv'
BY LifecycleAssumption DEF Tasks, LifecycleInv, TypeOK, DisconnectsSent, QueuedDisconnects, StartListeners, bootVars, taskVars, clientVars, stopVars

LEMMA StartNatStep == ASSUME LifecycleInv, StartNat PROVE LifecycleInv'
BY LifecycleAssumption DEF LifecycleInv, TypeOK, DisconnectsSent, QueuedDisconnects, StartNat, bootVars, taskVars, clientVars, stopVars

LEMMA BootInsertStep == ASSUME LifecycleInv, BootInsert PROVE LifecycleInv'
BY LifecycleAssumption DEF LifecycleInv, TypeOK, DisconnectsSent, QueuedDisconnects, BootInsert, bootVars, taskVars, clientVars, stopVars

LEMMA BootConnectStep == ASSUME LifecycleInv, BootConnect PROVE LifecycleInv'
BY LifecycleAssumption DEF LifecycleInv, TypeOK, DisconnectsSent, QueuedDisconnects, BootConnect, bootVars, taskVars, clientVars, stopVars

LEMMA StartTasksStep == ASSUME LifecycleInv, StartTasks PROVE LifecycleInv'
BY LifecycleAssumption DEF Tasks, LifecycleInv, TypeOK, DisconnectsSent, QueuedDisconnects, StartTasks, bootVars, taskVars, clientVars, stopVars

LEMMA StopBeginStep == ASSUME LifecycleInv, StopBegin PROVE LifecycleInv'
<1>1. QueuedDisconnects \in Nat  BY DisconnectIdxFinite DEF LifecycleInv, TypeOK, QueuedDisconnects
<1>. QED  BY <1>1, LifecycleAssumption DEF LifecycleInv, TypeOK, DisconnectsSent, QueuedDisconnects, StopBegin, bootVars, taskVars, clientVars, stopVars

LEMMA StopFinishStep == ASSUME LifecycleInv, StopFinish PROVE LifecycleInv'
BY LifecycleAssumption DEF LifecycleInv, TypeOK, DisconnectsSent, QueuedDisconnects, StopFinish, bootVars, taskVars, clientVars, stopVars

LEMMA HandlerRespondStep == ASSUME LifecycleInv, HandlerRespond PROVE LifecycleInv'
BY LifecycleAssumption DEF LifecycleInv, TypeOK, DisconnectsSent, QueuedDisconnects, HandlerRespond, bootVars, taskVars, clientVars, stopVars

LEMMA ConsumeResponseStep == ASSUME LifecycleInv, ConsumeResponse PROVE LifecycleInv'
BY LifecycleAssumption DEF LifecycleInv, TypeOK, DisconnectsSent, QueuedDisconnects, ConsumeResponse, bootVars, taskVars, clientVars, stopVars

LEMMA TaskExitStep ==
    ASSUME LifecycleInv, NEW t \in Tasks, TaskExit(t) PROVE LifecycleInv'
BY LifecycleAssumption DEF LifecycleInv, TypeOK, DisconnectsSent, QueuedDisconnects, TaskExit, bootVars, taskVars, clientVars, stopVars

\* A send that the channel's capacity lets through.
LEMMA SendFacts ==
    ASSUME LifecycleInv, CanSend, NEW k \in MsgKinds, msgQ' = Append(msgQ, k)
    PROVE  /\ msgQ' \in Seq(MsgKinds) /\ Len(msgQ') <= MsgCapacity
           /\ Cardinality(DisconnectIdx(msgQ')) \in Nat
           /\ Cardinality(DisconnectIdx(msgQ'))
                <= QueuedDisconnects + (IF k = "Disconnect" THEN 1 ELSE 0)
<1>1. msgQ \in Seq(MsgKinds) /\ Len(msgQ) < MsgCapacity  BY DEF LifecycleInv, TypeOK, CanSend
<1>2. Cardinality(DisconnectIdx(Append(msgQ, k)))
        <= Cardinality(DisconnectIdx(msgQ)) + (IF k = "Disconnect" THEN 1 ELSE 0)
  BY <1>1, DisconnectIdxAppend
<1>3. Append(msgQ, k) \in Seq(MsgKinds)  BY <1>1
<1>4. Cardinality(DisconnectIdx(Append(msgQ, k))) \in Nat  BY <1>3, DisconnectIdxFinite
<1>5. Len(Append(msgQ, k)) <= MsgCapacity  BY <1>1, LifecycleAssumption
<1>6. Cardinality(DisconnectIdx(msgQ')) = Cardinality(DisconnectIdx(Append(msgQ, k)))  BY Zenon
<1>. QED  BY <1>2, <1>3, <1>4, <1>5, <1>6 DEF QueuedDisconnects

LEMMA QueuedType == ASSUME LifecycleInv PROVE QueuedDisconnects \in Nat
BY DisconnectIdxFinite DEF LifecycleInv, TypeOK, QueuedDisconnects

LEMMA BootNotifyStep == ASSUME LifecycleInv, BootNotify PROVE LifecycleInv'
<1>0. QueuedDisconnects \in Nat  BY QueuedType
<1>1. /\ msgQ' \in Seq(MsgKinds) /\ Len(msgQ') <= MsgCapacity
      /\ Cardinality(DisconnectIdx(msgQ')) <= QueuedDisconnects
      /\ Cardinality(DisconnectIdx(msgQ')) \in Nat
  <2>1. CanSend /\ msgQ' = Append(msgQ, "PeerDiscovered")  BY DEF BootNotify, Send
  <2>2. "PeerDiscovered" \in MsgKinds  BY DEF MsgKinds
  <2>3. Cardinality(DisconnectIdx(msgQ')) <= QueuedDisconnects + (IF "PeerDiscovered" = "Disconnect" THEN 1 ELSE 0)
        /\ Cardinality(DisconnectIdx(msgQ')) \in Nat /\ msgQ' \in Seq(MsgKinds) /\ Len(msgQ') <= MsgCapacity
    BY <2>1, <2>2, SendFacts, Zenon
  <2>. QED  BY <1>0, <2>3
<1>. QED  BY <1>0, <1>1, LifecycleAssumption
         DEF LifecycleInv, TypeOK, DisconnectsSent, QueuedDisconnects, BootNotify, bootVars, taskVars, clientVars, stopVars

LEMMA StopDisconnectStep == ASSUME LifecycleInv, StopDisconnect PROVE LifecycleInv'
<1>1. CASE CanSend /\ Send("Disconnect")
  <2>1. /\ msgQ' \in Seq(MsgKinds) /\ Len(msgQ') <= MsgCapacity
        /\ Cardinality(DisconnectIdx(msgQ')) <= QueuedDisconnects + 1
        /\ Cardinality(DisconnectIdx(msgQ')) \in Nat
    <3>1. CanSend /\ msgQ' = Append(msgQ, "Disconnect")  BY <1>1 DEF Send
    <3>2. "Disconnect" \in MsgKinds  BY DEF MsgKinds
    <3>. QED  BY <3>1, <3>2, SendFacts
  <2>. QED  BY <2>1, QueuedType, LifecycleAssumption
         DEF LifecycleInv, TypeOK, DisconnectsSent, QueuedDisconnects, StopDisconnect, bootVars, taskVars, clientVars, stopVars
<1>2. CASE ~RxOpen /\ UNCHANGED msgQ
  BY <1>2, QueuedType, LifecycleAssumption
     DEF LifecycleInv, TypeOK, DisconnectsSent, QueuedDisconnects, StopDisconnect, bootVars, taskVars, clientVars, stopVars
<1>. QED  BY <1>1, <1>2 DEF StopDisconnect

LEMMA HandlerRecvStep == ASSUME LifecycleInv, HandlerRecv PROVE LifecycleInv'
<1>1. msgQ \in Seq(MsgKinds) /\ msgQ # <<>>  BY DEF LifecycleInv, TypeOK, HandlerRecv
<1>2. Cardinality(DisconnectIdx(Tail(msgQ))) + (IF Head(msgQ) = "Disconnect" THEN 1 ELSE 0)
        <= QueuedDisconnects
  BY <1>1, DisconnectIdxTail DEF QueuedDisconnects
<1>3. /\ Tail(msgQ) \in Seq(MsgKinds) /\ Len(Tail(msgQ)) <= Len(msgQ)
      /\ Cardinality(DisconnectIdx(Tail(msgQ))) \in Nat
  <2>1. Tail(msgQ) \in Seq(MsgKinds) /\ Len(Tail(msgQ)) <= Len(msgQ)  BY <1>1
  <2>. QED  BY <2>1, DisconnectIdxFinite
<1>4. /\ msgQ' \in Seq(MsgKinds) /\ Len(msgQ') <= Len(msgQ)
      /\ Cardinality(DisconnectIdx(msgQ')) \in Nat
      /\ disconnected' + Cardinality(DisconnectIdx(msgQ')) <= disconnected + QueuedDisconnects
  <2>1. msgQ' = Tail(msgQ)  BY DEF HandlerRecv
  <2>2. disconnected' = disconnected + (IF Head(msgQ) = "Disconnect" THEN 1 ELSE 0)
    BY DEF HandlerRecv
  <2>3. disconnected \in Nat  BY DEF LifecycleInv, TypeOK
  <2>. QED  BY <1>2, <1>3, <2>1, <2>2, <2>3, QueuedType
<1>. QED  BY <1>4, QueuedType, LifecycleAssumption
         DEF LifecycleInv, TypeOK, DisconnectsSent, QueuedDisconnects, HandlerRecv, bootVars, taskVars, clientVars, stopVars

LEMMA HandlerExitStep == ASSUME LifecycleInv, HandlerExit PROVE LifecycleInv'
<1>1. Cardinality(DisconnectIdx(msgQ')) = 0  BY DisconnectIdxEmpty DEF HandlerExit
<1>. QED  BY <1>1, QueuedType, LifecycleAssumption
         DEF LifecycleInv, TypeOK, DisconnectsSent, QueuedDisconnects, HandlerExit, bootVars, taskVars, clientVars, stopVars

\* An API call or its wake-up queues a SendMessage or Broadcast, never a
\* Disconnect.
LEMMA ClientSend ==
    ASSUME LifecycleInv, CanSend, NEW k \in {"SendMessage", "Broadcast"},
           msgQ' = Append(msgQ, k)
    PROVE  /\ msgQ' \in Seq(MsgKinds) /\ Len(msgQ') <= MsgCapacity
           /\ Cardinality(DisconnectIdx(msgQ')) \in Nat
           /\ Cardinality(DisconnectIdx(msgQ')) <= QueuedDisconnects
<1>1. k \in MsgKinds /\ k # "Disconnect"  BY DEF MsgKinds
<1>2. /\ msgQ' \in Seq(MsgKinds) /\ Len(msgQ') <= MsgCapacity
      /\ Cardinality(DisconnectIdx(msgQ')) \in Nat
      /\ Cardinality(DisconnectIdx(msgQ'))
           <= QueuedDisconnects + (IF k = "Disconnect" THEN 1 ELSE 0)
  BY <1>1, SendFacts, Zenon
<1>. QED  BY <1>1, <1>2, QueuedType

LEMMA ClientCallStep ==
    ASSUME LifecycleInv, NEW kind \in {"SendMessage", "Broadcast"}, ClientCall(kind)
    PROVE  LifecycleInv'
<1>1. CASE CanSend
  <2>1. msgQ' = Append(msgQ, kind)  BY <1>1 DEF ClientCall, Send
  <2>2. /\ msgQ' \in Seq(MsgKinds) /\ Len(msgQ') <= MsgCapacity
        /\ Cardinality(DisconnectIdx(msgQ')) \in Nat
        /\ Cardinality(DisconnectIdx(msgQ')) <= QueuedDisconnects
    BY <1>1, <2>1, ClientSend
  <2>. QED  BY <1>1, <2>2, QueuedType, LifecycleAssumption
         DEF LifecycleInv, TypeOK, DisconnectsSent, QueuedDisconnects, ClientCall, MsgKinds, bootVars, taskVars, clientVars, stopVars
<1>2. CASE ~CanSend
  BY <1>2, QueuedType, LifecycleAssumption
     DEF LifecycleInv, TypeOK, DisconnectsSent, QueuedDisconnects, ClientCall, MsgKinds, bootVars, taskVars, clientVars, stopVars
<1>. QED  BY <1>1, <1>2

LEMMA ClientWakeStep == ASSUME LifecycleInv, ClientWake PROVE LifecycleInv'
<1>1. CASE CanSend /\ Send(clientMsg)
  <2>1. msgQ' = Append(msgQ, clientMsg) /\ clientMsg \in {"SendMessage", "Broadcast"}
    BY <1>1 DEF Send, LifecycleInv
  <2>2. /\ msgQ' \in Seq(MsgKinds) /\ Len(msgQ') <= MsgCapacity
        /\ Cardinality(DisconnectIdx(msgQ')) \in Nat
        /\ Cardinality(DisconnectIdx(msgQ')) <= QueuedDisconnects
    BY <1>1, <2>1, ClientSend
  <2>. QED  BY <2>2, QueuedType, LifecycleAssumption
         DEF LifecycleInv, TypeOK, DisconnectsSent, QueuedDisconnects, ClientWake, bootVars, taskVars, clientVars, stopVars
<1>2. CASE ~RxOpen /\ UNCHANGED msgQ
  BY <1>2, QueuedType, LifecycleAssumption
     DEF LifecycleInv, TypeOK, DisconnectsSent, QueuedDisconnects, ClientWake, bootVars, taskVars, clientVars, stopVars
<1>. QED  BY <1>1, <1>2 DEF ClientWake

LEMMA NextLifecycle == ASSUME LifecycleInv, [Next]_vars PROVE LifecycleInv'
<1>1. CASE UNCHANGED vars
  BY <1>1 DEF vars, LifecycleInv, TypeOK, DisconnectsSent, QueuedDisconnects, RxOpen
<1>. QED
  BY <1>1, StartListenersStep, StartNatStep, BootInsertStep, BootConnectStep,
     BootNotifyStep, StartTasksStep, StopBeginStep, StopDisconnectStep,
     StopFinishStep, HandlerRecvStep, HandlerRespondStep, HandlerExitStep,
     TaskExitStep, ConsumeResponseStep, ClientCallStep, ClientWakeStep
  DEF Next

LEMMA LifecycleInvariant == Spec => []LifecycleInv
BY InitLifecycle, NextLifecycle, PTL DEF Spec

-----------------------------------------------------------------------------

\* service.rs: for any listeners, flags, bootstrap peers, table cap,
\* channel capacities and number of API calls, the bounded message and
\* response channels never hold more than their capacity, the peer table
\* count stays within two entries per discovered peer, and stop()'s
\* Disconnect index and the handler's count of handled Disconnects stay
\* within the peer ids stop() read.
THEOREM LifecycleTypeCorrect == Spec => []TypeOK
BY LifecycleInvariant, PTL DEF LifecycleInv

=============================================================================
