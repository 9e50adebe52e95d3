-------------------------- MODULE Admission_proofs --------------------------
(***************************************************************************)
(* Proofs about Admission that hold for every value of the constants:      *)
(* the type invariant, and the per-IP cap of the connection manager under  *)
(* any number of concurrent bootstraps, which follow from the inductive    *)
(* invariant AdmissionInductive; and the agreement of the three            *)
(* connection counts, from AgreeInv on top of it.                          *)
(***************************************************************************)
EXTENDS Admission, FiniteSetTheorems, TLAPS

\* The facts about the constants that the steps below need.
LEMMA ConstantFacts ==
    /\ MaxConnIds \in Nat
    /\ Len(Seeds) \in Nat
    /\ \A i \in 1..Len(Seeds) : Seeds[i] \in Addr
    /\ \A a \in Addr : IpOf[a] \in Ip
    /\ \A ip \in Ip : SubnetOf[ip] \in Subnet
    /\ NoPeer \notin Addr
    /\ MaxConnectionsPerIp \in Nat
    /\ StartDialer \in Dialers
<1>1. Cardinality(Dialers) \in Nat
  BY AdmissionAssumption, FS_CardinalityType
<1>2. Len(Seeds) \in Nat /\ \A i \in 1..Len(Seeds) : Seeds[i] \in Addr
  BY AdmissionAssumption
<1>. QED
  BY <1>1, <1>2, AddressAssumption, AdmissionAssumption,
     ConnectionLimitsAssumption DEF MaxConnIds

\* A dialer that is past the insert works on an address of Seeds.
LEMMA DialAddrType ==
    ASSUME TypeOK, NEW d \in Dialers, Len(Seeds) > 0
    PROVE  DialAddr(d) \in Addr
BY ConstantFacts DEF TypeOK, DialAddr

\* The three Sybil updates keep the counters' types.
LEMMA SybilUpdateType ==
    ASSUME SybilTypeOK, NEW a \in Addr,
           RecordConnection(a) \/ RecordDisconnection(a)
    PROVE  SybilTypeOK'
<1>1. IpOf[a] \in Ip /\ GetSubnetForIp(IpOf[a]) \in Subnet
       /\ GetAsnForIp(IpOf[a]) \in Asn
  BY ConstantFacts DEF GetSubnetForIp, GetAsnForIp, Asn
<1>2. \A n \in Nat : SatDec(n) \in Nat /\ n + 1 \in Nat
  BY DEF SatDec
<1>3. CASE RecordConnection(a)
  BY <1>1, <1>2, <1>3 DEF SybilTypeOK, RecordConnection
<1>4. CASE RecordDisconnection(a)
  BY <1>1, <1>2, <1>4 DEF SybilTypeOK, RecordDisconnection
<1>. QED
  BY <1>3, <1>4

\* The peer table only gains entries: an action that changes it writes an
\* address into one of its keys.
LEMMA PeersWrite ==
    ASSUME TypeOK, stopTodo \subseteq PeerEntries,
           NEW id \in PeerIds, NEW a \in Addr,
           peers' = [peers EXCEPT ![id] = a], stopTodo' = stopTodo
    PROVE  /\ peers' \in [PeerIds -> Addr \cup {NoPeer}]
           /\ stopTodo' \subseteq PeerEntries'
BY ConstantFacts DEF TypeOK, PeerEntries

-----------------------------------------------------------------------------

\* Init establishes the inductive invariant.
LEMMA InitInductive == Init => AdmissionInductive
<1>. SUFFICES ASSUME Init PROVE AdmissionInductive
  OBVIOUS
<1>1. SybilTypeOK /\ CMTypeOK
  BY DEF Init, SybilInit, CMInit, SybilTypeOK, CMTypeOK, Asn
<1>2. peers \in [PeerIds -> Addr \cup {NoPeer}] /\ PeerEntries = {}
  BY ConstantFacts DEF Init, PeerEntries
<1>3. /\ dialPc \in [Dialers -> DialPcs]
      /\ dialIdx \in [Dialers -> 1..Len(Seeds) \cup {1}]
      /\ nextConn \in 0..MaxConnIds
  BY ConstantFacts DEF Init, DialPcs
<1>4. PerIpCap
  BY ConstantFacts DEF Init, CMInit, PerIpCap
<1>. QED
  BY <1>1, <1>2, <1>3, <1>4
     DEF Init, AdmissionInductive, TypeOK, Statuses, DialBusy


\* StartBegin preserves the inductive invariant.
LEMMA StartBeginInv ==
    ASSUME AdmissionInductive, StartBegin
    PROVE  AdmissionInductive'
BY ConstantFacts DEF AdmissionInductive, TypeOK, PerIpCap, PeerEntries, sybilVars, cmVars,
    SybilTypeOK, CMTypeOK, Statuses, DialPcs, DialBusy, StartBegin

\* StartFinish preserves the inductive invariant.
LEMMA StartFinishInv ==
    ASSUME AdmissionInductive, StartFinish
    PROVE  AdmissionInductive'
BY ConstantFacts DEF AdmissionInductive, TypeOK, PerIpCap, PeerEntries, sybilVars, cmVars,
    SybilTypeOK, CMTypeOK, Statuses, DialPcs, DialBusy, StartFinish

\* TriggerPeerDiscovery(d) preserves the inductive invariant.
LEMMA TriggerInv ==
    ASSUME AdmissionInductive, NEW d \in Dialers, TriggerPeerDiscovery(d)
    PROVE  AdmissionInductive'
BY ConstantFacts DEF AdmissionInductive, TypeOK, PerIpCap, PeerEntries, sybilVars, cmVars,
    SybilTypeOK, CMTypeOK, Statuses, DialPcs, DialBusy, TriggerPeerDiscovery

\* DialCheck(d) preserves the inductive invariant.
LEMMA DialCheckInv ==
    ASSUME AdmissionInductive, NEW d \in Dialers, DialCheck(d)
    PROVE  AdmissionInductive'
BY ConstantFacts DEF AdmissionInductive, TypeOK, PerIpCap, PeerEntries, sybilVars, cmVars,
    SybilTypeOK, CMTypeOK, Statuses, DialPcs, DialBusy, DialCheck

\* ListenerExit preserves the inductive invariant.
LEMMA ListenerExitInv ==
    ASSUME AdmissionInductive, ListenerExit
    PROVE  AdmissionInductive'
BY ConstantFacts DEF AdmissionInductive, TypeOK, PerIpCap, PeerEntries, sybilVars, cmVars,
    SybilTypeOK, CMTypeOK, Statuses, DialPcs, DialBusy, ListenerExit

\* StopBegin preserves the inductive invariant.
LEMMA StopBeginInv ==
    ASSUME AdmissionInductive, StopBegin
    PROVE  AdmissionInductive'
BY ConstantFacts DEF AdmissionInductive, TypeOK, PerIpCap, PeerEntries, sybilVars, cmVars,
    SybilTypeOK, CMTypeOK, Statuses, DialPcs, DialBusy, StopBegin

\* StopUnlock preserves the inductive invariant.
LEMMA StopUnlockInv ==
    ASSUME AdmissionInductive, StopUnlock
    PROVE  AdmissionInductive'
BY ConstantFacts DEF AdmissionInductive, TypeOK, PerIpCap, PeerEntries, sybilVars, cmVars,
    SybilTypeOK, CMTypeOK, Statuses, DialPcs, DialBusy, StopUnlock

\* StopEnd preserves the inductive invariant.
LEMMA StopEndInv ==
    ASSUME AdmissionInductive, StopEnd
    PROVE  AdmissionInductive'
BY ConstantFacts DEF AdmissionInductive, TypeOK, PerIpCap, PeerEntries, sybilVars, cmVars,
    SybilTypeOK, CMTypeOK, Statuses, DialPcs, DialBusy, StopEnd

\* Accept(a) preserves the inductive invariant.
LEMMA AcceptInv ==
    ASSUME AdmissionInductive, NEW a \in Addr, Accept(a)
    PROVE  AdmissionInductive'
BY ConstantFacts DEF AdmissionInductive, TypeOK, PerIpCap, PeerEntries, sybilVars, cmVars,
    SybilTypeOK, CMTypeOK, Statuses, DialPcs, DialBusy, Accept, svcVars,
    HandleInboundConnection

\* NextSeed moves the dialer to the next peer or ends its loop: the index
\* stays in range and the dialer leaves the states past the insert.
LEMMA NextSeedType ==
    ASSUME NEW d \in Dialers,
           dialIdx \in [Dialers -> 1..Len(Seeds) \cup {1}],
           dialPc \in [Dialers -> DialPcs], NextSeed(d)
    PROVE  /\ dialIdx' \in [Dialers -> 1..Len(Seeds) \cup {1}]
           /\ dialPc' \in [Dialers -> DialPcs]
           /\ dialPc'[d] \notin DialBusy
           /\ \A e \in Dialers \ {d} : dialPc'[e] = dialPc[e]
BY ConstantFacts DEF NextSeed, DialPcs, DialBusy


\* DialInsert(d) preserves the inductive invariant.
LEMMA DialInsertInv ==
    ASSUME AdmissionInductive, NEW d \in Dialers, DialInsert(d)
    PROVE  AdmissionInductive'
<1>1. CASE Len(Seeds) = 0
  BY <1>1, ConstantFacts DEF DialInsert, AdmissionInductive, TypeOK, PerIpCap, PeerEntries, sybilVars,
       cmVars, SybilTypeOK, CMTypeOK, Statuses, DialPcs, DialBusy
<1>2. CASE Len(Seeds) # 0
  <2>1. DialAddr(d) \in Addr /\ DiscId(DialAddr(d)) \in PeerIds
    BY <1>2, DialAddrType, ConstantFacts DEF AdmissionInductive, PeerIds
  <2>2. /\ peers' \in [PeerIds -> Addr \cup {NoPeer}]
        /\ stopTodo' \subseteq PeerEntries'
    BY <1>2, <2>1, PeersWrite DEF DialInsert, AdmissionInductive
  <2>3. /\ dialPc' = [dialPc EXCEPT ![d] = "check"]
        /\ UNCHANGED <<status, listenerUp, shutdown, dialIdx, nextConn,
                       stopPc, sybilVars, cmVars>>
    BY <1>2 DEF DialInsert
  <2>4. /\ dialPc' \in [Dialers -> DialPcs]
        /\ \A e \in Dialers : dialPc'[e] \in DialBusy => Len(Seeds) > 0
    BY <1>2, <2>3, ConstantFacts DEF AdmissionInductive, TypeOK, DialPcs
  <2>. QED
    BY <2>2, <2>3, <2>4 DEF AdmissionInductive, TypeOK, PerIpCap, PeerEntries, sybilVars,
       cmVars, SybilTypeOK, CMTypeOK, Statuses, DialPcs, DialBusy
<1>. QED
  BY <1>1, <1>2

\* DialAllowed(d) preserves the inductive invariant.
LEMMA DialAllowedInv ==
    ASSUME AdmissionInductive, NEW d \in Dialers, DialAllowed(d)
    PROVE  AdmissionInductive'
<1>1. CASE IsConnectionAllowed(DialAddr(d))
  BY <1>1, ConstantFacts DEF DialAllowed, AdmissionInductive, TypeOK, PerIpCap, PeerEntries, sybilVars,
       cmVars, SybilTypeOK, CMTypeOK, Statuses, DialPcs, DialBusy
<1>2. CASE ~IsConnectionAllowed(DialAddr(d))
  <2>1. NextSeed(d)
    BY <1>2 DEF DialAllowed
  <2>. QED
    BY <1>2, <2>1, NextSeedType, ConstantFacts DEF DialAllowed, AdmissionInductive, TypeOK, PerIpCap, PeerEntries, sybilVars,
       cmVars, SybilTypeOK, CMTypeOK, Statuses, DialPcs, DialBusy
<1>. QED
  BY <1>1, <1>2

\* DialEstablish(d) preserves the inductive invariant; the per-IP cap is
\* kept because the increment follows the check of OutboundAllowed in the
\* same step.
LEMMA DialEstablishInv ==
    ASSUME AdmissionInductive, NEW d \in Dialers, DialEstablish(d)
    PROVE  AdmissionInductive'
<1>1. PICK res \in DialResults :
        IF OutboundAllowed(DialAddr(d))
        THEN /\ EstablishOutboundConnection(DialAddr(d), res)
             /\ IF res = "Connected"
                THEN /\ dialPc' = [dialPc EXCEPT ![d] = "record"]
                     /\ UNCHANGED dialIdx
                ELSE NextSeed(d)
        ELSE /\ NextSeed(d)
             /\ UNCHANGED cmVars
  BY DEF DialEstablish
<1>2. DialAddr(d) \in Addr /\ IpOf[DialAddr(d)] \in Ip
  BY DialAddrType, ConstantFacts DEF DialEstablish, AdmissionInductive, DialBusy
<1>. DEFINE ip0 == IpOf[DialAddr(d)]
<1>3. CASE OutboundAllowed(DialAddr(d)) /\ res = "Connected"
  <2>1. /\ ipConnections' = [ipConnections EXCEPT ![ip0] = @ + 1]
        /\ ipConnections[ip0] < MaxConnectionsPerIp
        /\ dialPc' = [dialPc EXCEPT ![d] = "record"]
        /\ UNCHANGED <<dialIdx, handshaking>>
    BY <1>1, <1>3 DEF EstablishOutboundConnection, OutboundAllowed
  <2>2. CMTypeOK' /\ PerIpCap'
    BY <1>2, <2>1, ConstantFacts DEF AdmissionInductive, TypeOK, CMTypeOK, PerIpCap
  <2>. QED
    BY <1>2, <2>1, <2>2, ConstantFacts DEF DialEstablish, AdmissionInductive, TypeOK, PerIpCap, PeerEntries, sybilVars,
       cmVars, SybilTypeOK, CMTypeOK, Statuses, DialPcs, DialBusy
<1>4. CASE OutboundAllowed(DialAddr(d)) /\ res # "Connected"
  <2>1. NextSeed(d) /\ UNCHANGED cmVars
    BY <1>1, <1>4 DEF EstablishOutboundConnection, cmVars
  <2>. QED
    BY <2>1, NextSeedType, ConstantFacts DEF DialEstablish, AdmissionInductive, TypeOK, PerIpCap, PeerEntries, sybilVars,
       cmVars, SybilTypeOK, CMTypeOK, Statuses, DialPcs, DialBusy
<1>5. CASE ~OutboundAllowed(DialAddr(d))
  <2>1. NextSeed(d) /\ UNCHANGED cmVars
    BY <1>1, <1>5
  <2>. QED
    BY <2>1, NextSeedType, ConstantFacts DEF DialEstablish, AdmissionInductive, TypeOK, PerIpCap, PeerEntries, sybilVars,
       cmVars, SybilTypeOK, CMTypeOK, Statuses, DialPcs, DialBusy
<1>. QED
  BY <1>3, <1>4, <1>5

\* DialRecord(d) preserves the inductive invariant.
LEMMA DialRecordInv ==
    ASSUME AdmissionInductive, NEW d \in Dialers, DialRecord(d)
    PROVE  AdmissionInductive'
<1>1. DialAddr(d) \in Addr
  BY DialAddrType DEF DialRecord, AdmissionInductive, DialBusy
<1>2. SybilTypeOK'
  BY <1>1, SybilUpdateType DEF DialRecord, AdmissionInductive, TypeOK
<1>. QED
  BY <1>2, ConstantFacts DEF DialRecord, AdmissionInductive, TypeOK, PerIpCap, PeerEntries, sybilVars,
       cmVars, SybilTypeOK, CMTypeOK, Statuses, DialPcs, DialBusy

\* DialStore(d) preserves the inductive invariant.
LEMMA DialStoreInv ==
    ASSUME AdmissionInductive, NEW d \in Dialers, DialStore(d)
    PROVE  AdmissionInductive'
<1>1. DialAddr(d) \in Addr /\ ConnId(nextConn + 1) \in PeerIds
  BY DialAddrType, ConstantFacts
     DEF DialStore, AdmissionInductive, TypeOK, DialBusy, PeerIds
<1>2. /\ peers' \in [PeerIds -> Addr \cup {NoPeer}]
      /\ stopTodo' \subseteq PeerEntries'
  BY <1>1, PeersWrite DEF DialStore, AdmissionInductive
<1>3. NextSeed(d)
  BY DEF DialStore
<1>4. /\ dialIdx' \in [Dialers -> 1..Len(Seeds) \cup {1}]
      /\ dialPc' \in [Dialers -> DialPcs]
      /\ \A e \in Dialers : dialPc'[e] \in DialBusy => Len(Seeds) > 0
  BY <1>3, NextSeedType DEF AdmissionInductive, TypeOK
<1>5. /\ nextConn' \in 0..MaxConnIds
      /\ UNCHANGED <<status, listenerUp, shutdown, stopPc, sybilVars, cmVars>>
  BY ConstantFacts DEF DialStore, AdmissionInductive, TypeOK
<1>. QED
  BY <1>2, <1>4, <1>5 DEF AdmissionInductive, TypeOK, PerIpCap, sybilVars,
     cmVars, SybilTypeOK, CMTypeOK, Statuses, PeerEntries

\* StopRecord(id) preserves the inductive invariant.
LEMMA StopRecordInv ==
    ASSUME AdmissionInductive, NEW id \in PeerIds, StopRecord(id)
    PROVE  AdmissionInductive'
<1>1. peers[id] \in Addr
  BY DEF StopRecord, AdmissionInductive, TypeOK, PeerEntries
<1>2. SybilTypeOK'
  BY <1>1, SybilUpdateType DEF StopRecord, AdmissionInductive, TypeOK
<1>. QED
  BY <1>2, ConstantFacts DEF StopRecord, AdmissionInductive, TypeOK, PerIpCap, PeerEntries, sybilVars,
       cmVars, SybilTypeOK, CMTypeOK, Statuses, DialPcs, DialBusy

\* A stuttering step leaves the invariant as it is.
LEMMA StutterInv ==
    ASSUME AdmissionInductive, UNCHANGED vars
    PROVE  AdmissionInductive'
BY DEF AdmissionInductive, TypeOK, PerIpCap, PeerEntries, vars, svcVars,
   sybilVars, cmVars, SybilTypeOK, CMTypeOK

\* Every step of Next, or a stutter, preserves the inductive invariant.
LEMMA NextInductive ==
    AdmissionInductive /\ [Next]_vars => AdmissionInductive'
<1>. SUFFICES ASSUME AdmissionInductive, [Next]_vars
             PROVE  AdmissionInductive'
  OBVIOUS
<1>1. CASE \E d \in Dialers :
             \/ TriggerPeerDiscovery(d)
             \/ DialInsert(d)
             \/ DialCheck(d)
             \/ DialAllowed(d)
             \/ DialEstablish(d)
             \/ DialRecord(d)
             \/ DialStore(d)
  BY <1>1, TriggerInv, DialInsertInv, DialCheckInv, DialAllowedInv,
     DialEstablishInv, DialRecordInv, DialStoreInv
<1>2. CASE \E a \in Addr : Accept(a)
  BY <1>2, AcceptInv
<1>3. CASE \E id \in PeerIds : StopRecord(id)
  BY <1>3, StopRecordInv
<1>. QED
  BY <1>1, <1>2, <1>3, StartBeginInv, StartFinishInv, ListenerExitInv,
     StopBeginInv, StopUnlockInv, StopEndInv, StutterInv DEF Next

-----------------------------------------------------------------------------
(***************************************************************************)
(* CountersAgree.  Three counts move in three different lock sections of   *)
(* connect_to_peer: ip_connections at the establish (404), the Sybil       *)
(* counter at record_connection (418) and the peer table at the insert     *)
(* (420).  The dialers between two of them make up the difference.  The    *)
(* proof needs one more fact: the connection id the next insert draws has  *)
(* no entry yet, so every insert adds an entry.                            *)
(***************************************************************************)

\* The random connection ids not drawn yet have no entry in the table.
FreshConnIds ==
    \A n \in 1..MaxConnIds : n > nextConn => peers[ConnId(n)] = NoPeer

\* The stored connection entries whose address has a given IP.
ConnEntriesOf(ip) == {id \in ConnEntries : IpOf[peers[id]] = ip}

\* Until the first stop, a stopped service has no bootstrap running.
IdleBeforeStart ==
    status = "Stopped" /\ stopPc = "none" => \A d \in Dialers : dialPc[d] = "idle"

AgreeInv == FreshConnIds /\ IdleBeforeStart /\ CountersAgree

\* The connection ids there are.
ConnIdSet == {ConnId(n) : n \in 1..MaxConnIds}

LEMMA ConnIdSetFinite == IsFiniteSet(ConnIdSet)
<1>1. IsFiniteSet(1..MaxConnIds)  BY ConstantFacts, FS_Interval
<1>2. [n \in 1..MaxConnIds |-> ConnId(n)] \in Surjection(1..MaxConnIds, ConnIdSet)
  BY DEF Surjection, ConnIdSet
<1>. QED  BY <1>1, <1>2, FS_Surjection

\* The sets of dialers and of connection entries that the counts are
\* taken of are finite.
LEMMA DialerSetFinite ==
    ASSUME NEW S \in SUBSET Dialers
    PROVE  IsFiniteSet(S) /\ Cardinality(S) \in Nat
BY AdmissionAssumption, FS_Subset, FS_CardinalityType

LEMMA ConnSetFinite ==
    ASSUME NEW S \in SUBSET ConnIdSet
    PROVE  IsFiniteSet(S) /\ Cardinality(S) \in Nat
BY ConnIdSetFinite, FS_Subset, FS_CardinalityType

\* A step that leaves the table, the id counter and both counters alone,
\* and no dialer enters or leaves record or store for any IP, keeps
\* CountersAgree.
LEMMA AgreeFrame ==
    ASSUME AgreeInv, IdleBeforeStart',
           UNCHANGED <<peers, nextConn, connectionCounts, ipConnections, stopPc>>,
           \A ip \in Ip : /\ DialersAt("record", ip)' = DialersAt("record", ip)
                          /\ DialersAt("store", ip)' = DialersAt("store", ip)
    PROVE  AgreeInv'
<1>1. FreshConnIds'  BY DEF AgreeInv, FreshConnIds
<1>2. ConnEntries' = ConnEntries  BY DEF ConnEntries, PeerEntries
<1>3. CountersAgree'
  BY <1>2 DEF AgreeInv, CountersAgree
<1>. QED  BY <1>1, <1>3 DEF AgreeInv

\* One dialer moves between two states other than record and store, its
\* index perhaps with it, and no other dialer moves.
LEMMA PcFrame ==
    ASSUME NEW d \in Dialers,
           dialPc[d] \notin {"record", "store"}, dialPc'[d] \notin {"record", "store"},
           \A e \in Dialers \ {d} : dialPc'[e] = dialPc[e] /\ dialIdx'[e] = dialIdx[e]
    PROVE  \A ip \in Ip : /\ DialersAt("record", ip)' = DialersAt("record", ip)
                          /\ DialersAt("store", ip)' = DialersAt("store", ip)
BY DEF DialersAt, DialAddr

\* NextSeed moves only its own dialer, to the insert or out of the loop.
LEMMA NextSeedFrame ==
    ASSUME TypeOK, NEW d \in Dialers, NextSeed(d)
    PROVE  /\ dialPc'[d] \in {"insert", "done"}
           /\ \A e \in Dialers \ {d} : dialPc'[e] = dialPc[e] /\ dialIdx'[e] = dialIdx[e]
BY DEF TypeOK, NextSeed

\* The steps of stop() leave the table and the id counter alone, and
\* CountersAgree says nothing once stop has begun.
LEMMA AgreeStop ==
    ASSUME AgreeInv, stopPc' # "none", UNCHANGED <<peers, nextConn>>
    PROVE  AgreeInv'
BY DEF AgreeInv, FreshConnIds, IdleBeforeStart, CountersAgree


\* A step of a dialer that is running keeps IdleBeforeStart.
LEMMA IdleDial ==
    ASSUME IdleBeforeStart, NEW d \in Dialers, dialPc[d] # "idle",
           UNCHANGED <<status, stopPc>>
    PROVE  IdleBeforeStart'
BY DEF IdleBeforeStart

LEMMA StartBeginAgree ==
    ASSUME AdmissionInductive, AgreeInv, StartBegin PROVE AgreeInv'
<1>1. dialPc[StartDialer] = "idle"  BY ConstantFacts DEF StartBegin, AgreeInv, IdleBeforeStart
<1>2. IdleBeforeStart'  BY DEF StartBegin, IdleBeforeStart
<1>3. /\ dialPc'[StartDialer] = "insert"
      /\ \A e \in Dialers \ {StartDialer} : dialPc'[e] = dialPc[e] /\ dialIdx'[e] = dialIdx[e]
  BY ConstantFacts DEF StartBegin, AdmissionInductive, TypeOK
<1>4. \A ip \in Ip : /\ DialersAt("record", ip)' = DialersAt("record", ip)
                     /\ DialersAt("store", ip)' = DialersAt("store", ip)
  BY <1>1, <1>3, ConstantFacts, PcFrame
<1>. QED  BY <1>2, <1>4, AgreeFrame DEF StartBegin, sybilVars, cmVars

LEMMA StartFinishAgree ==
    ASSUME AgreeInv, StartFinish PROVE AgreeInv'
<1>1. IdleBeforeStart'  BY DEF StartFinish, IdleBeforeStart
<1>2. \A ip \in Ip : /\ DialersAt("record", ip)' = DialersAt("record", ip)
                     /\ DialersAt("store", ip)' = DialersAt("store", ip)
  BY DEF StartFinish, DialersAt, DialAddr
<1>. QED  BY <1>1, <1>2, AgreeFrame DEF StartFinish, sybilVars, cmVars

LEMMA TriggerAgree ==
    ASSUME AdmissionInductive, AgreeInv, NEW d \in Dialers, TriggerPeerDiscovery(d)
    PROVE  AgreeInv'
<1>1. IdleBeforeStart'  BY DEF TriggerPeerDiscovery, IdleBeforeStart
<1>2. /\ dialPc'[d] = "insert" /\ dialPc[d] = "idle"
      /\ \A e \in Dialers \ {d} : dialPc'[e] = dialPc[e] /\ dialIdx'[e] = dialIdx[e]
  BY DEF TriggerPeerDiscovery, AdmissionInductive, TypeOK
<1>3. \A ip \in Ip : /\ DialersAt("record", ip)' = DialersAt("record", ip)
                     /\ DialersAt("store", ip)' = DialersAt("store", ip)
  BY <1>2, PcFrame
<1>. QED  BY <1>1, <1>3, AgreeFrame DEF TriggerPeerDiscovery, sybilVars, cmVars

LEMMA DialCheckAgree ==
    ASSUME AdmissionInductive, AgreeInv, NEW d \in Dialers, DialCheck(d)
    PROVE  AgreeInv'
<1>1. IdleBeforeStart'  BY IdleDial DEF DialCheck, AgreeInv
<1>2. /\ dialPc'[d] \in {"allowed", "done"} /\ dialPc[d] = "check"
      /\ \A e \in Dialers \ {d} : dialPc'[e] = dialPc[e] /\ dialIdx'[e] = dialIdx[e]
  BY DEF DialCheck, AdmissionInductive, TypeOK
<1>3. \A ip \in Ip : /\ DialersAt("record", ip)' = DialersAt("record", ip)
                     /\ DialersAt("store", ip)' = DialersAt("store", ip)
  BY <1>2, PcFrame
<1>. QED  BY <1>1, <1>3, AgreeFrame DEF DialCheck, sybilVars, cmVars

LEMMA DialAllowedAgree ==
    ASSUME AdmissionInductive, AgreeInv, NEW d \in Dialers, DialAllowed(d)
    PROVE  AgreeInv'
<1>1. IdleBeforeStart'  BY IdleDial DEF DialAllowed, AgreeInv
<1>2. /\ dialPc'[d] \in {"establish", "insert", "done"} /\ dialPc[d] = "allowed"
      /\ \A e \in Dialers \ {d} : dialPc'[e] = dialPc[e] /\ dialIdx'[e] = dialIdx[e]
  <2>1. CASE IsConnectionAllowed(DialAddr(d))
    BY <2>1 DEF DialAllowed, AdmissionInductive, TypeOK
  <2>2. CASE ~IsConnectionAllowed(DialAddr(d))
    BY <2>2, NextSeedFrame DEF DialAllowed, AdmissionInductive
  <2>. QED  BY <2>1, <2>2
<1>3. \A ip \in Ip : /\ DialersAt("record", ip)' = DialersAt("record", ip)
                     /\ DialersAt("store", ip)' = DialersAt("store", ip)
  BY <1>2, PcFrame
<1>. QED  BY <1>1, <1>3, AgreeFrame DEF DialAllowed, sybilVars, cmVars

LEMMA AcceptAgree ==
    ASSUME AgreeInv, NEW a \in Addr, Accept(a) PROVE AgreeInv'
<1>1. IdleBeforeStart'  BY DEF Accept, svcVars, AgreeInv, IdleBeforeStart
<1>2. \A ip \in Ip : /\ DialersAt("record", ip)' = DialersAt("record", ip)
                     /\ DialersAt("store", ip)' = DialersAt("store", ip)
  BY DEF Accept, svcVars, DialersAt, DialAddr
<1>. QED  BY <1>1, <1>2, AgreeFrame DEF Accept, HandleInboundConnection, svcVars, sybilVars

LEMMA ListenerExitAgree ==
    ASSUME AgreeInv, ListenerExit PROVE AgreeInv'
<1>1. IdleBeforeStart'  BY DEF ListenerExit, AgreeInv, IdleBeforeStart
<1>2. \A ip \in Ip : /\ DialersAt("record", ip)' = DialersAt("record", ip)
                     /\ DialersAt("store", ip)' = DialersAt("store", ip)
  BY DEF ListenerExit, DialersAt, DialAddr
<1>. QED  BY <1>1, <1>2, AgreeFrame DEF ListenerExit, sybilVars, cmVars

LEMMA StopStepsAgree ==
    ASSUME AgreeInv,
           \/ StopBegin \/ StopUnlock \/ StopEnd
           \/ \E id \in PeerIds : StopRecord(id)
    PROVE  AgreeInv'
BY AgreeStop DEF StopBegin, StopUnlock, StopEnd, StopRecord


\* The insert of line 381 writes a discovery id, which is never a
\* connection id: the connection entries stay as they are.
LEMMA DialInsertAgree ==
    ASSUME AdmissionInductive, AgreeInv, NEW d \in Dialers, DialInsert(d)
    PROVE  AgreeInv'
<1>1. IdleBeforeStart'  BY IdleDial DEF DialInsert, AgreeInv
<1>2. /\ dialPc'[d] \in {"check", "done"} /\ dialPc[d] = "insert"
      /\ \A e \in Dialers \ {d} : dialPc'[e] = dialPc[e] /\ dialIdx'[e] = dialIdx[e]
  BY DEF DialInsert, AdmissionInductive, TypeOK
<1>3. \A ip \in Ip : /\ DialersAt("record", ip)' = DialersAt("record", ip)
                     /\ DialersAt("store", ip)' = DialersAt("store", ip)
  BY <1>2, PcFrame
<1>4. CASE Len(Seeds) = 0
  BY <1>1, <1>3, <1>4, AgreeFrame DEF DialInsert, sybilVars, cmVars
<1>5. CASE Len(Seeds) # 0
  <2>1. DialAddr(d) \in Addr /\ DiscId(DialAddr(d)) \in PeerIds
    BY <1>5, DialAddrType, ConstantFacts DEF AdmissionInductive, PeerIds
  <2>2. peers' = [peers EXCEPT ![DiscId(DialAddr(d))] = DialAddr(d)]
    BY <1>5 DEF DialInsert
  <2>3. \A n \in 1..MaxConnIds : peers'[ConnId(n)] = peers[ConnId(n)]
    BY <2>1, <2>2 DEF AdmissionInductive, TypeOK, DiscId, ConnId
  <2>4. FreshConnIds'  BY <2>3 DEF AgreeInv, FreshConnIds, DialInsert
  <2>5. /\ ConnEntries' = ConnEntries
        /\ \A id \in ConnEntries : peers'[id] = peers[id]
    BY <2>3 DEF ConnEntries, PeerEntries
  <2>6. CountersAgree'
    BY <1>3, <2>5 DEF AgreeInv, CountersAgree, DialInsert, sybilVars, cmVars
  <2>. QED  BY <1>1, <2>4, <2>6 DEF AgreeInv
<1>. QED  BY <1>4, <1>5

\* The establish of line 404: a connected dial counts the IP in
\* ip_connections and moves its dialer to record; any other outcome moves
\* it on to the next peer without counting.
LEMMA DialEstablishAgree ==
    ASSUME AdmissionInductive, AgreeInv, NEW d \in Dialers, DialEstablish(d)
    PROVE  AgreeInv'
<1>1. PICK res \in DialResults :
        IF OutboundAllowed(DialAddr(d))
        THEN /\ EstablishOutboundConnection(DialAddr(d), res)
             /\ IF res = "Connected"
                THEN /\ dialPc' = [dialPc EXCEPT ![d] = "record"]
                     /\ UNCHANGED dialIdx
                ELSE NextSeed(d)
        ELSE /\ NextSeed(d)
             /\ UNCHANGED cmVars
  BY DEF DialEstablish
<1>2. IdleBeforeStart'  BY IdleDial DEF DialEstablish, AgreeInv
<1>3. CASE OutboundAllowed(DialAddr(d)) /\ res = "Connected"
  <2>. DEFINE ip0 == IpOf[DialAddr(d)]
  <2>1. DialAddr(d) \in Addr /\ ip0 \in Ip
    BY DialAddrType, ConstantFacts DEF DialEstablish, AdmissionInductive, DialBusy
  <2>2. /\ ipConnections' = [ipConnections EXCEPT ![ip0] = @ + 1]
        /\ dialPc' = [dialPc EXCEPT ![d] = "record"]
        /\ UNCHANGED dialIdx
    BY <1>1, <1>3 DEF EstablishOutboundConnection
  <2>3. \A ip \in Ip :
          /\ DialersAt("record", ip)' =
               IF ip = ip0 THEN DialersAt("record", ip) \cup {d} ELSE DialersAt("record", ip)
          /\ DialersAt("store", ip)' = DialersAt("store", ip)
          /\ d \notin DialersAt("record", ip)
    BY <2>2 DEF DialEstablish, AdmissionInductive, TypeOK, DialersAt, DialAddr
  <2>4. \A ip \in Ip :
          /\ Cardinality(DialersAt("record", ip)') =
               Cardinality(DialersAt("record", ip)) + (IF ip = ip0 THEN 1 ELSE 0)
          /\ Cardinality(DialersAt("store", ip)') = Cardinality(DialersAt("store", ip))
    <3> TAKE ip \in Ip
    <3>1. DialersAt("record", ip) \in SUBSET Dialers  BY DEF DialersAt
    <3>2. IsFiniteSet(DialersAt("record", ip))  BY <3>1, DialerSetFinite
    <3>3. Cardinality(DialersAt("record", ip) \cup {d}) = Cardinality(DialersAt("record", ip)) + 1
      BY <2>3, <3>2, FS_AddElement
    <3>4. IsFiniteSet(DialersAt("store", ip))  BY DialerSetFinite DEF DialersAt
    <3>5. CASE ip = ip0
      <4>1. DialersAt("record", ip)' = DialersAt("record", ip) \cup {d}  BY <2>3, <3>5
      <4>2. Cardinality(DialersAt("record", ip)') = Cardinality(DialersAt("record", ip) \cup {d})
        BY <4>1, Zenon
      <4>3. Cardinality(DialersAt("store", ip)') = Cardinality(DialersAt("store", ip))
        BY <2>3, Zenon
      <4>. QED  BY <3>3, <3>5, <4>2, <4>3
    <3>6. CASE ip # ip0
      <4>1. DialersAt("record", ip)' = DialersAt("record", ip)  BY <2>3, <3>6
      <4>2. Cardinality(DialersAt("record", ip)') = Cardinality(DialersAt("record", ip))
        BY <4>1, Zenon
      <4>3. Cardinality(DialersAt("store", ip)') = Cardinality(DialersAt("store", ip))
        BY <2>3, Zenon
      <4>4. Cardinality(DialersAt("record", ip)) \in Nat  BY <3>1, DialerSetFinite
      <4>. QED  BY <3>6, <4>2, <4>3, <4>4
    <3>. QED  BY <3>5, <3>6
  <2>5. /\ ConnEntries' = ConnEntries /\ peers' = peers
        /\ stopPc' = stopPc /\ connectionCounts' = connectionCounts
    BY DEF DialEstablish, ConnEntries, PeerEntries, sybilVars
  <2>6. ASSUME stopPc = "none", NEW ip \in Ip
        PROVE  /\ connectionCounts'[ip] =
                    Cardinality({id \in ConnEntries' : IpOf[peers'[id]] = ip})
                    + Cardinality(DialersAt("store", ip)')
               /\ ipConnections'[ip] =
                    connectionCounts'[ip] + Cardinality(DialersAt("record", ip)')
    <3>1. /\ connectionCounts[ip] =
               Cardinality({id \in ConnEntries : IpOf[peers[id]] = ip})
               + Cardinality(DialersAt("store", ip))
          /\ ipConnections[ip] =
               connectionCounts[ip] + Cardinality(DialersAt("record", ip))
      BY <2>6 DEF AgreeInv, CountersAgree
    <3>2. /\ Cardinality(DialersAt("record", ip)) \in Nat
          /\ ipConnections[ip] \in Nat /\ connectionCounts[ip] \in Nat
      BY DialerSetFinite DEF DialersAt, AdmissionInductive, TypeOK, CMTypeOK, SybilTypeOK
    <3>3. ipConnections'[ip] = ipConnections[ip] + (IF ip = ip0 THEN 1 ELSE 0)
      BY <2>1, <2>2 DEF AdmissionInductive, TypeOK, CMTypeOK
    <3>4. Cardinality({id \in ConnEntries' : IpOf[peers'[id]] = ip})
            = Cardinality({id \in ConnEntries : IpOf[peers[id]] = ip})
      BY <2>5, Zenon
    <3>. QED  BY <2>4, <2>5, <3>1, <3>2, <3>3, <3>4
  <2>7. CountersAgree'  BY <2>5, <2>6 DEF CountersAgree
  <2>. QED  BY <1>2, <2>7 DEF AgreeInv, FreshConnIds, DialEstablish
<1>4. CASE ~(OutboundAllowed(DialAddr(d)) /\ res = "Connected")
  <2>1. NextSeed(d) /\ UNCHANGED cmVars
    BY <1>1, <1>4 DEF EstablishOutboundConnection, cmVars
  <2>2. \A ip \in Ip : /\ DialersAt("record", ip)' = DialersAt("record", ip)
                       /\ DialersAt("store", ip)' = DialersAt("store", ip)
    BY <2>1, NextSeedFrame, PcFrame DEF DialEstablish, AdmissionInductive
  <2>. QED  BY <1>2, <2>1, <2>2, AgreeFrame DEF DialEstablish, sybilVars, cmVars
<1>. QED  BY <1>3, <1>4


\* record_connection at line 418: the Sybil counter of the IP goes up and
\* its dialer moves from record to store.
LEMMA DialRecordAgree ==
    ASSUME AdmissionInductive, AgreeInv, NEW d \in Dialers, DialRecord(d)
    PROVE  AgreeInv'
<1>. DEFINE ip0 == IpOf[DialAddr(d)]
<1>1. DialAddr(d) \in Addr /\ ip0 \in Ip
  BY DialAddrType, ConstantFacts DEF DialRecord, AdmissionInductive, DialBusy
<1>2. /\ connectionCounts' = [connectionCounts EXCEPT ![ip0] = @ + 1]
      /\ dialPc' = [dialPc EXCEPT ![d] = "store"]
      /\ UNCHANGED <<dialIdx, peers, stopPc, ipConnections, nextConn>>
  BY DEF DialRecord, RecordConnection, cmVars
<1>3. \A ip \in Ip :
        /\ DialersAt("record", ip)' =
             IF ip = ip0 THEN DialersAt("record", ip) \ {d} ELSE DialersAt("record", ip)
        /\ DialersAt("store", ip)' =
             IF ip = ip0 THEN DialersAt("store", ip) \cup {d} ELSE DialersAt("store", ip)
        /\ d \notin DialersAt("store", ip)
        /\ (ip = ip0) => d \in DialersAt("record", ip)
  BY <1>2 DEF DialRecord, AdmissionInductive, TypeOK, DialersAt, DialAddr
<1>4. \A ip \in Ip :
        /\ Cardinality(DialersAt("record", ip)) \in Nat
        /\ Cardinality(DialersAt("store", ip)) \in Nat
        /\ Cardinality(DialersAt("record", ip)') + (IF ip = ip0 THEN 1 ELSE 0) =
             Cardinality(DialersAt("record", ip))
        /\ Cardinality(DialersAt("store", ip)') =
             Cardinality(DialersAt("store", ip)) + (IF ip = ip0 THEN 1 ELSE 0)
  <2> TAKE ip \in Ip
  <2>1. /\ IsFiniteSet(DialersAt("record", ip)) /\ Cardinality(DialersAt("record", ip)) \in Nat
        /\ IsFiniteSet(DialersAt("store", ip)) /\ Cardinality(DialersAt("store", ip)) \in Nat
    BY DialerSetFinite DEF DialersAt
  <2>2. CASE ip = ip0
    <3>1. /\ DialersAt("record", ip)' = DialersAt("record", ip) \ {d}
          /\ DialersAt("store", ip)' = DialersAt("store", ip) \cup {d}
      BY <1>3, <2>2
    <3>2. /\ Cardinality(DialersAt("record", ip)') = Cardinality(DialersAt("record", ip) \ {d})
          /\ Cardinality(DialersAt("store", ip)') = Cardinality(DialersAt("store", ip) \cup {d})
      BY <3>1, Zenon
    <3>3. /\ Cardinality(DialersAt("record", ip) \ {d}) = Cardinality(DialersAt("record", ip)) - 1
          /\ Cardinality(DialersAt("store", ip) \cup {d}) = Cardinality(DialersAt("store", ip)) + 1
      BY <1>3, <2>1, <2>2, FS_AddElement, FS_RemoveElement
    <3>. QED  BY <2>1, <2>2, <3>2, <3>3
  <2>3. CASE ip # ip0
    <3>1. /\ Cardinality(DialersAt("record", ip)') = Cardinality(DialersAt("record", ip))
          /\ Cardinality(DialersAt("store", ip)') = Cardinality(DialersAt("store", ip))
      <4>1. /\ DialersAt("record", ip)' = DialersAt("record", ip)
            /\ DialersAt("store", ip)' = DialersAt("store", ip)
        BY <1>3, <2>3
      <4>. QED  BY <4>1, Zenon
    <3>. QED  BY <2>1, <2>3, <3>1
  <2>. QED  BY <2>2, <2>3
<1>5. ConnEntries' = ConnEntries  BY <1>2 DEF ConnEntries, PeerEntries
<1>6. ASSUME stopPc = "none", NEW ip \in Ip
      PROVE  /\ connectionCounts'[ip] =
                  Cardinality({id \in ConnEntries' : IpOf[peers'[id]] = ip})
                  + Cardinality(DialersAt("store", ip)')
             /\ ipConnections'[ip] =
                  connectionCounts'[ip] + Cardinality(DialersAt("record", ip)')
  <2>1. /\ connectionCounts[ip] =
             Cardinality({id \in ConnEntries : IpOf[peers[id]] = ip})
             + Cardinality(DialersAt("store", ip))
        /\ ipConnections[ip] =
             connectionCounts[ip] + Cardinality(DialersAt("record", ip))
    BY <1>6 DEF AgreeInv, CountersAgree
  <2>2. connectionCounts'[ip] = connectionCounts[ip] + (IF ip = ip0 THEN 1 ELSE 0)
        /\ connectionCounts[ip] \in Nat
    BY <1>1, <1>2 DEF AdmissionInductive, TypeOK, SybilTypeOK
  <2>3. Cardinality({id \in ConnEntries' : IpOf[peers'[id]] = ip})
          = Cardinality({id \in ConnEntries : IpOf[peers[id]] = ip})
    BY <1>2, <1>5, Zenon
  <2>4. /\ Cardinality(DialersAt("record", ip)') \in Nat
        /\ Cardinality(DialersAt("store", ip)') \in Nat
        /\ Cardinality({id \in ConnEntries : IpOf[peers[id]] = ip}) \in Nat
    <3>1. DialersAt("record", ip)' \in SUBSET Dialers /\ DialersAt("store", ip)' \in SUBSET Dialers
      BY DEF DialersAt
    <3>2. {id \in ConnEntries : IpOf[peers[id]] = ip} \in SUBSET ConnIdSet
      BY DEF ConnEntries, ConnIdSet
    <3>. QED  BY <3>1, <3>2, DialerSetFinite, ConnSetFinite
  <2>. QED  BY <1>2, <1>4, <2>1, <2>2, <2>3, <2>4
<1>7. CountersAgree'  BY <1>2, <1>6 DEF CountersAgree
<1>8. IdleBeforeStart'  BY IdleDial DEF DialRecord, AgreeInv
<1>. QED  BY <1>2, <1>7, <1>8 DEF AgreeInv, FreshConnIds


\* The insert of line 420: the dialer's connection id, drawn fresh, gets
\* an entry with the dialer's address, and the dialer leaves store.
LEMMA DialStoreAgree ==
    ASSUME AdmissionInductive, AgreeInv, NEW d \in Dialers, DialStore(d)
    PROVE  AgreeInv'
<1>. DEFINE ip0 == IpOf[DialAddr(d)]
            k == nextConn + 1
            new == ConnId(k)
            CE(ip) == {id \in ConnEntries : IpOf[peers[id]] = ip}
<1>1. /\ DialAddr(d) \in Addr /\ ip0 \in Ip
      /\ k \in 1..MaxConnIds /\ new \in PeerIds /\ new \in ConnIdSet
  BY DialAddrType, ConstantFacts
     DEF DialStore, AdmissionInductive, TypeOK, DialBusy, PeerIds, ConnIdSet
<1>2. /\ peers' = [peers EXCEPT ![new] = DialAddr(d)]
      /\ nextConn' = k
      /\ NextSeed(d)
      /\ UNCHANGED <<stopPc, connectionCounts, ipConnections>>
  BY DEF DialStore, sybilVars, cmVars
<1>3. peers[new] = NoPeer  BY <1>1 DEF AgreeInv, FreshConnIds, AdmissionInductive, TypeOK
<1>4. /\ peers'[new] = DialAddr(d)
      /\ \A id \in PeerIds \ {new} : peers'[id] = peers[id]
  BY <1>1, <1>2 DEF AdmissionInductive, TypeOK
<1>5. FreshConnIds'
  <2>1. \A n \in 1..MaxConnIds : n > k => ConnId(n) \in PeerIds \ {new}
    BY DEF PeerIds, ConnId
  <2>. QED  BY <1>2, <1>4, <2>1 DEF AgreeInv, FreshConnIds, AdmissionInductive, TypeOK
<1>6. \A ip \in Ip :
        CE(ip)' = IF ip = ip0 THEN CE(ip) \cup {new} ELSE CE(ip)
  <2>1. ConnEntries' = ConnEntries \cup {new}
    BY <1>1, <1>4, ConstantFacts DEF ConnEntries, PeerEntries, ConnIdSet
  <2>2. ConnEntries \subseteq PeerIds /\ new \notin ConnEntries
    BY <1>3 DEF ConnEntries, PeerEntries
  <2>3. \A id \in ConnEntries : peers'[id] = peers[id]  BY <1>4, <2>2
  <2>4. IpOf[peers'[new]] = ip0  BY <1>4
  <2> TAKE ip \in Ip
  <2>5. CE(ip)' = {id \in ConnEntries \cup {new} : IpOf[peers'[id]] = ip}  BY <2>1 DEF CE
  <2>. QED  BY <2>3, <2>4, <2>5 DEF CE
<1>7. \A ip \in Ip : new \notin CE(ip)  BY <1>3 DEF ConnEntries, PeerEntries, CE
<1>8. /\ dialPc'[d] \in {"insert", "done"} /\ dialPc[d] = "store"
      /\ \A e \in Dialers \ {d} : dialPc'[e] = dialPc[e] /\ dialIdx'[e] = dialIdx[e]
  BY <1>2, NextSeedFrame DEF DialStore, AdmissionInductive
<1>9. \A ip \in Ip :
        /\ DialersAt("record", ip)' = DialersAt("record", ip)
        /\ DialersAt("store", ip)' =
             IF ip = ip0 THEN DialersAt("store", ip) \ {d} ELSE DialersAt("store", ip)
        /\ (ip = ip0) => d \in DialersAt("store", ip)
  BY <1>8 DEF DialersAt, DialAddr
<1>10. ASSUME stopPc = "none", NEW ip \in Ip
       PROVE  /\ connectionCounts'[ip] = Cardinality(CE(ip)') + Cardinality(DialersAt("store", ip)')
              /\ ipConnections'[ip] = connectionCounts'[ip] + Cardinality(DialersAt("record", ip)')
  <2>1. /\ connectionCounts[ip] = Cardinality(CE(ip)) + Cardinality(DialersAt("store", ip))
        /\ ipConnections[ip] = connectionCounts[ip] + Cardinality(DialersAt("record", ip))
    BY <1>10 DEF AgreeInv, CountersAgree, CE
  <2>2. /\ IsFiniteSet(CE(ip)) /\ Cardinality(CE(ip)) \in Nat
        /\ IsFiniteSet(DialersAt("store", ip)) /\ Cardinality(DialersAt("store", ip)) \in Nat
        /\ Cardinality(DialersAt("record", ip)) \in Nat
    <3>1. CE(ip) \in SUBSET ConnIdSet  BY DEF ConnEntries, ConnIdSet, CE
    <3>. QED  BY <3>1, ConnSetFinite, DialerSetFinite DEF DialersAt
  <2>3. Cardinality(DialersAt("record", ip)') = Cardinality(DialersAt("record", ip))
    BY <1>9, Zenon
  <2>4. CASE ip = ip0
    <3>1. CE(ip)' = CE(ip) \cup {new} /\ DialersAt("store", ip)' = DialersAt("store", ip) \ {d}
      BY <1>6, <1>9, <2>4
    <3>2. /\ Cardinality(CE(ip)') = Cardinality(CE(ip) \cup {new})
          /\ Cardinality(DialersAt("store", ip)') = Cardinality(DialersAt("store", ip) \ {d})
      BY <3>1, Zenon
    <3>3. /\ Cardinality(CE(ip) \cup {new}) = Cardinality(CE(ip)) + 1
          /\ Cardinality(DialersAt("store", ip) \ {d}) = Cardinality(DialersAt("store", ip)) - 1
      BY <1>7, <1>9, <2>2, <2>4, FS_AddElement, FS_RemoveElement
    <3>. QED  BY <1>2, <2>1, <2>2, <2>3, <3>2, <3>3
  <2>5. CASE ip # ip0
    <3>1. CE(ip)' = CE(ip) /\ DialersAt("store", ip)' = DialersAt("store", ip)
      BY <1>6, <1>9, <2>5
    <3>2. /\ Cardinality(CE(ip)') = Cardinality(CE(ip))
          /\ Cardinality(DialersAt("store", ip)') = Cardinality(DialersAt("store", ip))
      BY <3>1, Zenon
    <3>. QED  BY <1>2, <2>1, <2>3, <3>2
  <2>. QED  BY <2>4, <2>5
<1>11. CountersAgree'  BY <1>2, <1>10 DEF CountersAgree, CE
<1>12. IdleBeforeStart'  BY IdleDial DEF DialStore, AgreeInv
<1>. QED  BY <1>5, <1>11, <1>12 DEF AgreeInv


LEMMA InitAgree == Init => AgreeInv
<1>. SUFFICES ASSUME Init PROVE AgreeInv  OBVIOUS
<1>1. FreshConnIds /\ IdleBeforeStart
  BY ConstantFacts DEF Init, FreshConnIds, IdleBeforeStart, PeerIds
<1>2. \A ip \in Ip :
        /\ {id \in ConnEntries : IpOf[peers[id]] = ip} = {}
        /\ DialersAt("store", ip) = {} /\ DialersAt("record", ip) = {}
  BY DEF Init, ConnEntries, PeerEntries, DialersAt
<1>3. \A ip \in Ip : connectionCounts[ip] = 0 /\ ipConnections[ip] = 0
  BY DEF Init, SybilInit, CMInit
<1>. QED  BY <1>1, <1>2, <1>3, FS_EmptySet DEF AgreeInv, CountersAgree

LEMMA NextAgree ==
    ASSUME AdmissionInductive, AgreeInv, [Next]_vars PROVE AgreeInv'
<1>1. CASE UNCHANGED vars
  BY <1>1 DEF vars, svcVars, sybilVars, cmVars, AgreeInv, FreshConnIds, IdleBeforeStart,
     CountersAgree, ConnEntries, PeerEntries, DialersAt, DialAddr
<1>2. CASE \E d \in Dialers :
             \/ TriggerPeerDiscovery(d)
             \/ DialInsert(d)
             \/ DialCheck(d)
             \/ DialAllowed(d)
             \/ DialEstablish(d)
             \/ DialRecord(d)
             \/ DialStore(d)
  BY <1>2, TriggerAgree, DialInsertAgree, DialCheckAgree, DialAllowedAgree,
     DialEstablishAgree, DialRecordAgree, DialStoreAgree
<1>3. CASE \E a \in Addr : Accept(a)
  BY <1>3, AcceptAgree
<1>. QED
  BY <1>1, <1>2, <1>3, StartBeginAgree, StartFinishAgree, ListenerExitAgree,
     StopStepsAgree DEF Next

-----------------------------------------------------------------------------

\* The strengthened invariant holds in every reachable state.
THEOREM InductiveInvariant == Spec => []AdmissionInductive
BY InitInductive, NextInductive, PTL DEF Spec

\* Type correctness of the admission model (TypeOK).
THEOREM TypeCorrect == Spec => []TypeOK
BY InductiveInvariant, PTL DEF AdmissionInductive

\* Per-IP cap (PerIpCap): establish_outbound_connection never lets an IP's
\* count in ip_connections exceed max_connections_per_ip, for any number of
\* concurrent bootstraps and any limits, because the check at
\* connection.rs:189 and the increment at :226 run under one write lock.
THEOREM PerIpCapHolds == Spec => []PerIpCap
BY InductiveInvariant, PTL DEF AdmissionInductive


\* The three connection counts agree (CountersAgree): until stop() begins,
\* for any number of concurrent bootstraps and any limits, an IP's count
\* in ip_connections equals its Sybil connection_counts plus the dialers
\* between establish_outbound_connection and record_connection, and the
\* Sybil count equals the IP's connection entries in the peer table plus
\* the dialers between record_connection and the insert of line 420.
THEOREM CountersAgreeHolds == Spec => []CountersAgree
<1>1. Spec => []AdmissionInductive  BY InductiveInvariant
<1>2. Init => AgreeInv  BY InitAgree
<1>3. AdmissionInductive /\ AgreeInv /\ [Next]_vars => AgreeInv'  BY NextAgree
<1>4. Spec => []AgreeInv  BY <1>1, <1>2, <1>3, PTL DEF Spec
<1>. QED  BY <1>4, PTL DEF AgreeInv
=============================================================================
