---------------------------- MODULE ShieldProofs ----------------------------
(***************************************************************************)
(* Proofs that the type invariant and the safety invariants of Shield hold *)
(* for every set of addresses, every number of bonds and every queue       *)
(* length.                                                                 *)
(***************************************************************************)
EXTENDS Shield, SequenceTheorems, WellFoundedInduction, TLAPS

\* A loop over the peer table stops at the first entry it looks for, or at none.
LEMMA FirstOfType ==
    ASSUME NEW S, S \subseteq PeerIdx
    PROVE  /\ FirstOf(S) \in PeerIdx \cup {INVALID_BONDED_DEV_ID}
           /\ \A i \in S : FirstOf(S) <= i
           /\ S # {} => FirstOf(S) \in S
           /\ FirstOf(S) # INVALID_BONDED_DEV_ID => FirstOf(S) \in S
<1>1. S \subseteq Nat
  BY BondsAssumption DEF PeerIdx
<1>2. CASE S = {}
  BY <1>2 DEF FirstOf
<1>3. CASE S # {}
  <2>1. \E i \in S : \A j \in S : ~ (<<j, i>> \in OpToRel(<, Nat))
    BY <1>1, <1>3, NatLessThanWellFounded, WFMin
  <2>2. PICK i \in S : \A j \in S : ~ (<<j, i>> \in OpToRel(<, Nat))
    BY <2>1, Zenon
  <2>3. \A j \in S : i <= j
    <3>1. ASSUME NEW j \in S  PROVE  ~ (j < i)
      BY <1>1, <2>2, Zenon DEF OpToRel
    <3> QED
      BY <1>1, <3>1
  <2>4. FirstOf(S) \in S /\ \A j \in S : FirstOf(S) <= j
    BY <1>3, <2>3 DEF FirstOf
  <2> QED
    BY <1>3, <2>4
<1> QED
  BY <1>2, <1>3

\* What is left of the queue when its first event is pulled.
LEMMA PullFacts ==
    ASSUME SoftDeviceTypeOK, NEW id, Pull(id)
    PROVE  /\ evtq' \in Seq(Event)
           /\ Len(evtq) \in Nat \ {0}
           /\ Len(evtq') = Len(evtq) - 1
           /\ DOMAIN evtq = 1 .. Len(evtq)
           /\ DOMAIN evtq' = 1 .. Len(evtq) - 1
           /\ \A i \in DOMAIN evtq' : evtq'[i] = evtq[i + 1]
           /\ Head(evtq) = evtq[1] /\ evtq[1] \in Event /\ evtq[1].id = id
           /\ link' = link /\ boot' = boot /\ ndx' = ndx
BY HeadTailProperties DEF Pull, SoftDeviceTypeOK

\* What the queue is once an event is raised.
LEMMA RaiseFacts ==
    ASSUME SoftDeviceTypeOK, NEW evt \in Event, Raise(evt)
    PROVE  /\ evtq' \in Seq(Event)
           /\ Len(evtq') = Len(evtq) + 1 /\ Len(evtq') <= EvtQueueLen
           /\ Len(evtq) \in Nat
           /\ DOMAIN evtq = 1 .. Len(evtq)
           /\ DOMAIN evtq' = 1 .. Len(evtq) + 1
           /\ \A i \in DOMAIN evtq : evtq'[i] = evtq[i]
           /\ evtq'[Len(evtq) + 1] = evt
BY AppendProperties, EvtQueueAssumption DEF Raise, SoftDeviceTypeOK

-----------------------------------------------------------------------------
\* Type correctness.

LEMMA EventsAreEvents ==
    /\ \A a \in Addr : [id |-> "CONNECTED", addr |-> a] \in Event
    /\ \A id \in {"DISCONNECTED", "SEC_PARAMS_REQUEST", "TIMEOUT"} :
          [id |-> id] \in Event
    /\ \A e \in Ediv : [id |-> "SEC_INFO_REQUEST", ediv |-> e] \in Event
    /\ \A s, b, k \in BOOLEAN :
          [id |-> "AUTH_STATUS", success |-> s, bonded |-> b, idKey |-> k]
             \in Event
    /\ \A o \in BOOLEAN : [id |-> "CONN_SEC_UPDATE", open |-> o] \in Event
BY DEF Event

LEMMA EventFields ==
    ASSUME NEW evt \in Event
    PROVE  /\ evt.id = "CONNECTED" => evt.addr \in Addr
           /\ evt.id = "SEC_INFO_REQUEST" => evt.ediv \in Ediv
           /\ evt.id = "AUTH_STATUS" => /\ evt.success \in BOOLEAN
                                       /\ evt.bonded \in BOOLEAN
                                       /\ evt.idKey \in BOOLEAN
BY DEF Event

LEMMA SmpIdleType ==
    /\ SmpIdle \in SmpState
    /\ [SmpIdle EXCEPT !.phase = "dead"] \in SmpState
BY DEF SmpIdle, SmpState, SmpPhase, NoKeyset

LEMMA PeerInstInitType ==
    ASSUME peers \in [PeerIdx -> Peer], NEW i
    PROVE  PeerInstInit(peers, i) \in [PeerIdx -> Peer]
<1> DEFINE cleared(p) ==
      [addr |-> NoAddr, ediv |-> EDIV_INIT_VAL, flags |-> {}, encKey |-> p.encKey]
<1>1. \A p \in Peer : cleared(p) \in Peer
  BY DEF Peer, EDIV_INIT_VAL
<1> HIDE DEF cleared
<1>2. PeerInstInit(peers, i) = [peers EXCEPT ![i] = cleared(@)]
  BY DEF PeerInstInit, cleared
<1> QED
  BY <1>1, <1>2

LEMMA InitTypeOK == Init => TypeOK
<1> SUFFICES ASSUME Init PROVE TypeOK
  OBVIOUS
<1>1. SoftDeviceTypeOK
  <2>1. <<>> \in Seq(Event) /\ Len(<<>>) <= EvtQueueLen
    BY EvtQueueAssumption
  <2> QED
    BY <2>1, SmpIdleType DEF Init, SoftDeviceInit, SoftDeviceTypeOK
<1>2. peers \in [PeerIdx -> Peer]
  <2>1. [addr |-> ZeroAddr, ediv |-> 0, flags |-> {},
         encKey |-> [ediv |-> 0, of |-> NoAddr]] \in Peer
    BY ClearedAssumption DEF Peer
  <2> QED
    BY <2>1 DEF Init, PeerManagerInit
<1>3. conn \in Conn
  BY BondsAssumption, ClearedAssumption DEF Init, PeerManagerInit, Conn, PeerIdx
<1>4. ndx \in PeerIdx
  BY BondsAssumption DEF Init, PeerIdx
<1> QED
  BY <1>1, <1>2, <1>3, <1>4
     DEF Init, TypeOK, PeerManagerInit, PeerManagerTypeOK, BootStep

\* What the stores of main() to the connection instance have in common.
LEMMA InstanceFacts ==
    ASSUME conn \in Conn, InitInstance
    PROVE  /\ UNCHANGED <<adv, link, evtq, smp, peers, mSecBond, ndx>>
           /\ boot \in ConnStep /\ boot' \in (ConnStep \ {"flags"}) \cup {"peerAddr"}
           /\ wiped' = (wiped \/ Tracked)
           /\ conn' \in Conn
           /\ Tracked' => Tracked
<1>1. CASE BootConnFlags \/ BootConnHandle \/ BootConnBondedDev
  BY <1>1 DEF BootConnFlags, BootConnHandle, BootConnBondedDev, WipesInstance,
              InitConnFlags, InitConnHandle, InitConnBondedDev, ConnStep, Conn,
              Tracked, sdVars
<1>2. CASE BootConnAddr
  <2>1. PICK a \in Cleared : conn' = [conn EXCEPT !.addr = a]
    BY <1>2, ClearedAssumption DEF BootConnAddr, InitConnAddr, ClearedFrom
  <2> QED
    BY <1>2, <2>1 DEF BootConnAddr, WipesInstance, InitConnAddr, ConnStep, Conn,
                      Tracked, sdVars
<1> QED
  BY <1>1, <1>2 DEF InitInstance

\* And those to an entry of the peer table.
LEMMA EntryFacts ==
    ASSUME peers \in [PeerIdx -> Peer], ndx \in PeerIdx, InitEntries
    PROVE  /\ UNCHANGED <<adv, link, evtq, smp, conn, mSecBond, wiped>>
           /\ boot \in PeerStep /\ boot' \in PeerStep \cup {"ready"}
           /\ ndx' \in PeerIdx
           /\ peers' \in [PeerIdx -> Peer]
           /\ \A i \in PeerIdx :
                 /\ peers'[i].encKey = peers[i].encKey
                 /\ peers'[i].addr \in {peers[i].addr, NoAddr} \cup Cleared
                 /\ peers'[i].flags \in {peers[i].flags, {}}
                 /\ peers'[i].ediv \in {peers[i].ediv, EDIV_INIT_VAL}
<1> DEFINE Kept(q, p) == /\ q.encKey = p.encKey
                        /\ q.addr \in {p.addr, NoAddr} \cup Cleared
                        /\ q.flags \in {p.flags, {}}
                        /\ q.ediv \in {p.ediv, EDIV_INIT_VAL}
           PeersFacts == /\ peers' \in [PeerIdx -> Peer]
                         /\ \A i \in PeerIdx : Kept(peers'[i], peers[i])
<1>1. ASSUME InitPeerAddr(ndx) \/ InitPeerAddrType(ndx) PROVE PeersFacts
  <2>0. PICK a \in Cleared \cup {NoAddr} :
          peers' = [peers EXCEPT ![ndx] = [@ EXCEPT !.addr = a]]
    BY <1>1, ClearedAssumption DEF InitPeerAddr, InitPeerAddrType, ClearedFrom
  <2> DEFINE cleared(p) == [p EXCEPT !.addr = a]
  <2>1. \A p \in Peer : cleared(p) \in Peer /\ Kept(cleared(p), p)
    BY DEF Peer
  <2>2. peers' = [peers EXCEPT ![ndx] = cleared(@)]
    BY <2>0
  <2> HIDE DEF cleared
  <2>3. \A i \in PeerIdx : peers'[i] = IF i = ndx THEN cleared(peers[i]) ELSE peers[i]
    BY <2>2
  <2>4. peers' \in [PeerIdx -> Peer]
    BY <2>1, <2>2
  <2>5. \A i \in PeerIdx : Kept(peers'[i], peers[i])
    BY <2>1, <2>3
  <2> QED
    BY <2>4, <2>5
<1>2. ASSUME InitPeerFlags(ndx) PROVE PeersFacts
  <2> DEFINE cleared(p) == [p EXCEPT !.flags = {}]
  <2>1. \A p \in Peer : cleared(p) \in Peer /\ Kept(cleared(p), p)
    BY DEF Peer
  <2>2. peers' = [peers EXCEPT ![ndx] = cleared(@)]
    BY <1>2 DEF InitPeerFlags
  <2> HIDE DEF cleared
  <2>3. \A i \in PeerIdx : peers'[i] = IF i = ndx THEN cleared(peers[i]) ELSE peers[i]
    BY <2>2
  <2>4. peers' \in [PeerIdx -> Peer]
    BY <2>1, <2>2
  <2>5. \A i \in PeerIdx : Kept(peers'[i], peers[i])
    BY <2>1, <2>3
  <2> QED
    BY <2>4, <2>5
<1>3. ASSUME InitPeerEdiv(ndx) PROVE PeersFacts
  <2> DEFINE cleared(p) == [p EXCEPT !.ediv = EDIV_INIT_VAL]
  <2>1. \A p \in Peer : cleared(p) \in Peer /\ Kept(cleared(p), p)
    BY DEF Peer, EDIV_INIT_VAL
  <2>2. peers' = [peers EXCEPT ![ndx] = cleared(@)]
    BY <1>3 DEF InitPeerEdiv
  <2> HIDE DEF cleared
  <2>3. \A i \in PeerIdx : peers'[i] = IF i = ndx THEN cleared(peers[i]) ELSE peers[i]
    BY <2>2
  <2>4. peers' \in [PeerIdx -> Peer]
    BY <2>1, <2>2
  <2>5. \A i \in PeerIdx : Kept(peers'[i], peers[i])
    BY <2>1, <2>3
  <2> QED
    BY <2>4, <2>5
<1>4. PeersFacts
  BY <1>1, <1>2, <1>3
     DEF InitEntries, BootPeerAddr, BootPeerAddrType, BootPeerFlags, BootPeerEdiv
<1>5. /\ UNCHANGED <<adv, link, evtq, smp, conn, mSecBond, wiped>>
      /\ boot \in PeerStep /\ boot' \in PeerStep \cup {"ready"}
      /\ ndx' \in PeerIdx
  BY DEF InitEntries, BootPeerAddr, BootPeerAddrType, BootPeerFlags, BootPeerEdiv,
         InitPeerAddr, InitPeerAddrType, InitPeerFlags, InitPeerEdiv, PeerStep, sdVars
<1> QED
  BY <1>4, <1>5

LEMMA MainTypeOK == TypeOK /\ Main => TypeOK'
<1> SUFFICES ASSUME TypeOK, Main PROVE TypeOK'
  OBVIOUS
<1> USE DEF TypeOK, SoftDeviceTypeOK, PeerManagerTypeOK
<1>1. CASE BootAdvertise
  BY <1>1 DEF BootAdvertise, AdvStart, pmVars, BootStep
<1>2. CASE BootSecParams
  BY <1>2, SecParamAssumption DEF BootSecParams, InitSecParams, sdVars, BootStep,
     ConnStep
<1>3. CASE InitInstance
  BY <1>3, InstanceFacts DEF BootStep, PeerStep
<1>4. CASE InitEntries
  BY <1>4, EntryFacts DEF BootStep
<1> QED
  BY <1>1, <1>2, <1>3, <1>4 DEF Main

LEMMA RadioTypeOK == TypeOK /\ Radio => TypeOK'
<1> SUFFICES ASSUME TypeOK, Radio PROVE TypeOK'
  OBVIOUS
<1> USE DEF SoftDeviceTypeOK
<1>1. /\ PeerManagerTypeOK' /\ boot' \in BootStep /\ ndx' \in PeerIdx
      /\ wiped' \in BOOLEAN
  BY DEF TypeOK, Radio, PeerManagerTypeOK, pmVars
<1>2. SoftDeviceTypeOK
  BY DEF TypeOK
<1>3. ASSUME NEW a \in Addr, CentralConnects(a) PROVE SoftDeviceTypeOK'
  BY <1>2, <1>3, EventsAreEvents, RaiseFacts DEF CentralConnects
<1>4. ASSUME AdvertisingTimesOut PROVE SoftDeviceTypeOK'
  BY <1>2, <1>4, EventsAreEvents, RaiseFacts DEF AdvertisingTimesOut
<1>5. ASSUME LinkLost PROVE SoftDeviceTypeOK'
  BY <1>2, <1>5, EventsAreEvents, RaiseFacts, SmpIdleType DEF LinkLost
<1>6. ASSUME CentralPairs PROVE SoftDeviceTypeOK'
  BY <1>2, <1>6, EventsAreEvents, RaiseFacts DEF CentralPairs, SmpState, SmpPhase
<1>7. ASSUME NEW e \in Ediv, CentralEncrypts(e) PROVE SoftDeviceTypeOK'
  BY <1>2, <1>7, EventsAreEvents, RaiseFacts DEF CentralEncrypts, SmpState, SmpPhase
<1>8. ASSUME PairingEncrypts PROVE SoftDeviceTypeOK'
  BY <1>2, <1>8, EventsAreEvents, RaiseFacts DEF PairingEncrypts, SmpState, SmpPhase
<1>9. ASSUME PairingFails PROVE SoftDeviceTypeOK'
  BY <1>2, <1>9, EventsAreEvents, RaiseFacts, SmpIdleType DEF PairingFails
<1>10. ASSUME PairingTimesOut PROVE SoftDeviceTypeOK'
  BY <1>2, <1>10, EventsAreEvents, RaiseFacts, SmpIdleType DEF PairingTimesOut
<1>11. ASSUME NEW o \in BOOLEAN, EncryptionEnds(o) PROVE SoftDeviceTypeOK'
  BY <1>2, <1>11, EventsAreEvents, RaiseFacts, SmpIdleType DEF EncryptionEnds
<1> QED
  BY <1>1, <1>3, <1>4, <1>5, <1>6, <1>7, <1>8, <1>9, <1>10, <1>11
     DEF Radio, TypeOK

\* The calls into the stack keep the type of smp.
LEMMA SecParamsReplyType ==
    ASSUME TypeOK, NEW i \in 0 .. 255, NEW accepted \in BOOLEAN,
           SecParamsReply(i, mSecBond, accepted)
    PROVE  smp' \in SmpState
BY DEF TypeOK, SoftDeviceTypeOK, PeerManagerTypeOK, SecParamsReply, SmpState,
       SmpPhase

LEMMA SecInfoReplyType ==
    ASSUME TypeOK, NEW i \in 0 .. 255, SecInfoReply(i)
    PROVE  smp' \in SmpState
BY DEF TypeOK, SoftDeviceTypeOK, SecInfoReply, SmpState, SmpPhase

\* Every step that pulls an event, given what it does to the other variables.
LEMMA DispatchTypeOK ==
    ASSUME TypeOK, NEW id, Pull(id),
           adv' \in BOOLEAN, smp' \in SmpState, peers' \in [PeerIdx -> Peer],
           conn' \in Conn, mSecBond' = mSecBond, wiped' \in BOOLEAN
    PROVE  TypeOK'
<1>1. SoftDeviceTypeOK
  BY DEF TypeOK
<1>2. SoftDeviceTypeOK'
  BY <1>1, PullFacts, EvtQueueAssumption DEF SoftDeviceTypeOK
<1>3. PeerManagerTypeOK' /\ boot' \in BootStep /\ ndx' \in PeerIdx
  BY <1>1, PullFacts DEF TypeOK, PeerManagerTypeOK
<1> QED
  BY <1>2, <1>3 DEF TypeOK

PeerTypes ==
    /\ smp' \in SmpState
    /\ peers' \in [PeerIdx -> Peer]
    /\ conn' \in Conn
    /\ mSecBond' = mSecBond

\* Indexes into the peer table fit in the byte that holds them.
LEMMA PeerIdxFits == PeerIdx \cup {INVALID_BONDED_DEV_ID} \subseteq 0 .. 255
BY BondsAssumption DEF PeerIdx, INVALID_BONDED_DEV_ID

LEMMA PeerFindType ==
    /\ \A a : PeerInstFindByAddr(a) \in PeerIdx \cup {INVALID_BONDED_DEV_ID}
    /\ \A e : PeerInstFindByEdiv(e) \in PeerIdx \cup {INVALID_BONDED_DEV_ID}
    /\ PeerInstUnassigned \in PeerIdx \cup {INVALID_BONDED_DEV_ID}
<1>1. ASSUME NEW a
      PROVE  PeerInstFindByAddr(a) \in PeerIdx \cup {INVALID_BONDED_DEV_ID}
  BY FirstOfType DEF PeerInstFindByAddr
<1>2. ASSUME NEW e
      PROVE  PeerInstFindByEdiv(e) \in PeerIdx \cup {INVALID_BONDED_DEV_ID}
  BY FirstOfType DEF PeerInstFindByEdiv
<1>3. PeerInstUnassigned \in PeerIdx \cup {INVALID_BONDED_DEV_ID}
  BY FirstOfType DEF PeerInstUnassigned
<1> QED
  BY <1>1, <1>2, <1>3

\* Marking a connection instance as bonded keeps its type.
LEMMA BondinfoType ==
    ASSUME NEW c \in Conn, NEW i \in PeerIdx
    PROVE  ConnInstBondinfoFill(c, i) \in Conn
BY DEF ConnInstBondinfoFill, Conn, ConnFlag

LEMMA HandleConnectedType ==
    ASSUME TypeOK, NEW evt \in Event, evt.id = "CONNECTED", HandleConnected(evt)
    PROVE  PeerTypes
<1> DEFINE filled == [conn EXCEPT !.flags = {"allocated", "connected"},
                                  !.handle = TRUE, !.addr = evt.addr]
<1>1. filled \in Conn
  BY EventFields DEF TypeOK, PeerManagerTypeOK, Conn, ConnFlag
<1>2. conn' \in Conn
  BY <1>1, PeerFindType, BondinfoType
     DEF HandleConnected, TypeOK, PeerManagerTypeOK
<1> QED
  BY <1>2 DEF HandleConnected, PeerTypes, TypeOK, SoftDeviceTypeOK,
              PeerManagerTypeOK

LEMMA HandleDisconnectedType == TypeOK /\ HandleDisconnected => PeerTypes
BY PeerInstInitType, ClearedAssumption
   DEF HandleDisconnected, PeerTypes, TypeOK, SoftDeviceTypeOK,
       PeerManagerTypeOK, ConnInstInit, Conn

LEMMA HandleSecParamsRequestType ==
    ASSUME TypeOK, Tracked, NEW accepted \in BOOLEAN,
           HandleSecParamsRequest(accepted)
    PROVE  PeerTypes
<1> DEFINE known == PeerInstFindByAddr(conn.addr)
           free == PeerInstUnassigned
           pairing == [conn EXCEPT !.flags = @ \cup {"pairing"}]
<1>1. /\ peers \in [PeerIdx -> Peer] /\ conn \in Conn /\ smp \in SmpState
      /\ mSecBond' = mSecBond
  BY DEF TypeOK, SoftDeviceTypeOK, PeerManagerTypeOK, HandleSecParamsRequest
<1>2. /\ pairing \in Conn
      /\ [pairing EXCEPT !.flags = @ \cup {"bond_info_update"}] \in Conn
      /\ \A i \in PeerIdx : [pairing EXCEPT !.bondedDev = i] \in Conn
  BY <1>1 DEF Conn, ConnFlag
<1>3. /\ known \in PeerIdx \cup {INVALID_BONDED_DEV_ID}
      /\ free \in PeerIdx \cup {INVALID_BONDED_DEV_ID}
  BY PeerFindType
<1>4. CASE IsConnBonded
  <2>1. conn.bondedDev \in 0 .. 255
    BY <1>1, PeerIdxFits DEF Conn
  <2>2. /\ conn' = [pairing EXCEPT !.flags = @ \cup {"bond_info_update"}]
        /\ SecParamsReply(conn.bondedDev, mSecBond, accepted)
        /\ UNCHANGED peers
    BY <1>4 DEF HandleSecParamsRequest
  <2>3. smp' \in SmpState
    BY <2>1, <2>2, SecParamsReplyType
  <2> QED
    BY <1>1, <1>2, <2>2, <2>3 DEF PeerTypes
<1>5. CASE ~IsConnBonded /\ known # INVALID_BONDED_DEV_ID
  BY <1>1, <1>2, <1>3, <1>5, SecParamsReplyType, PeerIdxFits, BondinfoType
     DEF HandleSecParamsRequest, PeerTypes
<1>6. CASE /\ ~IsConnBonded /\ known = INVALID_BONDED_DEV_ID
           /\ free # INVALID_BONDED_DEV_ID
  <2>1. \A p \in Peer : AllocatedEntry(p, conn.addr) \in Peer
    BY <1>1 DEF AllocatedEntry, Peer, PeerFlag, Conn
  <2>2. PeerInstAllocate(free, conn.addr) \in [PeerIdx -> Peer]
    BY <1>1, <2>1 DEF PeerInstAllocate
  <2> QED
    BY <1>1, <1>2, <1>3, <1>6, <2>2, SecParamsReplyType, PeerIdxFits
       DEF HandleSecParamsRequest, PeerTypes
<1>7. CASE /\ ~IsConnBonded /\ known = INVALID_BONDED_DEV_ID
           /\ free = INVALID_BONDED_DEV_ID
  BY <1>1, <1>2, <1>7 DEF HandleSecParamsRequest, PeerTypes
<1> QED
  BY <1>4, <1>5, <1>6, <1>7

LEMMA HandleSecInfoRequestType ==
    ASSUME TypeOK, NEW evt, HandleSecInfoRequest(evt)
    PROVE  PeerTypes
BY PeerFindType, PeerIdxFits, BondinfoType, SecInfoReplyType
   DEF HandleSecInfoRequest, PeerTypes, TypeOK, PeerManagerTypeOK, Conn

LEMMA HandleAuthStatusType ==
    ASSUME TypeOK, NEW evt, HandleAuthStatus(evt)
    PROVE  PeerTypes
<1> DEFINE done == [conn EXCEPT !.flags = @ \ {"pairing"}]
<1>1. /\ peers \in [PeerIdx -> Peer] /\ conn \in Conn /\ smp \in SmpState
      /\ mSecBond' = mSecBond /\ smp' = smp
  BY DEF TypeOK, SoftDeviceTypeOK, PeerManagerTypeOK, HandleAuthStatus
<1>2. done \in Conn /\ [done EXCEPT !.flags = @ \cup {"bonded"}] \in Conn
  BY <1>1 DEF Conn, ConnFlag
<1>3. \A p \in Peer : BondedEntry(p, evt.idKey) \in Peer
  BY <1>1 DEF BondedEntry, Peer, PeerFlag, Conn
<1> QED
  BY <1>1, <1>2, <1>3, PeerInstInitType DEF HandleAuthStatus, PeerTypes

LEMMA HandleConnSecUpdateType ==
    ASSUME TypeOK, NEW evt, HandleConnSecUpdate(evt)
    PROVE  PeerTypes
BY DEF HandleConnSecUpdate, PeerTypes, TypeOK, SoftDeviceTypeOK,
       PeerManagerTypeOK, Conn, ConnFlag

LEMMA PairingEndsTypeOK == TypeOK /\ PairingEnds => TypeOK'
<1> SUFFICES ASSUME TypeOK,
                    NEW bonded \in BOOLEAN, NEW idKey \in BOOLEAN, NEW e \in Ediv,
                    PairingSucceeds(bonded, idKey),
                    IF bonded THEN KeysStored(idKey, e) ELSE UNCHANGED pmVars,
                    UNCHANGED <<boot, ndx, wiped>>
             PROVE  TypeOK'
  BY DEF PairingEnds
<1>1. SoftDeviceTypeOK /\ PeerManagerTypeOK
  BY DEF TypeOK
<1>2. SoftDeviceTypeOK'
  BY <1>1, EventsAreEvents, RaiseFacts, SmpIdleType
     DEF PairingSucceeds, SoftDeviceTypeOK
<1>3. ASSUME bonded PROVE PeerManagerTypeOK'
  <2>1. /\ link \in Addr /\ Identity[link] \in Addr
        /\ peers \in [PeerIdx -> Peer]
    BY <1>1, AddrAssumption
       DEF SoftDeviceTypeOK, PeerManagerTypeOK, PairingSucceeds
  <2>2. \A p \in Peer : StoredEntry(p, idKey, e) \in Peer
    BY <2>1 DEF StoredEntry, Peer
  <2>3. peers' \in [PeerIdx -> Peer]
    BY <1>3, <2>1, <2>2 DEF KeysStored
  <2> QED
    BY <1>1, <1>3, <2>3 DEF KeysStored, PeerManagerTypeOK
<1>4. ASSUME ~bonded PROVE PeerManagerTypeOK'
  BY <1>1, <1>4 DEF pmVars, PeerManagerTypeOK
<1> QED
  BY <1>2, <1>3, <1>4 DEF TypeOK

LEMMA DispatchActionTypeOK == TypeOK /\ Dispatch => TypeOK'
<1> SUFFICES ASSUME TypeOK, Dispatch PROVE TypeOK'
  OBVIOUS
<1>1. /\ adv \in BOOLEAN /\ wiped \in BOOLEAN /\ smp \in SmpState
      /\ peers \in [PeerIdx -> Peer] /\ conn \in Conn /\ SoftDeviceTypeOK
  BY DEF TypeOK, SoftDeviceTypeOK, PeerManagerTypeOK
<1>2. \A id : Pull(id) => Head(evtq) \in Event /\ Head(evtq).id = id
  BY <1>1, PullFacts
<1>3. ASSUME OnConnected PROVE TypeOK'
  BY <1>1, <1>2, <1>3, HandleConnectedType, DispatchTypeOK
     DEF OnConnected, PeerTypes
<1>4. ASSUME OnDisconnected PROVE TypeOK'
  <2>1. PeerTypes
    BY <1>1, <1>4, HandleDisconnectedType DEF OnDisconnected, pmVars, PeerTypes
  <2>2. adv' \in BOOLEAN /\ wiped' \in BOOLEAN
    BY <1>1, <1>4 DEF OnDisconnected, AdvStart
  <2> QED
    BY <1>4, <2>1, <2>2, DispatchTypeOK DEF OnDisconnected, PeerTypes
<1>5. ASSUME OnSecParamsRequest PROVE TypeOK'
  BY <1>1, <1>5, HandleSecParamsRequestType, DispatchTypeOK
     DEF OnSecParamsRequest, PeerTypes
<1>6. ASSUME OnSecInfoRequest PROVE TypeOK'
  BY <1>1, <1>6, HandleSecInfoRequestType, DispatchTypeOK
     DEF OnSecInfoRequest, PeerTypes
<1>7. ASSUME OnAuthStatus PROVE TypeOK'
  BY <1>1, <1>7, HandleAuthStatusType, DispatchTypeOK DEF OnAuthStatus, PeerTypes
<1>8. ASSUME OnConnSecUpdate PROVE TypeOK'
  BY <1>1, <1>8, HandleConnSecUpdateType, DispatchTypeOK
     DEF OnConnSecUpdate, PeerTypes
<1>9. ASSUME OnUntracked PROVE TypeOK'
  BY <1>1, <1>9, DispatchTypeOK DEF OnUntracked, pmVars
<1>10. ASSUME OnTimeout PROVE TypeOK'
  BY <1>1, <1>10, DispatchTypeOK DEF OnTimeout, pmVars
<1> QED
  BY <1>3, <1>4, <1>5, <1>6, <1>7, <1>8, <1>9, <1>10 DEF Dispatch

\* Every variable keeps its type: the indexes in the connection instance are
\* those of m_peer_table or the invalid one, and the stack's queue holds events.
THEOREM ShieldTypeCorrect == Spec => []TypeOK
<1>1. ASSUME TypeOK, [Next]_vars PROVE TypeOK'
  <2>1. CASE UNCHANGED vars
    BY <1>1, <2>1 DEF vars, sdVars, pmVars, TypeOK, SoftDeviceTypeOK,
                      PeerManagerTypeOK
  <2> QED
    BY <1>1, <2>1, MainTypeOK, RadioTypeOK, PairingEndsTypeOK,
       DispatchActionTypeOK DEF Next
<1> QED
  BY <1>1, InitTypeOK, PTL DEF Spec
=============================================================================
