---------------------------- MODULE ShieldSafety ----------------------------
(***************************************************************************)
(* Proof that QueueInv, which says what the stack's queue can hold given   *)
(* the link, the security procedure and the connection instance, and IInv, *)
(* which adds that a lent entry is left alone, are invariant; the safety   *)
(* properties of Shield follow, and that the peer table is a BondStore.    *)
(***************************************************************************)
EXTENDS ShieldProofs

\* The events in a queue whose first event is pulled move up by one place.
LEMMA PullAt ==
    ASSUME SoftDeviceTypeOK, NEW id, Pull(id)
    PROVE  /\ \A i, k : At(i, k)' => i \in Nat \ {0} /\ At(i + 1, k)
           /\ \A k : \A i \in Nat \ {0} : At(i + 1, k) => At(i, k)'
           /\ \A i, k : At(i, k)' => i \in DOMAIN evtq'
           /\ \A k : At(1, k) <=> k = id
           /\ \A i \in DOMAIN evtq' : i + 1 \in DOMAIN evtq
BY PullFacts DEF At

\* The last event stays the last one.
LEMMA PullLast ==
    ASSUME SoftDeviceTypeOK, NEW id, Pull(id), NEW k, k # id, At(Len(evtq), k)
    PROVE  At(Len(evtq), k)'
<1>1. Len(evtq) \in Nat \ {0, 1} /\ Len(evtq') = Len(evtq) - 1
  BY PullFacts, PullAt
<1>2. Len(evtq') \in DOMAIN evtq' /\ Len(evtq') + 1 = Len(evtq)
  BY <1>1, PullFacts
<1>3. evtq'[Len(evtq')] = evtq[Len(evtq)]
  BY <1>2, PullFacts
<1> QED
  BY <1>2, <1>3 DEF At

\* What precedes an event still does, unless it is what is pulled.
LEMMA PullBefore ==
    ASSUME SoftDeviceTypeOK, NEW id, Pull(id), NEW i \in DOMAIN evtq', NEW k, k # id,
           \E j \in 1 .. (i + 1) - 1 : At(j, k)
    PROVE  \E n \in 1 .. i - 1 : At(n, k)'
<1>1. PICK j \in 1 .. (i + 1) - 1 : At(j, k)
  OBVIOUS
<1>2. j # 1
  BY <1>1, PullAt
<1>3. i \in Nat /\ j - 1 \in 1 .. i - 1 /\ j - 1 \in Nat \ {0}
  BY <1>2, PullFacts
<1>4. At((j - 1) + 1, k)
  BY <1>1, <1>3
<1> QED
  BY <1>3, <1>4, PullAt

\* The events in a queue stay where they are when another one is raised.
LEMMA RaiseAt ==
    ASSUME SoftDeviceTypeOK, NEW evt \in Event, Raise(evt)
    PROVE  /\ \A i, k : At(i, k)' <=>
                 At(i, k) \/ (i = Len(evtq) + 1 /\ k = evt.id)
           /\ Len(evtq') = Len(evtq) + 1
           /\ \A i, k : At(i, k) => i \in 1 .. Len(evtq)
           /\ \A i, k : At(i, k) => evtq'[i] = evtq[i]
           /\ DOMAIN evtq = 1 .. Len(evtq)
           /\ DOMAIN evtq' = 1 .. Len(evtq) + 1
           /\ Len(evtq) \in Nat
BY RaiseFacts DEF At

LEMMA InitIInv == Init => QueueInv
<1> SUFFICES ASSUME Init PROVE QueueInv
  OBVIOUS
<1>1. TypeOK
  BY InitTypeOK
<1>2. DOMAIN evtq = {}
  BY DEF Init, SoftDeviceInit
<1>3. LinkQueue /\ InstanceShape /\ SecurityQueue
  BY <1>2 DEF Init, SoftDeviceInit, PeerManagerInit, SmpIdle, At, Tracked,
              Orphaned, LinkQueue, InstanceShape, SecurityQueue
<1> QED
  BY <1>1, <1>3 DEF QueueInv

-----------------------------------------------------------------------------
\* The steps of main().

\* They raise no event and answer none.
LEMMA MainFacts ==
    ASSUME TypeOK, Main
    PROVE  UNCHANGED <<link, evtq, smp>>
BY InstanceFacts, EntryFacts
   DEF Main, BootAdvertise, BootSecParams, TypeOK, PeerManagerTypeOK, sdVars

LEMMA MainIInv == QueueInv /\ Main => QueueInv'
<1> SUFFICES ASSUME QueueInv, Main PROVE QueueInv'
  OBVIOUS
<1>1. /\ TypeOK /\ TypeOK' /\ conn \in Conn /\ peers \in [PeerIdx -> Peer]
      /\ ndx \in PeerIdx
  BY MainTypeOK DEF QueueInv, TypeOK, PeerManagerTypeOK
<1>2. UNCHANGED <<link, evtq, smp>>
  BY <1>1, MainFacts
<1>3. \A i, k : At(i, k)' <=> At(i, k)
  BY <1>2 DEF At
<1>4. LinkQueue /\ InstanceShape /\ SecurityQueue
  BY DEF QueueInv
<1>5. ASSUME BootAdvertise PROVE LinkQueue' /\ InstanceShape' /\ SecurityQueue'
  BY <1>2, <1>3, <1>4, <1>5
     DEF BootAdvertise, AdvStart, LinkQueue, InstanceShape, SecurityQueue,
         Tracked, Orphaned, AddrIsLink, IndexIsKeyset, PeerStep, pmVars
<1>6. ASSUME BootSecParams PROVE LinkQueue' /\ InstanceShape' /\ SecurityQueue'
  BY <1>2, <1>3, <1>4, <1>6
     DEF BootSecParams, InitSecParams, LinkQueue, InstanceShape, SecurityQueue,
         Tracked, Orphaned, AddrIsLink, IndexIsKeyset, PeerStep, sdVars
<1>7. ASSUME InitInstance PROVE LinkQueue' /\ InstanceShape' /\ SecurityQueue'
  <2>1. /\ UNCHANGED <<adv, link, evtq, smp, peers>> /\ wiped' = (wiped \/ Tracked)
        /\ boot \notin {"advertise", "params"} /\ boot' \notin {"advertise", "params", "flags"}
        /\ Tracked' => Tracked
    BY <1>1, <1>7, InstanceFacts DEF ConnStep
  <2>2. LinkQueue'
    BY <1>3, <1>4, <2>1 DEF LinkQueue
  <2>3. CASE BootConnFlags
    <3>1. conn' = [conn EXCEPT !.flags = {}]
      BY <2>3 DEF BootConnFlags, InitConnFlags
    <3>2. ~Tracked' /\ ~Orphaned'
      BY <1>1, <3>1 DEF Conn, Tracked, Orphaned
    <3>3. InstanceShape'
      BY <1>1, <1>3, <1>4, <2>1, <2>3, <3>1, <3>2
         DEF InstanceShape, BootConnFlags, PeerStep, Conn
    <3> QED
      BY <1>2, <1>3, <1>4, <2>1, <2>2, <3>2, <3>3 DEF SecurityQueue
  <2>4. CASE BootConnHandle
    <3>1. conn' = [conn EXCEPT !.handle = FALSE] /\ boot' = "bondedDev"
      BY <2>4 DEF BootConnHandle, InitConnHandle
    <3>2. ~Tracked'
      BY <1>1, <3>1 DEF Conn, Tracked
    <3>3. InstanceShape'
      BY <1>1, <1>3, <1>4, <2>1, <2>4, <3>1, <3>2
         DEF InstanceShape, BootConnHandle, PeerStep, Conn, Orphaned
    <3> QED
      BY <1>2, <1>3, <1>4, <2>1, <2>2, <3>2, <3>3 DEF SecurityQueue
  <2>5. CASE BootConnBondedDev
    <3>1. /\ conn' = [conn EXCEPT !.bondedDev = INVALID_BONDED_DEV_ID]
          /\ boot' = "addr"
      BY <2>5 DEF BootConnBondedDev, InitConnBondedDev
    <3>2. (Tracked' <=> Tracked) /\ (Orphaned' <=> Orphaned)
      BY <1>1, <3>1 DEF Conn, Tracked, Orphaned
    <3>3. InstanceShape'
      BY <1>1, <1>3, <1>4, <2>1, <3>1, <3>2 DEF InstanceShape, AddrIsLink, Conn
    <3>4. Tracked' => wiped' /\ IndexIsKeyset'
      BY <1>1, <2>1, <3>1 DEF IndexIsKeyset, Conn
    <3> QED
      BY <1>2, <1>3, <1>4, <2>1, <2>2, <3>2, <3>3, <3>4 DEF SecurityQueue
  <2>6. CASE BootConnAddr
    <3>0. boot = "addr" /\ boot' \in {"addr", "peerAddr"}
      BY <2>6 DEF BootConnAddr
    <3>1. PICK a \in Cleared : conn' = [conn EXCEPT !.addr = a]
      BY <2>6, ClearedAssumption DEF BootConnAddr, InitConnAddr, ClearedFrom
    <3>2. (Tracked' <=> Tracked) /\ (Orphaned' <=> Orphaned)
      BY <1>1, <3>1 DEF Conn, Tracked, Orphaned
    <3>3. InstanceShape'
      BY <1>1, <1>3, <1>4, <2>1, <3>0, <3>1, <3>2
         DEF InstanceShape, AddrIsLink, PeerStep, Conn
    <3>4. IndexIsKeyset => IndexIsKeyset'
      BY <1>1, <2>1, <3>1 DEF IndexIsKeyset, Conn
    <3>5. Tracked' => wiped' /\ (IndexIsKeyset => IndexIsKeyset')
      BY <2>1, <3>2, <3>4
    <3> QED
      BY <1>2, <1>3, <1>4, <2>1, <2>2, <3>2, <3>3, <3>5 DEF SecurityQueue
  <2> QED
    BY <1>7, <2>3, <2>4, <2>5, <2>6 DEF InitInstance
<1>8. ASSUME InitEntries PROVE LinkQueue' /\ InstanceShape' /\ SecurityQueue'
  <2>1. /\ UNCHANGED <<adv, link, evtq, smp, conn, wiped>>
        /\ boot \in PeerStep /\ boot' \in PeerStep \cup {"ready"}
        /\ \A i \in PeerIdx : peers'[i].flags \in {peers[i].flags, {}}
    BY <1>1, <1>8, EntryFacts
  <2>2. LinkQueue'
    BY <1>3, <1>4, <2>1 DEF LinkQueue, Tracked, PeerStep
  <2>3. InstanceShape'
    BY <1>3, <1>4, <2>1 DEF InstanceShape, Tracked, Orphaned, AddrIsLink, PeerStep
  <2>4. SecurityQueue'
    BY <1>3, <1>4, <2>1 DEF SecurityQueue, Tracked, IndexIsKeyset
  <2> QED
    BY <2>2, <2>3, <2>4
<1> QED
  BY <1>1, <1>5, <1>6, <1>7, <1>8 DEF Main, QueueInv

-----------------------------------------------------------------------------
\* The steps of the stack.

LEMMA RadioIInv == QueueInv /\ Radio => QueueInv'
<1> SUFFICES ASSUME QueueInv, Radio PROVE LinkQueue' /\ InstanceShape' /\ SecurityQueue'
  BY RadioTypeOK DEF QueueInv
<1>1. TypeOK /\ SoftDeviceTypeOK /\ LinkQueue /\ InstanceShape /\ SecurityQueue
  BY DEF QueueInv, TypeOK
<1>2. UNCHANGED <<peers, conn, mSecBond, boot, wiped>>
  BY DEF Radio, pmVars
<1>3. /\ (Tracked' <=> Tracked) /\ (Orphaned' <=> Orphaned)
      /\ link' = link => (AddrIsLink' <=> AddrIsLink)
      /\ smp'.keyset = smp.keyset => (IndexIsKeyset' <=> IndexIsKeyset)
  BY <1>2 DEF Tracked, Orphaned, AddrIsLink, IndexIsKeyset
<1>4. smp \in SmpState /\ SmpIdle.phase = "idle"
  BY <1>1 DEF SoftDeviceTypeOK, SmpIdle
<1>5. ASSUME NEW a \in Addr, CentralConnects(a)
      PROVE  LinkQueue' /\ InstanceShape' /\ SecurityQueue'
  <2>1. /\ \A i, k : At(i, k)' <=> i = 1 /\ k = "CONNECTED"
        /\ DOMAIN evtq' = {1} /\ Len(evtq') = 1 /\ evtq'[1].addr = a
    BY <1>1, <1>5, EventsAreEvents, RaiseFacts DEF CentralConnects, LinkQueue, At
  <2> QED
    BY <1>1, <1>2, <1>3, <1>4, <1>5, <2>1, AddrAssumption
       DEF CentralConnects, LinkQueue, InstanceShape, SecurityQueue
<1>6. ASSUME AdvertisingTimesOut
      PROVE  LinkQueue' /\ InstanceShape' /\ SecurityQueue'
  <2>1. /\ \A i, k : At(i, k)' <=> i = 1 /\ k = "TIMEOUT"
        /\ DOMAIN evtq' = {1} /\ Len(evtq') = 1
    BY <1>1, <1>6, EventsAreEvents, RaiseFacts
       DEF AdvertisingTimesOut, LinkQueue, At
  <2> QED
    BY <1>1, <1>2, <1>3, <1>4, <1>6, <2>1
       DEF AdvertisingTimesOut, LinkQueue, InstanceShape, SecurityQueue
<1>7. ASSUME LinkLost PROVE LinkQueue' /\ InstanceShape' /\ SecurityQueue'
  BY <1>1, <1>2, <1>3, <1>4, <1>7, EventsAreEvents, RaiseAt
     DEF LinkLost, LinkQueue, InstanceShape, SecurityQueue
<1>8. ASSUME CentralPairs PROVE LinkQueue' /\ InstanceShape' /\ SecurityQueue'
  BY <1>1, <1>2, <1>3, <1>4, <1>8, EventsAreEvents, RaiseAt
     DEF CentralPairs, LinkQueue, InstanceShape, SecurityQueue
<1>9. ASSUME NEW e \in Ediv, CentralEncrypts(e)
      PROVE  LinkQueue' /\ InstanceShape' /\ SecurityQueue'
  BY <1>1, <1>2, <1>3, <1>4, <1>9, EventsAreEvents, RaiseAt
     DEF CentralEncrypts, LinkQueue, InstanceShape, SecurityQueue
<1>10. ASSUME PairingEncrypts PROVE LinkQueue' /\ InstanceShape' /\ SecurityQueue'
  <2> DEFINE evt == [id |-> "CONN_SEC_UPDATE", open |-> FALSE]
  <2>1. evt \in Event /\ Raise(evt)
    BY <1>10, EventsAreEvents DEF PairingEncrypts
  <2>2. link # NoAddr /\ link' = link /\ adv' = adv
    BY <1>1, <1>4, <1>10 DEF PairingEncrypts, LinkQueue
  <2>3. LinkQueue'
    BY <1>1, <1>2, <1>3, <2>1, <2>2, RaiseAt DEF LinkQueue
  <2>4. InstanceShape'
    BY <1>1, <1>2, <1>3, <2>1, <2>2, RaiseAt DEF InstanceShape
  <2>5. SecurityQueue'
    BY <1>1, <1>2, <1>3, <1>4, <1>10, <2>1, <2>2, RaiseAt
       DEF PairingEncrypts, LinkQueue, SecurityQueue, SmpState, SmpIdle
  <2> QED
    BY <2>3, <2>4, <2>5
<1>11. ASSUME PairingFails PROVE LinkQueue' /\ InstanceShape' /\ SecurityQueue'
  <2> DEFINE evt == [id |-> "AUTH_STATUS", success |-> FALSE, bonded |-> FALSE,
                    idKey |-> FALSE]
  <2>1. evt \in Event /\ Raise(evt)
    BY <1>11, EventsAreEvents DEF PairingFails
  <2>2. link # NoAddr /\ link' = link /\ adv' = adv
    BY <1>1, <1>4, <1>11 DEF PairingFails, LinkQueue
  <2>3. LinkQueue'
    BY <1>1, <1>2, <1>3, <2>1, <2>2, RaiseAt DEF LinkQueue
  <2>4. InstanceShape'
    BY <1>1, <1>2, <1>3, <2>1, <2>2, RaiseAt DEF InstanceShape
  <2>5. SecurityQueue'
    BY <1>1, <1>2, <1>3, <1>4, <1>11, <2>1, <2>2, RaiseAt
       DEF PairingFails, LinkQueue, SecurityQueue, SmpState, SmpIdle
  <2> QED
    BY <2>3, <2>4, <2>5
<1>12. ASSUME PairingTimesOut PROVE LinkQueue' /\ InstanceShape' /\ SecurityQueue'
  <2> DEFINE evt == [id |-> "AUTH_STATUS", success |-> FALSE, bonded |-> FALSE,
                    idKey |-> FALSE]
  <2>1. evt \in Event /\ Raise(evt)
    BY <1>12, EventsAreEvents DEF PairingTimesOut
  <2>2. link # NoAddr /\ link' = link /\ adv' = adv
    BY <1>1, <1>4, <1>12 DEF PairingTimesOut, LinkQueue
  <2>3. LinkQueue'
    BY <1>1, <1>2, <1>3, <2>1, <2>2, RaiseAt DEF LinkQueue
  <2>4. InstanceShape'
    BY <1>1, <1>2, <1>3, <2>1, <2>2, RaiseAt DEF InstanceShape
  <2>5. SecurityQueue'
    BY <1>1, <1>2, <1>3, <1>4, <1>12, <2>1, <2>2, RaiseAt
       DEF PairingTimesOut, LinkQueue, SecurityQueue, SmpState, SmpIdle
  <2> QED
    BY <2>3, <2>4, <2>5
<1>13. ASSUME NEW o \in BOOLEAN, EncryptionEnds(o)
       PROVE  LinkQueue' /\ InstanceShape' /\ SecurityQueue'
  BY <1>1, <1>2, <1>3, <1>4, <1>13, EventsAreEvents, RaiseAt
     DEF EncryptionEnds, LinkQueue, InstanceShape, SecurityQueue
<1> QED
  BY <1>5, <1>6, <1>7, <1>8, <1>9, <1>10, <1>11, <1>12, <1>13 DEF Radio

LEMMA PairingEndsIInv == QueueInv /\ PairingEnds => QueueInv'
<1> SUFFICES ASSUME QueueInv,
                    NEW bonded \in BOOLEAN, NEW idKey \in BOOLEAN, NEW e \in Ediv,
                    PairingSucceeds(bonded, idKey),
                    IF bonded THEN KeysStored(idKey, e) ELSE UNCHANGED pmVars,
                    UNCHANGED <<boot, ndx, wiped>>
             PROVE  LinkQueue' /\ InstanceShape' /\ SecurityQueue'
  BY PairingEndsTypeOK DEF QueueInv, PairingEnds
<1> DEFINE evt == [id |-> "AUTH_STATUS", success |-> TRUE, bonded |-> bonded,
                   idKey |-> idKey]
<1>1. /\ SoftDeviceTypeOK /\ peers \in [PeerIdx -> Peer]
      /\ LinkQueue /\ InstanceShape /\ SecurityQueue
  BY DEF QueueInv, TypeOK, PeerManagerTypeOK
<1>2. UNCHANGED <<conn, mSecBond, boot, wiped>>
  BY DEF KeysStored, pmVars
<1>3. /\ (Tracked' <=> Tracked) /\ (Orphaned' <=> Orphaned)
      /\ link' = link => (AddrIsLink' <=> AddrIsLink)
      /\ smp'.keyset = smp.keyset => (IndexIsKeyset' <=> IndexIsKeyset)
  BY <1>2 DEF Tracked, Orphaned, AddrIsLink, IndexIsKeyset
<1>4. evt \in Event /\ Raise(evt)
  BY EventsAreEvents DEF PairingSucceeds
<1>5. link # NoAddr /\ link' = link /\ adv' = adv /\ smp.phase = "keys"
  BY DEF PairingSucceeds
<1>6. \A i \in PeerIdx : peers'[i].flags = peers[i].flags
  <2>1. \A p \in Peer : StoredEntry(p, idKey, e).flags = p.flags
    BY DEF StoredEntry, Peer
  <2> QED
    BY <1>1, <2>1 DEF KeysStored, pmVars
<1>7. LinkQueue'
  BY <1>1, <1>2, <1>3, <1>4, <1>5, RaiseAt DEF LinkQueue
<1>8. InstanceShape'
  BY <1>1, <1>2, <1>3, <1>4, <1>5, <1>6, RaiseAt DEF InstanceShape
<1>9. SecurityQueue'
  BY <1>1, <1>2, <1>3, <1>4, <1>5, RaiseAt
     DEF PairingSucceeds, LinkQueue, SecurityQueue, SmpIdle
<1> QED
  BY <1>7, <1>8, <1>9

-----------------------------------------------------------------------------
\* ble_evt_dispatch.

\* What the three parts say of a queue whose first event is pulled, when the
\* event does not end or begin the tracking of the connection.
LEMMA PullLinkQueue ==
    ASSUME QueueInv, NEW id, id # "DISCONNECTED", Pull(id),
           adv' = adv, Tracked' <=> Tracked, link = NoAddr => smp' = smp
    PROVE  LinkQueue'
<1>1. SoftDeviceTypeOK /\ LinkQueue
  BY DEF QueueInv, TypeOK
<1>2. link' = link /\ boot' = boot /\ evtq # <<>>
  BY DEF Pull
<1>3. \A i \in DOMAIN evtq' : \A k : At(i, k)' => i + 1 # 1 /\ At(i + 1, k)
  BY <1>1, PullAt
<1>4. ~adv /\ boot # "advertise"
  BY <1>1, <1>2 DEF LinkQueue
<1>5. link = NoAddr /\ Tracked => At(Len(evtq), "DISCONNECTED")'
  BY <1>1, PullLast DEF LinkQueue
<1>6. \A i \in DOMAIN evtq' :
         /\ ~At(i, "CONNECTED")' /\ ~At(i, "TIMEOUT")'
         /\ At(i, "DISCONNECTED")' => i = Len(evtq') /\ link = NoAddr
  BY <1>1, <1>3, PullFacts, PullAt DEF LinkQueue
<1>7. ~At(1, "CONNECTED")'
  BY <1>1, <1>6, PullAt
<1> QED
  BY <1>1, <1>2, <1>4, <1>5, <1>6, <1>7 DEF LinkQueue

LEMMA PullInstanceShape ==
    ASSUME QueueInv, NEW id, id # "CONNECTED", Pull(id),
           conn'.handle = conn.handle, conn'.addr = conn.addr,
           "allocated" \in conn'.flags <=> "allocated" \in conn.flags,
           "connected" \in conn'.flags <=> "connected" \in conn.flags,
           Tracked /\ ~wiped /\ "bonded" \in conn'.flags =>
              conn'.bondedDev \in PeerIdx,
           \A i \in PeerIdx : "assigned" \notin peers'[i].flags,
           wiped' = wiped
    PROVE  InstanceShape' /\ (Tracked' <=> Tracked)
<1>1. SoftDeviceTypeOK /\ InstanceShape
  BY DEF QueueInv, TypeOK
<1>2. link' = link /\ boot' = boot
  BY DEF Pull
<1>3. ~At(1, "CONNECTED")
  BY <1>1, PullAt
<1>4. /\ (Tracked' <=> Tracked) /\ (Orphaned' <=> Orphaned)
      /\ AddrIsLink' <=> AddrIsLink
  BY <1>2 DEF Tracked, Orphaned, AddrIsLink
<1> QED
  BY <1>1, <1>2, <1>3, <1>4 DEF InstanceShape

\* SecurityQueue is kept if the event is answered as it should be, and if the
\* handler leaves a peer index in the instance that had one.
LEMMA PullSecurityQueue ==
    ASSUME QueueInv, NEW id, id # "CONNECTED", Pull(id), Tracked' => Tracked,
           smp'.phase # smp.phase =>
              \/ /\ id = "SEC_PARAMS_REQUEST" /\ smp.phase = "asked"
                 /\ smp'.phase \in {"refused", "running"}
              \/ /\ id = "SEC_INFO_REQUEST" /\ smp.phase = "info"
                 /\ smp'.phase = "encrypting",
           id = "SEC_PARAMS_REQUEST" /\ Tracked' =>
              conn'.bondedDev \in PeerIdx /\ smp'.phase # "asked",
           conn.bondedDev \in PeerIdx /\ Tracked' => conn'.bondedDev \in PeerIdx,
           wiped' = wiped,
           smp'.phase \in {"running", "keys"} =>
              smp'.keyset \in PeerIdx /\ (Tracked' => IndexIsKeyset')
    PROVE  SecurityQueue'
<1>1. SoftDeviceTypeOK /\ LinkQueue /\ SecurityQueue
  BY DEF QueueInv, TypeOK
<1>2. link' = link
  BY DEF Pull
<1>3. \A i \in DOMAIN evtq' :
         /\ \A k : At(i, k)' => At(i + 1, k)
         /\ ~At(i, "CONNECTED")'
         /\ i + 1 # 1 /\ (i + 1 = Len(evtq) <=> i = Len(evtq'))
  BY <1>1, PullAt, PullFacts DEF LinkQueue
<1>4. \A i \in DOMAIN evtq' : At(i, "SEC_PARAMS_REQUEST")' =>
         \/ link = NoAddr \/ smp'.phase = "dead"
         \/ smp'.phase = "asked" /\ i = Len(evtq')
  BY <1>1, <1>3, PullAt, PullFacts DEF SecurityQueue
<1>5. \A i \in DOMAIN evtq' : At(i, "SEC_INFO_REQUEST")' =>
         link = NoAddr \/ (smp'.phase = "info" /\ i = Len(evtq'))
  BY <1>1, <1>3, PullAt, PullFacts DEF SecurityQueue
<1>6. ASSUME NEW i \in DOMAIN evtq', At(i, "AUTH_STATUS")', Tracked', ~wiped
      PROVE  \/ conn'.bondedDev \in PeerIdx
             \/ \E j \in 1 .. i - 1 : At(j, "SEC_PARAMS_REQUEST")'
  <2>1. \/ conn.bondedDev \in PeerIdx
        \/ \E j \in 1 .. (i + 1) - 1 : At(j, "SEC_PARAMS_REQUEST")
    BY <1>1, <1>3, <1>6, PullAt DEF SecurityQueue
  <2>2. CASE id = "SEC_PARAMS_REQUEST"
    BY <1>6, <2>2
  <2>3. CASE id # "SEC_PARAMS_REQUEST"
    BY <1>1, <1>6, <2>1, <2>3, PullBefore
  <2> QED
    BY <2>2, <2>3
<1>7. smp'.phase = "asked" /\ Tracked' => At(Len(evtq), "SEC_PARAMS_REQUEST")'
  BY <1>1, PullLast DEF SecurityQueue
<1>8. ~At(1, "CONNECTED")'
  BY <1>1, <1>3, PullAt
<1>9. smp'.phase \in {"refused", "running", "keys"} /\ Tracked' /\ ~wiped =>
         conn'.bondedDev \in PeerIdx
  BY <1>1 DEF SecurityQueue
<1> QED
  BY <1>2, <1>4, <1>5, <1>6, <1>7, <1>8, <1>9 DEF SecurityQueue

LEMMA OnConnectedIInv ==
    ASSUME QueueInv, OnConnected
    PROVE  LinkQueue' /\ InstanceShape' /\ SecurityQueue'
<1> DEFINE peer == PeerInstFindByAddr(Head(evtq).addr)
           filled == [conn EXCEPT !.flags = {"allocated", "connected"},
                                  !.handle = TRUE, !.addr = Head(evtq).addr]
<1>1. /\ SoftDeviceTypeOK /\ conn \in Conn
      /\ LinkQueue /\ InstanceShape /\ SecurityQueue
  BY DEF QueueInv, TypeOK, PeerManagerTypeOK
<1>2. /\ Pull("CONNECTED") /\ At(1, "CONNECTED") /\ ~Tracked
      /\ link # NoAddr => Head(evtq).addr = link
  BY <1>1, PullFacts, PullAt DEF OnConnected, LinkQueue, At
<1>3. UNCHANGED <<adv, link, boot, smp, peers, mSecBond, wiped>>
  BY DEF OnConnected, HandleConnected, Pull
<1>4. ~adv /\ boot # "advertise"
  BY <1>1, <1>2 DEF LinkQueue, At
<1>5. \A i \in DOMAIN evtq' :
         /\ \A k : At(i, k)' => At(i + 1, k)
         /\ ~At(i, "CONNECTED")' /\ ~At(i, "TIMEOUT")'
         /\ i + 1 # 1 /\ (i + 1 = Len(evtq) <=> i = Len(evtq'))
  BY <1>1, <1>2, PullAt, PullFacts DEF LinkQueue
<1>6. \/ Orphaned /\ conn' = conn
      \/ /\ ~Orphaned' /\ Tracked' /\ conn'.handle
         /\ "allocated" \in conn'.flags /\ "connected" \in conn'.flags
         /\ conn'.addr = Head(evtq).addr
         /\ "bonded" \in conn'.flags => conn'.bondedDev \in PeerIdx
  <2>1. CASE "allocated" \in conn.flags
    BY <1>1, <1>2, <2>1
       DEF OnConnected, HandleConnected, InstanceShape, Tracked, Orphaned
  <2>2. CASE "allocated" \notin conn.flags /\ peer = INVALID_BONDED_DEV_ID
    <3>1. conn' = filled
      BY <2>2 DEF OnConnected, HandleConnected
    <3> QED
      BY <1>1, <3>1 DEF Orphaned, Tracked, Conn
  <2>3. CASE "allocated" \notin conn.flags /\ peer # INVALID_BONDED_DEV_ID
    <3>1. conn' = ConnInstBondinfoFill(filled, peer) /\ peer \in PeerIdx
      BY <2>3, PeerFindType DEF OnConnected, HandleConnected
    <3> QED
      BY <1>1, <3>1 DEF Orphaned, Tracked, Conn, ConnInstBondinfoFill
  <2> QED
    BY <2>1, <2>2, <2>3
<1>7. LinkQueue'
  <2>1. link = NoAddr => At(Len(evtq), "DISCONNECTED")'
    BY <1>1, <1>2, PullLast DEF LinkQueue
  <2>2. \A i \in DOMAIN evtq' : At(i, "DISCONNECTED")' =>
            i = Len(evtq') /\ link = NoAddr
    BY <1>1, <1>5, PullAt, PullFacts DEF LinkQueue, At
  <2> QED
    BY <1>1, <1>3, <1>4, <1>5, <2>1, <2>2 DEF LinkQueue
<1>8. InstanceShape'
  BY <1>1, <1>2, <1>3, <1>6 DEF InstanceShape, Tracked, Orphaned, AddrIsLink
<1>9. SecurityQueue'
  <2>1. smp.phase \notin {"refused", "running", "keys"}
    BY <1>1, <1>2 DEF SecurityQueue
  <2>2. smp.phase = "asked" => At(Len(evtq), "SEC_PARAMS_REQUEST")'
    BY <1>1, <1>2, PullLast DEF SecurityQueue
  <2>3. ~At(1, "CONNECTED")'
    BY <1>1, <1>2, <1>5, PullAt
  <2>4. ASSUME NEW i \in DOMAIN evtq', At(i, "AUTH_STATUS")'
        PROVE  \E j \in 1 .. i - 1 : At(j, "SEC_PARAMS_REQUEST")'
    <3>1. \E j \in 1 .. (i + 1) - 1 : At(j, "SEC_PARAMS_REQUEST")
      BY <1>1, <1>2, <1>5, <2>4, PullAt DEF SecurityQueue
    <3> QED
      BY <1>1, <1>2, <3>1, PullBefore
  <2>5. \A i \in DOMAIN evtq' :
         /\ At(i, "SEC_PARAMS_REQUEST")' =>
              \/ link = NoAddr \/ smp.phase = "dead"
              \/ smp.phase = "asked" /\ i = Len(evtq')
         /\ At(i, "SEC_INFO_REQUEST")' =>
              link = NoAddr \/ (smp.phase = "info" /\ i = Len(evtq'))
    BY <1>1, <1>2, <1>5, PullAt DEF SecurityQueue
  <2> QED
    BY <1>3, <2>1, <2>2, <2>3, <2>4, <2>5 DEF SecurityQueue
<1> QED
  BY <1>7, <1>8, <1>9

\* The instance is freed; the queue is empty, there is no link.
LEMMA OnDisconnectedIInv ==
    ASSUME QueueInv, OnDisconnected
    PROVE  LinkQueue' /\ InstanceShape' /\ SecurityQueue'
<1>1. /\ SoftDeviceTypeOK /\ peers \in [PeerIdx -> Peer] /\ conn \in Conn
      /\ LinkQueue /\ InstanceShape /\ SecurityQueue
  BY DEF QueueInv, TypeOK, PeerManagerTypeOK
<1>2. Pull("DISCONNECTED") /\ link = NoAddr /\ Len(evtq) = 1 /\ boot # "advertise"
  <2>1. Pull("DISCONNECTED")
    BY DEF OnDisconnected
  <2>2. At(1, "DISCONNECTED") /\ 1 \in DOMAIN evtq /\ evtq # <<>>
    BY <1>1, <2>1, PullAt DEF At, Pull
  <2> QED
    BY <1>1, <2>1, <2>2 DEF LinkQueue
<1>3. UNCHANGED <<link, boot, smp, mSecBond>> /\ wiped' = FALSE
  BY DEF OnDisconnected, HandleDisconnected, Pull, pmVars
<1>4. /\ DOMAIN evtq' = {} /\ evtq' = <<>>
      /\ \A i, k : ~At(i, k)'
  BY <1>1, <1>2, PullFacts, PullAt
<1>5. /\ ~Tracked'
      /\ Orphaned' => Orphaned
      /\ "allocated" \in conn'.flags <=> "connected" \in conn'.flags
  BY <1>1 DEF OnDisconnected, HandleDisconnected, ConnInstInit, Tracked, Orphaned,
              pmVars, InstanceShape
<1>6. \A i \in PeerIdx : "assigned" \notin peers'[i].flags
  BY <1>1 DEF OnDisconnected, HandleDisconnected, PeerInstInit, pmVars,
              InstanceShape
<1>7. LinkQueue'
  BY <1>1, <1>2, <1>3, <1>4, <1>5 DEF LinkQueue
<1>8. InstanceShape'
  BY <1>1, <1>2, <1>3, <1>4, <1>5, <1>6 DEF InstanceShape
<1>9. SecurityQueue'
  BY <1>1, <1>2, <1>3, <1>4, <1>5 DEF LinkQueue, SecurityQueue, SmpIdle
<1> QED
  BY <1>7, <1>8, <1>9

\* No entry is ever marked as assigned, so an allocation always finds one.
LEMMA AllocationSucceeds ==
    ASSUME QueueInv PROVE PeerInstUnassigned \in PeerIdx
<1>1. {i \in PeerIdx : "assigned" \notin peers[i].flags} # {}
  BY BondsAssumption DEF QueueInv, InstanceShape, PeerIdx
<1> QED
  BY <1>1, FirstOfType DEF PeerInstUnassigned

LEMMA OnSecParamsRequestIInv ==
    ASSUME QueueInv, OnSecParamsRequest
    PROVE  LinkQueue' /\ InstanceShape' /\ SecurityQueue'
<1> DEFINE id == "SEC_PARAMS_REQUEST"
           known == PeerInstFindByAddr(conn.addr)
           free == PeerInstUnassigned
<1>1. PICK accepted \in BOOLEAN : HandleSecParamsRequest(accepted)
  BY DEF OnSecParamsRequest
<1>2. /\ Pull(id) /\ Tracked /\ UNCHANGED <<adv, wiped>>
      /\ conn \in Conn /\ peers \in [PeerIdx -> Peer] /\ smp \in SmpState
      /\ SoftDeviceTypeOK /\ LinkQueue /\ InstanceShape /\ SecurityQueue
  BY DEF OnSecParamsRequest, QueueInv, TypeOK, SoftDeviceTypeOK, PeerManagerTypeOK
<1>3. /\ known \in PeerIdx \cup {INVALID_BONDED_DEV_ID} /\ free \in PeerIdx
      /\ free # INVALID_BONDED_DEV_ID
  BY PeerFindType, AllocationSucceeds, BondsAssumption
     DEF PeerIdx, INVALID_BONDED_DEV_ID
\* Whichever entry it is, the stack gets that entry and the instance refers to it.
<1> DEFINE refers(c, i) ==
             /\ c.bondedDev = i
             /\ c.handle = conn.handle /\ c.addr = conn.addr
             /\ "allocated" \in c.flags <=> "allocated" \in conn.flags
             /\ "connected" \in c.flags <=> "connected" \in conn.flags
<1>4. \E i \in PeerIdx : SecParamsReply(i, mSecBond, accepted) /\ refers(conn', i)
  <2> DEFINE pairing == [conn EXCEPT !.flags = @ \cup {"pairing"}]
  <2>1. CASE IsConnBonded
    <3>1. /\ SecParamsReply(conn.bondedDev, mSecBond, accepted)
          /\ conn' = [pairing EXCEPT !.flags = @ \cup {"bond_info_update"}]
      BY <1>1, <2>1 DEF HandleSecParamsRequest
    <3>2. conn.bondedDev \in PeerIdx
      BY <1>2, <2>1 DEF IsConnBonded, Conn
    <3>3. refers(conn', conn.bondedDev)
      BY <1>2, <3>1 DEF Conn
    <3> QED
      BY <3>1, <3>2, <3>3
  <2>2. CASE ~IsConnBonded /\ known # INVALID_BONDED_DEV_ID
    <3>1. /\ SecParamsReply(known, mSecBond, accepted)
          /\ conn' = ConnInstBondinfoFill(pairing, known)
      BY <1>1, <2>2 DEF HandleSecParamsRequest
    <3>2. refers(conn', known)
      BY <1>2, <3>1 DEF Conn, ConnInstBondinfoFill
    <3> QED
      BY <1>3, <2>2, <3>1, <3>2
  <2>3. CASE ~IsConnBonded /\ known = INVALID_BONDED_DEV_ID
    <3>1. /\ SecParamsReply(free, mSecBond, accepted)
          /\ conn' = [pairing EXCEPT !.bondedDev = free]
      BY <1>1, <1>3, <2>3 DEF HandleSecParamsRequest
    <3>2. refers(conn', free)
      BY <1>2, <3>1 DEF Conn
    <3> QED
      BY <1>3, <3>1, <3>2
  <2> QED
    BY <2>1, <2>2, <2>3
<1>5. PICK i \in PeerIdx : SecParamsReply(i, mSecBond, accepted) /\ refers(conn', i)
  BY <1>4
<1>6. \A j \in PeerIdx : "assigned" \notin peers'[j].flags
  <2>1. \A p \in Peer : "assigned" \notin p.flags =>
           "assigned" \notin AllocatedEntry(p, conn.addr).flags
    BY DEF AllocatedEntry, Peer
  <2> QED
    BY <1>1, <1>2, <2>1 DEF HandleSecParamsRequest, PeerInstAllocate, InstanceShape
<1>7. InstanceShape' /\ (Tracked' <=> Tracked)
  BY <1>2, <1>5, <1>6, PullInstanceShape
<1>8. /\ smp'.phase # smp.phase =>
            smp.phase = "asked" /\ smp'.phase \in {"refused", "running"}
      /\ smp'.phase # "asked"
      /\ smp'.phase \in {"running", "keys"} => smp'.keyset = i
      /\ link = NoAddr => smp' = smp
  <2>1. smp.phase \in {"asked", "dead"} \/ link = NoAddr
    <3>1. At(1, "SEC_PARAMS_REQUEST") /\ 1 \in DOMAIN evtq
      BY <1>2, PullAt DEF At
    <3> QED
      BY <1>2, <3>1 DEF SecurityQueue
  <2>2. link = NoAddr => smp.phase = "idle"
    BY <1>2 DEF LinkQueue, SmpIdle
  <2> QED
    BY <1>2, <1>5, <2>1, <2>2 DEF SecParamsReply, SmpState
<1>9. LinkQueue'
  BY <1>2, <1>7, <1>8, PullLinkQueue
<1>10. smp'.phase \in {"running", "keys"} => IndexIsKeyset'
  BY <1>5, <1>8 DEF IndexIsKeyset
<1>11. SecurityQueue'
  BY <1>2, <1>5, <1>7, <1>8, <1>10, PullSecurityQueue
<1> QED
  BY <1>7, <1>9, <1>11

LEMMA OnSecInfoRequestIInv ==
    ASSUME QueueInv, OnSecInfoRequest
    PROVE  LinkQueue' /\ InstanceShape' /\ SecurityQueue'
<1> DEFINE found == PeerInstFindByEdiv(Head(evtq).ediv)
<1>1. /\ Pull("SEC_INFO_REQUEST") /\ Tracked
      /\ HandleSecInfoRequest(Head(evtq)) /\ UNCHANGED <<adv, wiped, peers>>
      /\ SoftDeviceTypeOK /\ conn \in Conn /\ smp \in SmpState
      /\ LinkQueue /\ InstanceShape /\ SecurityQueue
  BY DEF OnSecInfoRequest, HandleSecInfoRequest, QueueInv, TypeOK, SoftDeviceTypeOK,
         PeerManagerTypeOK
<1>2. found \in PeerIdx \cup {INVALID_BONDED_DEV_ID}
  BY PeerFindType
<1>3. /\ conn'.handle = conn.handle /\ conn'.addr = conn.addr
      /\ "allocated" \in conn'.flags <=> "allocated" \in conn.flags
      /\ "connected" \in conn'.flags <=> "connected" \in conn.flags
      /\ conn.bondedDev \in PeerIdx => conn'.bondedDev \in PeerIdx
      /\ ~wiped /\ "bonded" \in conn'.flags => conn'.bondedDev \in PeerIdx
  <2>1. CASE conn' = conn
    BY <1>1, <2>1 DEF InstanceShape, Tracked
  <2>2. CASE conn' # conn
    <3>1. conn' = ConnInstBondinfoFill(conn, found) /\ found \in PeerIdx
      BY <1>1, <1>2, <2>2 DEF HandleSecInfoRequest
    <3> QED
      BY <1>1, <3>1 DEF ConnInstBondinfoFill, Conn
  <2> QED
    BY <2>1, <2>2
<1>4. InstanceShape' /\ (Tracked' <=> Tracked)
  BY <1>1, <1>3, PullInstanceShape DEF InstanceShape
<1>5. /\ smp'.phase # smp.phase =>
            smp.phase = "info" /\ smp'.phase = "encrypting"
      /\ smp'.phase \notin {"running", "keys"}
      /\ link = NoAddr => smp' = smp
  <2>1. smp.phase = "info" \/ link = NoAddr
    <3>1. At(1, "SEC_INFO_REQUEST") /\ 1 \in DOMAIN evtq
      BY <1>1, PullAt DEF At
    <3> QED
      BY <1>1, <3>1 DEF SecurityQueue
  <2>2. link = NoAddr => smp.phase = "idle"
    BY <1>1 DEF LinkQueue, SmpIdle
  <2> QED
    BY <1>1, <2>1, <2>2 DEF HandleSecInfoRequest, SecInfoReply, SmpState
<1>6. LinkQueue'
  BY <1>1, <1>4, <1>5, PullLinkQueue
<1>7. SecurityQueue'
  BY <1>1, <1>3, <1>4, <1>5, PullSecurityQueue
<1> QED
  BY <1>4, <1>6, <1>7

\* The handlers that leave the stack and the peer index alone.
LEMMA PullIInv ==
    ASSUME QueueInv, NEW id, id \in {"AUTH_STATUS", "CONN_SEC_UPDATE", "TIMEOUT"},
           Pull(id), UNCHANGED <<adv, smp, wiped>>,
           conn'.handle = conn.handle, conn'.addr = conn.addr,
           conn'.bondedDev = conn.bondedDev,
           "allocated" \in conn'.flags <=> "allocated" \in conn.flags,
           "connected" \in conn'.flags <=> "connected" \in conn.flags,
           "bonded" \in conn'.flags =>
              "bonded" \in conn.flags \/ conn.bondedDev \in PeerIdx,
           \A i \in PeerIdx : "assigned" \notin peers'[i].flags
    PROVE  LinkQueue' /\ InstanceShape' /\ SecurityQueue'
<1>1. InstanceShape' /\ (Tracked' <=> Tracked)
  BY PullInstanceShape DEF QueueInv, InstanceShape
<1>2. LinkQueue'
  BY <1>1, PullLinkQueue
<1>3. IndexIsKeyset' <=> IndexIsKeyset
  BY DEF IndexIsKeyset
<1>4. SecurityQueue'
  BY <1>1, <1>3, PullSecurityQueue DEF QueueInv, SecurityQueue
<1> QED
  BY <1>1, <1>2, <1>4

LEMMA OnAuthStatusIInv ==
    ASSUME QueueInv, OnAuthStatus
    PROVE  LinkQueue' /\ InstanceShape' /\ SecurityQueue'
<1> DEFINE i == conn.bondedDev
           evt == Head(evtq)
<1>1. /\ Pull("AUTH_STATUS") /\ HandleAuthStatus(evt)
      /\ UNCHANGED <<adv, smp, wiped>>
      /\ conn \in Conn /\ peers \in [PeerIdx -> Peer] /\ InstanceShape
  BY DEF OnAuthStatus, HandleAuthStatus, QueueInv, TypeOK, PeerManagerTypeOK
<1>2. /\ conn'.handle = conn.handle /\ conn'.addr = conn.addr
      /\ conn'.bondedDev = i
      /\ "allocated" \in conn'.flags <=> "allocated" \in conn.flags
      /\ "connected" \in conn'.flags <=> "connected" \in conn.flags
      /\ "bonded" \in conn'.flags => "bonded" \in conn.flags \/ i \in PeerIdx
  <2> DEFINE done == [conn EXCEPT !.flags = @ \ {"pairing"}]
  <2>1. \/ conn' = done
        \/ /\ i # INVALID_BONDED_DEV_ID
           /\ conn' = [done EXCEPT !.flags = @ \cup {"bonded"}]
    BY <1>1 DEF HandleAuthStatus
  <2>2. CASE conn' = done
    BY <1>1, <2>2 DEF Conn
  <2>3. CASE /\ i # INVALID_BONDED_DEV_ID
             /\ conn' = [done EXCEPT !.flags = @ \cup {"bonded"}]
    <3>1. i \in PeerIdx
      BY <1>1, <2>3 DEF Conn
    <3> QED
      BY <1>1, <2>3, <3>1 DEF Conn
  <2> QED
    BY <2>1, <2>2, <2>3
<1>3. \A j \in PeerIdx : "assigned" \notin peers'[j].flags
  <2>1. \A p \in Peer : "assigned" \notin p.flags =>
           "assigned" \notin BondedEntry(p, evt.idKey).flags
    BY DEF BondedEntry, Peer
  <2> QED
    BY <1>1, <2>1 DEF HandleAuthStatus, PeerInstInit, InstanceShape
<1> QED
  BY <1>1, <1>2, <1>3, PullIInv

LEMMA OnConnSecUpdateIInv ==
    ASSUME QueueInv, OnConnSecUpdate
    PROVE  LinkQueue' /\ InstanceShape' /\ SecurityQueue'
<1>1. /\ Pull("CONN_SEC_UPDATE") /\ HandleConnSecUpdate(Head(evtq))
      /\ UNCHANGED <<adv, smp, wiped, peers>> /\ conn \in Conn /\ InstanceShape
  BY DEF OnConnSecUpdate, HandleConnSecUpdate, QueueInv, TypeOK, PeerManagerTypeOK
<1>2. /\ conn'.handle = conn.handle /\ conn'.addr = conn.addr
      /\ conn'.bondedDev = conn.bondedDev
      /\ "allocated" \in conn'.flags <=> "allocated" \in conn.flags
      /\ "connected" \in conn'.flags <=> "connected" \in conn.flags
      /\ "bonded" \in conn'.flags => "bonded" \in conn.flags
  BY <1>1 DEF HandleConnSecUpdate, Conn
<1>3. \A i \in PeerIdx : "assigned" \notin peers'[i].flags
  BY <1>1 DEF InstanceShape
<1> QED
  BY <1>1, <1>2, <1>3, PullIInv

LEMMA OnTimeoutIInv ==
    ASSUME QueueInv, OnTimeout
    PROVE  LinkQueue' /\ InstanceShape' /\ SecurityQueue'
<1>1. /\ Pull("TIMEOUT") /\ UNCHANGED <<adv, smp, wiped, peers, conn>>
      /\ InstanceShape
  BY DEF OnTimeout, pmVars, QueueInv
<1>2. \A i \in PeerIdx : "assigned" \notin peers'[i].flags
  BY <1>1 DEF InstanceShape
<1> QED
  BY <1>1, <1>2, PullIInv

\* Without the instance nothing is asked of the peer index.
LEMMA OnUntrackedIInv ==
    ASSUME QueueInv, OnUntracked
    PROVE  LinkQueue' /\ InstanceShape' /\ SecurityQueue'
<1>1. PICK id \in {"SEC_PARAMS_REQUEST", "SEC_INFO_REQUEST", "AUTH_STATUS",
                   "CONN_SEC_UPDATE"} : Pull(id)
  BY DEF OnUntracked
<1>2. /\ ~Tracked /\ UNCHANGED <<adv, smp, wiped, peers, conn>>
      /\ InstanceShape /\ SecurityQueue
  BY DEF OnUntracked, pmVars, QueueInv
<1>3. InstanceShape' /\ (Tracked' <=> Tracked)
  <2>1. \A i \in PeerIdx : "assigned" \notin peers'[i].flags
    BY <1>2 DEF InstanceShape
  <2> QED
    BY <1>1, <1>2, <2>1, PullInstanceShape DEF InstanceShape
<1>4. LinkQueue'
  BY <1>1, <1>2, <1>3, PullLinkQueue
<1>5. SecurityQueue'
  BY <1>1, <1>2, <1>3, PullSecurityQueue DEF SecurityQueue
<1> QED
  BY <1>3, <1>4, <1>5

-----------------------------------------------------------------------------
\* QueueInv is inductive: the queue never holds a request whose procedure has
\* moved on, nor the end of a pairing whose connection instance has no peer
\* index.
THEOREM QueueInvariant == Spec => []QueueInv
<1>1. ASSUME QueueInv, [Next]_vars PROVE QueueInv'
  <2>1. CASE UNCHANGED vars
    BY <1>1, <2>1
       DEF vars, sdVars, pmVars, QueueInv, TypeOK, SoftDeviceTypeOK,
           PeerManagerTypeOK, LinkQueue, InstanceShape, SecurityQueue, Tracked,
           Orphaned, AddrIsLink, IndexIsKeyset, At
  <2>2. CASE Dispatch
    <3>1. TypeOK'
      BY <1>1, <2>2, DispatchActionTypeOK DEF QueueInv
    <3>2. LinkQueue' /\ InstanceShape' /\ SecurityQueue'
      BY <1>1, <2>2, OnConnectedIInv, OnDisconnectedIInv, OnSecParamsRequestIInv,
         OnSecInfoRequestIInv, OnAuthStatusIInv, OnConnSecUpdateIInv,
         OnUntrackedIInv, OnTimeoutIInv
         DEF Dispatch
    <3> QED
      BY <3>1, <3>2 DEF QueueInv
  <2> QED
    BY <1>1, <2>1, <2>2, MainIInv, RadioIInv, PairingEndsIInv DEF Next
<1> QED
  BY <1>1, InitIInv, PTL DEF Spec

\* The pairing that a dispatched request starts finds the queue empty.
LEMMA RequestEmptiesQueue ==
    ASSUME QueueInv, Pull("SEC_PARAMS_REQUEST"), smp.phase = "asked"
    PROVE  DOMAIN evtq' = {}
<1>1. SoftDeviceTypeOK /\ LinkQueue /\ SecurityQueue
  BY DEF QueueInv, TypeOK
<1>2. At(1, "SEC_PARAMS_REQUEST") /\ 1 \in DOMAIN evtq
  BY <1>1, PullAt DEF At
<1>3. link # NoAddr
  BY <1>1 DEF LinkQueue, SmpIdle
<1>4. Len(evtq) = 1
  BY <1>1, <1>2, <1>3 DEF SecurityQueue
<1> QED
  BY <1>1, <1>4, PullFacts

\* The queue and the phase of the procedure, for the steps that start no pairing
\* and raise no AUTH_STATUS.
LEMMA LeaseKept ==
    ASSUME LeaseQueue,
           smp'.phase \in {"running", "keys"} => smp.phase \in {"running", "keys"},
           \A i : At(i, "AUTH_STATUS")' => \E j : At(j, "AUTH_STATUS")
    PROVE  LeaseQueue'
BY DEF LeaseQueue, At

LEMMA MainLease == IInv /\ Main => LeaseQueue'
BY MainFacts DEF IInv, QueueInv, LeaseQueue, At

LEMMA PairingEndsLease == IInv /\ PairingEnds => LeaseQueue'
BY DEF PairingEnds, PairingSucceeds, SmpIdle, LeaseQueue

LEMMA RadioLease == IInv /\ Radio => LeaseQueue'
<1> SUFFICES ASSUME IInv, Radio PROVE LeaseQueue'
  OBVIOUS
<1>1. SoftDeviceTypeOK /\ LinkQueue /\ LeaseQueue /\ smp \in SmpState
  BY DEF IInv, QueueInv, TypeOK, SoftDeviceTypeOK
<1>2. \A evt \in Event : evt.id # "AUTH_STATUS" /\ Raise(evt) =>
         \A i : At(i, "AUTH_STATUS")' => \E j : At(j, "AUTH_STATUS")
  BY <1>1, RaiseAt
<1>3. ASSUME NEW a \in Addr, CentralConnects(a) PROVE LeaseQueue'
  BY <1>1, <1>2, <1>3, LeaseKept, EventsAreEvents DEF CentralConnects
<1>4. ASSUME AdvertisingTimesOut PROVE LeaseQueue'
  BY <1>1, <1>2, <1>4, LeaseKept, EventsAreEvents DEF AdvertisingTimesOut
<1>5. ASSUME NEW e \in Ediv, CentralEncrypts(e) PROVE LeaseQueue'
  BY <1>5, <1>1 DEF CentralEncrypts, LeaseQueue, SmpState
<1>6. ASSUME CentralPairs PROVE LeaseQueue'
  BY <1>6, <1>1 DEF CentralPairs, LeaseQueue, SmpState
<1>7. ASSUME PairingEncrypts PROVE LeaseQueue'
  BY <1>1, <1>2, <1>7, LeaseKept, EventsAreEvents DEF PairingEncrypts
<1>8. SmpIdle.phase = "idle" /\ [SmpIdle EXCEPT !.phase = "dead"].phase = "dead"
  BY DEF SmpIdle
<1>9. ASSUME LinkLost \/ PairingFails PROVE LeaseQueue'
  BY <1>8, <1>9 DEF LinkLost, PairingFails, LeaseQueue
<1>10. ASSUME PairingTimesOut PROVE LeaseQueue'
  BY <1>8, <1>10 DEF PairingTimesOut, LeaseQueue
<1>11. ASSUME NEW o \in BOOLEAN, EncryptionEnds(o) PROVE LeaseQueue'
  BY <1>8, <1>11 DEF EncryptionEnds, LeaseQueue
<1> QED
  BY <1>3, <1>4, <1>5, <1>6, <1>7, <1>9, <1>10, <1>11 DEF Radio

\* What a handler does to the security procedure: nothing, unless it answers.
LEMMA DispatchSmp ==
    ASSUME QueueInv, Dispatch
    PROVE  \/ smp' = smp
           \/ /\ OnSecParamsRequest /\ smp.phase = "asked"
              /\ smp'.phase \in {"running", "refused"}
           \/ /\ OnSecInfoRequest /\ smp.phase = "info"
              /\ smp'.phase = "encrypting"
<1>1. smp \in SmpState
  BY DEF QueueInv, TypeOK, SoftDeviceTypeOK
<1>2. ASSUME OnSecParamsRequest
      PROVE  smp' = smp \/ (smp.phase = "asked" /\ smp'.phase \in {"running", "refused"})
  BY <1>1, <1>2 DEF OnSecParamsRequest, HandleSecParamsRequest, SecParamsReply,
                    SmpState
<1>3. ASSUME OnSecInfoRequest
      PROVE  smp' = smp \/ (smp.phase = "info" /\ smp'.phase = "encrypting")
  BY <1>3 DEF OnSecInfoRequest, HandleSecInfoRequest, SecInfoReply
<1>4. ASSUME ~OnSecParamsRequest, ~OnSecInfoRequest PROVE smp' = smp
  BY <1>4 DEF Dispatch, OnConnected, HandleConnected, OnDisconnected,
              HandleDisconnected, OnAuthStatus, HandleAuthStatus, OnConnSecUpdate,
              HandleConnSecUpdate, OnUntracked, OnTimeout
<1> QED
  BY <1>2, <1>3, <1>4

LEMMA DispatchLease == IInv /\ Dispatch => LeaseQueue'
<1> SUFFICES ASSUME IInv, Dispatch PROVE LeaseQueue'
  OBVIOUS
<1>1. SoftDeviceTypeOK /\ LeaseQueue /\ QueueInv
  BY DEF IInv, QueueInv, TypeOK
<1>2. PICK id : Pull(id)
  BY DEF Dispatch, OnConnected, OnDisconnected, OnSecParamsRequest,
         OnSecInfoRequest, OnAuthStatus, OnConnSecUpdate, OnUntracked, OnTimeout
<1>3. \A i : At(i, "AUTH_STATUS")' => \E j : At(j, "AUTH_STATUS")
  BY <1>1, <1>2, PullAt
<1>4. CASE smp' = smp
  BY <1>1, <1>3, <1>4, LeaseKept
<1>5. CASE OnSecParamsRequest /\ smp.phase = "asked"
  BY <1>1, <1>5, RequestEmptiesQueue DEF OnSecParamsRequest, LeaseQueue
<1>6. CASE smp'.phase = "encrypting"
  BY <1>6 DEF LeaseQueue
<1> QED
  BY <1>1, <1>4, <1>5, <1>6, DispatchSmp

\* With the rule for what is lent, the invariant the runs check: while the stack
\* holds an entry, no event is queued whose handler would write to it.
THEOREM ShieldInvariant == Spec => []IInv
<1>1. Init => LeaseQueue
  BY DEF Init, SoftDeviceInit, SmpIdle, LeaseQueue
<1>2. ASSUME IInv, [Next]_vars PROVE LeaseQueue'
  <2>1. CASE UNCHANGED vars
    BY <1>2, <2>1 DEF vars, sdVars, IInv, LeaseQueue, At
  <2> QED
    BY <1>2, <2>1, MainLease, PairingEndsLease, RadioLease, DispatchLease DEF Next
<1>3. QueueInv /\ LeaseQueue /\ [Next]_vars => LeaseQueue'
  BY <1>2 DEF IInv
<1>4. Spec => [](QueueInv /\ LeaseQueue)
  BY <1>1, <1>3, QueueInvariant, PTL DEF Spec
<1> QED
  BY <1>4, PTL DEF IInv

\* The early return of handler() for a full m_conn_table is never taken, but on
\* an instance orphaned during the initialisation.
THEOREM FreeInstance == Spec => []ConnectedFindsFreeInstance
<1>1. QueueInv => ConnectedFindsFreeInstance
  <2> SUFFICES ASSUME QueueInv, evtq # <<>>, Head(evtq).id = "CONNECTED"
               PROVE  "allocated" \notin conn.flags \/ Orphaned
    BY DEF ConnectedFindsFreeInstance
  <2>1. At(1, "CONNECTED")
    BY DEF QueueInv, TypeOK, SoftDeviceTypeOK, At
  <2> QED
    BY <2>1 DEF QueueInv, LinkQueue, InstanceShape, Tracked, Orphaned, At, TypeOK,
                PeerManagerTypeOK, Conn
<1> QED
  BY <1>1, QueueInvariant, PTL

\* The connection instance follows the link, but for its address when main()
\* initialised it after the link was made.
THEOREM TrackedLink == Spec => []InstanceFollowsLink
<1>1. QueueInv => InstanceFollowsLink
  <2> SUFFICES ASSUME QueueInv PROVE InstanceFollowsLink
    OBVIOUS
  <2>1. \A i, k : At(i, k) => Queued(k)
    BY DEF At, Queued
  <2> QED
    BY <2>1 DEF QueueInv, LinkQueue, InstanceShape, InstanceFollowsLink
<1> QED
  BY <1>1, QueueInvariant, PTL

\* handler() does not write to m_peer_table at the invalid index when a pairing
\* ends, unless main() initialised the instance after the link was made.
THEOREM PeerIndexed == Spec => []AuthStatusFindsPeer
<1>1. QueueInv => AuthStatusFindsPeer
  <2> SUFFICES ASSUME QueueInv, evtq # <<>>, Head(evtq).id = "AUTH_STATUS", Tracked,
                      ~wiped
               PROVE  conn.bondedDev \in PeerIdx
    BY DEF AuthStatusFindsPeer
  <2>1. At(1, "AUTH_STATUS") /\ 1 \in DOMAIN evtq
    BY DEF QueueInv, TypeOK, SoftDeviceTypeOK, At
  <2> QED
    BY <2>1 DEF QueueInv, SecurityQueue
<1> QED
  BY <1>1, QueueInvariant, PTL

\* The memory that the stack holds during a pairing is the entry of
\* m_peer_table that the connection instance refers to, if it refers to any.
THEOREM KeysetOwned == Spec => []KeysetIsOfConnection
<1>1. QueueInv => KeysetIsOfConnection
  BY DEF QueueInv, SecurityQueue, KeysetIsOfConnection
<1> QED
  BY <1>1, QueueInvariant, PTL

-----------------------------------------------------------------------------
\* The peer table is a store of bonds that lends its entries.

\* A step of the application that leaves every key alone, every entry but one,
\* and what is lent.
LEMMA StoreWrite ==
    ASSUME NEW i \in PeerIdx, Lent = NoKeyset, Lent' = NoKeyset, boot' = boot,
           peers \in [PeerIdx -> Peer], peers' \in [PeerIdx -> Peer],
           \A j \in PeerIdx : j # i => Entry(peers'[j]) = Entry(peers[j]),
           \A j \in PeerIdx : peers'[j].encKey = peers[j].encKey
    PROVE  Store!Write(i)
BY DEF Store!Write, Store!ChangesAt

LEMMA StoreLend ==
    ASSUME NEW i \in PeerIdx, Lent = NoKeyset, Lent' = i, boot' = boot,
           peers \in [PeerIdx -> Peer], peers' \in [PeerIdx -> Peer],
           \A j \in PeerIdx : j # i => Entry(peers'[j]) = Entry(peers[j]),
           \A j \in PeerIdx : peers'[j].encKey = peers[j].encKey
    PROVE  Store!Lend(i)
BY DEF Store!Lend, Store!ChangesAt

LEMMA StoreStutter ==
    ASSUME UNCHANGED peers, Lent' = Lent, boot' = "ready" <=> boot = "ready"
    PROVE  UNCHANGED Store!vars
BY DEF Store!vars

LEMMA StoreReturn ==
    ASSUME UNCHANGED <<peers, boot>>, Lent # NoKeyset, Lent' = NoKeyset
    PROVE  Store!Return
BY DEF Store!Return

\* An entry is lent exactly while a pairing runs.
LEMMA LentFacts ==
    /\ QueueInv => Lent \in PeerIdx \cup {NoKeyset}
    /\ QueueInv => (Lent # NoKeyset <=> smp.phase \in {"running", "keys"})
    /\ smp' = smp => Lent' = Lent
    /\ smp'.phase \notin {"running", "keys"} => Lent' = NoKeyset
    /\ smp.phase \notin {"running", "keys"} => Lent = NoKeyset
    /\ NoKeyset \notin PeerIdx
<1>1. NoKeyset \notin PeerIdx
  BY BondsAssumption DEF NoKeyset, PeerIdx
<1> QED
  BY <1>1 DEF Lent, QueueInv, SecurityQueue

LEMMA MainStore == IInv /\ Main => [Store!Next]_Store!vars
<1> SUFFICES ASSUME IInv, Main PROVE Store!Next \/ UNCHANGED Store!vars
  OBVIOUS
<1>1. /\ TypeOK /\ conn \in Conn /\ peers \in [PeerIdx -> Peer] /\ ndx \in PeerIdx
  BY DEF IInv, QueueInv, TypeOK, PeerManagerTypeOK
<1>2. Lent' = Lent
  BY <1>1, MainFacts, LentFacts
<1>3. CASE InitEntries
  <2>1. /\ boot # "ready"
        /\ \A i \in PeerIdx : peers'[i].encKey = peers[i].encKey
    BY <1>1, <1>3, EntryFacts DEF PeerStep
  <2>2. Store!Clear
    BY <1>2, <2>1 DEF Store!Clear
  <2> QED
    BY <2>2 DEF Store!Next
<1>4. CASE BootAdvertise \/ BootSecParams \/ InitInstance
  <2>1. UNCHANGED peers /\ boot # "ready" /\ boot' # "ready"
    BY <1>1, <1>4, InstanceFacts
       DEF BootAdvertise, BootSecParams, InitSecParams, ConnStep, pmVars
  <2> QED
    BY <1>2, <2>1, StoreStutter
<1> QED
  BY <1>3, <1>4 DEF Main

LEMMA RadioStore == IInv /\ Radio => [Store!Next]_Store!vars
<1> SUFFICES ASSUME IInv, Radio PROVE Store!Next \/ UNCHANGED Store!vars
  OBVIOUS
<1>1. UNCHANGED <<peers, boot>> /\ QueueInv /\ smp \in SmpState /\ LinkQueue
  BY DEF Radio, pmVars, IInv, QueueInv, TypeOK, SoftDeviceTypeOK
<1>2. SmpIdle.phase = "idle" /\ [SmpIdle EXCEPT !.phase = "dead"].phase = "dead"
  BY DEF SmpIdle
\* The pairing ends, goes on, or does not concern the table.
<1>3. Lent' = Lent \/ Lent' = NoKeyset
  <2>1. CASE smp'.phase \notin {"running", "keys"}
    BY <2>1, LentFacts
  <2>2. CASE smp' = smp
    BY <2>2, LentFacts
  <2>3. CASE PairingEncrypts
    BY <1>1, <2>3 DEF PairingEncrypts, Lent, SmpState
  <2>4. CASE CentralPairs \/ \E e \in Ediv : CentralEncrypts(e)
    BY <1>1, <2>1, <2>4 DEF CentralPairs, CentralEncrypts, SmpState
  <2> QED
    BY <1>2, <2>1, <2>2, <2>3, <2>4
       DEF Radio, CentralConnects, AdvertisingTimesOut, LinkLost, PairingFails,
           PairingTimesOut, EncryptionEnds
<1>4. CASE Lent' = Lent
  BY <1>1, <1>4, StoreStutter
<1>5. CASE Lent' = NoKeyset /\ Lent # NoKeyset
  BY <1>1, <1>5, StoreReturn DEF Store!Next
<1> QED
  BY <1>3, <1>4, <1>5

LEMMA PairingEndsStore == IInv /\ PairingEnds => [Store!Next]_Store!vars
<1> SUFFICES ASSUME IInv,
                    NEW bonded \in BOOLEAN, NEW idKey \in BOOLEAN, NEW e \in Ediv,
                    PairingSucceeds(bonded, idKey),
                    IF bonded THEN KeysStored(idKey, e) ELSE UNCHANGED pmVars,
                    UNCHANGED <<boot, ndx, wiped>>
             PROVE  Store!Next
  BY DEF PairingEnds
<1>1. QueueInv /\ peers \in [PeerIdx -> Peer]
  BY DEF IInv, QueueInv, TypeOK, PeerManagerTypeOK
<1>2. Lent = smp.keyset /\ Lent \in PeerIdx /\ Lent # NoKeyset /\ Lent' = NoKeyset
  BY <1>1, LentFacts DEF PairingSucceeds, SmpIdle, Lent
<1>3. CASE ~bonded
  BY <1>2, <1>3, StoreReturn DEF pmVars, Store!Next
<1>4. CASE bonded
  <2>1. \A j \in PeerIdx : j # Lent => peers'[j] = peers[j]
    BY <1>1, <1>2, <1>4 DEF KeysStored
  <2>2. Store!Store
    BY <1>2, <2>1 DEF Store!Store, Store!ChangesAt
  <2> QED
    BY <2>2 DEF Store!Next
<1> QED
  BY <1>3, <1>4

\* The handlers of DISCONNECTED and AUTH_STATUS write while nothing is lent.
LEMMA DisconnectedStore ==
    IInv /\ OnDisconnected => [Store!Next]_Store!vars
<1> SUFFICES ASSUME IInv, OnDisconnected PROVE Store!Next \/ UNCHANGED Store!vars
  OBVIOUS
<1> DEFINE i == conn.bondedDev
<1>1. /\ peers \in [PeerIdx -> Peer] /\ peers' \in [PeerIdx -> Peer]
      /\ conn \in Conn /\ SoftDeviceTypeOK /\ LinkQueue
  BY DispatchActionTypeOK
     DEF IInv, QueueInv, TypeOK, PeerManagerTypeOK, Dispatch
<1>2. UNCHANGED <<smp, boot>> /\ Lent = NoKeyset /\ Lent' = NoKeyset
  <2>1. UNCHANGED <<smp, boot>>
    BY DEF OnDisconnected, HandleDisconnected, Pull
  <2>2. link = NoAddr
    BY <1>1, PullAt DEF OnDisconnected, LinkQueue, At
  <2> QED
    BY <1>1, <2>1, <2>2, LentFacts DEF LinkQueue, SmpIdle
<1>3. CASE UNCHANGED peers
  BY <1>2, <1>3, StoreStutter
<1>4. CASE peers' = PeerInstInit(peers, i) /\ i # INVALID_BONDED_DEV_ID
  <2>1. i \in PeerIdx
    BY <1>1, <1>4 DEF Conn
  <2>2. /\ \A j \in PeerIdx : j # i => peers'[j] = peers[j]
        /\ \A j \in PeerIdx : peers'[j].encKey = peers[j].encKey
    BY <1>1, <1>4 DEF PeerInstInit
  <2> QED
    BY <1>1, <1>2, <2>1, <2>2, StoreWrite DEF Store!Next
<1> QED
  BY <1>3, <1>4 DEF OnDisconnected, HandleDisconnected, pmVars

LEMMA AuthStatusStore == IInv /\ OnAuthStatus => [Store!Next]_Store!vars
<1> SUFFICES ASSUME IInv, OnAuthStatus PROVE Store!Next \/ UNCHANGED Store!vars
  OBVIOUS
<1> DEFINE i == conn.bondedDev
           evt == Head(evtq)
<1>1. /\ peers \in [PeerIdx -> Peer] /\ peers' \in [PeerIdx -> Peer]
      /\ conn \in Conn /\ SoftDeviceTypeOK /\ SecurityQueue /\ LeaseQueue
  BY DispatchActionTypeOK
     DEF IInv, QueueInv, TypeOK, PeerManagerTypeOK, Dispatch
<1>2. At(1, "AUTH_STATUS") /\ 1 \in DOMAIN evtq /\ Tracked
  BY <1>1, PullAt DEF OnAuthStatus, At
<1>3. UNCHANGED <<smp, boot>> /\ Lent = NoKeyset /\ Lent' = NoKeyset
  BY <1>1, <1>2, LentFacts DEF LeaseQueue, OnAuthStatus, HandleAuthStatus, Pull
<1>4. CASE i \in PeerIdx
  <2>1. \A p \in Peer : BondedEntry(p, evt.idKey).encKey = p.encKey
    BY DEF BondedEntry, Peer
  <2>2. /\ \A j \in PeerIdx : j # i => peers'[j] = peers[j]
        /\ \A j \in PeerIdx : peers'[j].encKey = peers[j].encKey
    BY <1>1, <1>4, <2>1 DEF OnAuthStatus, HandleAuthStatus, PeerInstInit
  <2> QED
    BY <1>1, <1>3, <1>4, <2>2, StoreWrite DEF Store!Next
\* The instance has no index: no entry of the table is written.
<1>5. CASE i \notin PeerIdx
  <2>1. i = INVALID_BONDED_DEV_ID
    BY <1>1, <1>5 DEF Conn
  <2>2. UNCHANGED peers
    BY <1>1, <1>5, <2>1 DEF OnAuthStatus, HandleAuthStatus, PeerInstInit
  <2> QED
    BY <1>3, <2>2, StoreStutter
<1> QED
  BY <1>4, <1>5

\* Answering a pairing request lends the entry; without a procedure that waits
\* for the answer, the entry may have been allocated all the same.
LEMMA SecParamsRequestStore ==
    IInv /\ OnSecParamsRequest => [Store!Next]_Store!vars
<1> SUFFICES ASSUME IInv, OnSecParamsRequest
             PROVE  Store!Next \/ UNCHANGED Store!vars
  OBVIOUS
<1> DEFINE known == PeerInstFindByAddr(conn.addr)
           free == PeerInstUnassigned
<1>1. PICK accepted \in BOOLEAN : HandleSecParamsRequest(accepted)
  BY DEF OnSecParamsRequest
<1>2. /\ peers \in [PeerIdx -> Peer] /\ peers' \in [PeerIdx -> Peer]
      /\ conn \in Conn /\ smp \in SmpState /\ boot' = boot
      /\ SoftDeviceTypeOK /\ LinkQueue /\ SecurityQueue
  BY DispatchActionTypeOK
     DEF IInv, QueueInv, TypeOK, PeerManagerTypeOK, SoftDeviceTypeOK, Dispatch,
         OnSecParamsRequest, Pull
<1>3. known \in PeerIdx \cup {INVALID_BONDED_DEV_ID} /\ free \in PeerIdx
  BY PeerFindType, AllocationSucceeds DEF IInv
<1>4. Lent = NoKeyset
  <2>1. At(1, "SEC_PARAMS_REQUEST") /\ 1 \in DOMAIN evtq
    BY <1>2, PullAt DEF OnSecParamsRequest, At
  <2> QED
    BY <1>2, <2>1, LentFacts DEF LinkQueue, SecurityQueue, SmpIdle
\* The stack is lent i, if anything, and only that entry is written.
<1>5. PICK i \in PeerIdx :
         /\ SecParamsReply(i, mSecBond, accepted)
         /\ peers' = peers \/ (i = free /\ peers' = PeerInstAllocate(free, conn.addr))
  <2>1. free # INVALID_BONDED_DEV_ID
    BY <1>3, BondsAssumption DEF PeerIdx, INVALID_BONDED_DEV_ID
  <2>2. IsConnBonded => conn.bondedDev \in PeerIdx
    BY <1>2 DEF IsConnBonded, Conn
  <2> QED
    BY <1>1, <1>3, <2>1, <2>2 DEF HandleSecParamsRequest
<1>6. /\ \A j \in PeerIdx : j # i => peers'[j] = peers[j]
      /\ \A j \in PeerIdx : peers'[j].encKey = peers[j].encKey
  <2>1. \A p \in Peer : AllocatedEntry(p, conn.addr).encKey = p.encKey
    BY DEF AllocatedEntry, Peer
  <2> QED
    BY <1>2, <1>3, <1>5, <2>1 DEF PeerInstAllocate
<1>7. CASE smp'.phase \in {"running", "keys"}
  <2>1. Lent' = i
    BY <1>2, <1>4, <1>5, <1>7, LentFacts DEF IInv, SecParamsReply, Lent, SmpState
  <2> QED
    BY <1>2, <1>4, <1>6, <2>1, StoreLend DEF Store!Next
<1>8. CASE smp'.phase \notin {"running", "keys"}
  BY <1>2, <1>4, <1>6, <1>8, LentFacts, StoreWrite DEF Store!Next
<1> QED
  BY <1>7, <1>8

LEMMA DispatchStore == IInv /\ Dispatch => [Store!Next]_Store!vars
<1> SUFFICES ASSUME IInv, Dispatch, ~OnDisconnected, ~OnAuthStatus,
                    ~OnSecParamsRequest
             PROVE  UNCHANGED Store!vars
  BY DisconnectedStore, AuthStatusStore, SecParamsRequestStore
<1>1. UNCHANGED <<peers, boot>>
  BY DEF Dispatch, OnConnected, HandleConnected, OnSecInfoRequest,
         HandleSecInfoRequest, OnConnSecUpdate, HandleConnSecUpdate, OnUntracked,
         OnTimeout, pmVars, Pull
<1>2. Lent' = Lent
  BY DispatchSmp, LentFacts DEF IInv
<1> QED
  BY <1>1, <1>2, StoreStutter

\* The peer manager and the stack use m_peer_table as a BondStore does: while the
\* stack holds an entry, the application writes none.
THEOREM PeerTableIsStore == Spec => ImplementsStore
<1>1. Init => Store!Init
  BY DEF Init, SoftDeviceInit, SmpIdle, Lent, NoKeyset, Store!Init
<1>2. IInv /\ [Next]_vars => [Store!Next]_Store!vars
  <2>1. ASSUME UNCHANGED vars PROVE UNCHANGED Store!vars
    BY <2>1, LentFacts, StoreStutter DEF vars, sdVars, pmVars
  <2> QED
    BY <2>1, MainStore, RadioStore, PairingEndsStore, DispatchStore DEF Next
<1> QED
  BY <1>1, <1>2, ShieldInvariant, PTL DEF Spec, ImplementsStore, Store!Spec

\* A pairing request on a tracked connection is answered where it is dispatched,
\* whatever the table holds.
THEOREM PairingRequestReplied == Spec => RequestReplied
<1> DEFINE A == /\ evtq # <<>> /\ Head(evtq).id = "SEC_PARAMS_REQUEST"
                /\ Tracked /\ smp.phase = "asked" /\ evtq' = Tail(evtq)
                => smp'.phase \in {"running", "refused"}
<1>1. ASSUME IInv, [Next]_vars PROVE [A]_vars
  <2> SUFFICES ASSUME Next, evtq # <<>>, Head(evtq).id = "SEC_PARAMS_REQUEST",
                      Tracked, smp.phase = "asked", evtq' = Tail(evtq)
               PROVE  smp'.phase \in {"running", "refused"}
    BY <1>1
  <2>1. SoftDeviceTypeOK /\ smp \in SmpState
    BY <1>1 DEF IInv, QueueInv, TypeOK, SoftDeviceTypeOK
  <2>2. Len(evtq') # Len(evtq) /\ Len(evtq') # Len(evtq) + 1
    BY <2>1, HeadTailProperties DEF SoftDeviceTypeOK
  <2>3. OnSecParamsRequest
    <3>1. evtq' # evtq /\ Len(evtq') # Len(evtq) + 1
      BY <2>2, Zenon
    <3>2. ~Main
      BY <1>1, <3>1, MainFacts DEF IInv, QueueInv
    <3>3. \A evt \in Event : ~Raise(evt)
      BY <2>1, <3>1, RaiseFacts
    <3>4. ~Radio /\ ~PairingEnds
      BY <3>3, EventsAreEvents
         DEF Radio, CentralConnects, AdvertisingTimesOut, LinkLost, CentralPairs,
             CentralEncrypts, PairingEncrypts, PairingFails, PairingTimesOut,
             EncryptionEnds, PairingEnds, PairingSucceeds
    <3> QED
      BY <3>2, <3>4
         DEF Next, Dispatch, OnConnected, OnDisconnected, OnSecInfoRequest,
             OnAuthStatus, OnConnSecUpdate, OnUntracked, OnTimeout, Pull
  <2>4. PICK accepted \in BOOLEAN, i \in 0 .. 255 :
           SecParamsReply(i, mSecBond, accepted)
    <3>1. /\ PeerInstUnassigned \in PeerIdx
          /\ PeerInstUnassigned # INVALID_BONDED_DEV_ID
      BY <1>1, AllocationSucceeds, BondsAssumption
         DEF IInv, PeerIdx, INVALID_BONDED_DEV_ID
    <3>2. /\ conn.bondedDev \in 0 .. 255 /\ PeerInstUnassigned \in 0 .. 255
          /\ PeerInstFindByAddr(conn.addr) \in 0 .. 255
      BY <1>1, PeerIdxFits, PeerFindType
         DEF IInv, QueueInv, TypeOK, PeerManagerTypeOK, Conn
    <3> QED
      BY <2>3, <3>1, <3>2 DEF OnSecParamsRequest, HandleSecParamsRequest
  <2> QED
    BY <2>1, <2>4 DEF SecParamsReply, SmpState
<1> QED
  BY <1>1, ShieldInvariant, PTL DEF Spec, RequestReplied

-----------------------------------------------------------------------------
\* The table of any size holds one bond.

\* Entries that a search can stop at, when only the first one is in use.
LEMMA FirstFound ==
    ASSUME FirstEntryOnly, IInv, Ediv \cap {0, EDIV_INIT_VAL} = {}
    PROVE  /\ \A a \in Addr :
                PeerInstFindByAddr(a) \in {0, INVALID_BONDED_DEV_ID}
           /\ \A e \in Ediv :
                PeerInstFindByEdiv(e) \in {0, INVALID_BONDED_DEV_ID}
           /\ PeerInstUnassigned = 0
<1>1. ASSUME NEW a \in Addr
      PROVE  PeerInstFindByAddr(a) \in {0, INVALID_BONDED_DEV_ID}
  <2>1. {i \in PeerIdx : peers[i].addr = a} \subseteq {0}
    BY <1>1, AddrAssumption, ClearedAssumption DEF FirstEntryOnly, OneBond
  <2> QED
    BY <2>1, FirstOfType DEF PeerInstFindByAddr
<1>2. ASSUME NEW e \in Ediv
      PROVE  PeerInstFindByEdiv(e) \in {0, INVALID_BONDED_DEV_ID}
  <2>1. {i \in PeerIdx : peers[i].ediv = e} \subseteq {0}
    BY <1>2 DEF FirstEntryOnly
  <2> QED
    BY <2>1, FirstOfType DEF PeerInstFindByEdiv
<1>3. PeerInstUnassigned = 0
  <2>1. /\ {i \in PeerIdx : "assigned" \notin peers[i].flags} = PeerIdx
        /\ 0 \in PeerIdx /\ PeerIdx \subseteq Nat
    BY BondsAssumption DEF IInv, QueueInv, InstanceShape, PeerIdx
  <2>2. FirstOf(PeerIdx) \in Nat /\ FirstOf(PeerIdx) <= 0
    BY <2>1, FirstOfType
  <2> QED
    BY <2>1, <2>2 DEF PeerInstUnassigned
<1> QED
  BY <1>1, <1>2, <1>3

LEMMA MainFirst == FirstEntryOnly /\ IInv /\ Main /\ ~wiped' => FirstEntryOnly'
<1> SUFFICES ASSUME FirstEntryOnly, IInv, Main, ~wiped' PROVE FirstEntryOnly'
  OBVIOUS
<1>1. /\ TypeOK /\ peers \in [PeerIdx -> Peer] /\ conn \in Conn /\ ndx \in PeerIdx
      /\ wiped \in BOOLEAN
  BY DEF IInv, QueueInv, TypeOK, PeerManagerTypeOK
<1>2. UNCHANGED smp
  BY <1>1, MainFacts
<1>3. CASE BootAdvertise \/ BootSecParams
  <2>1. UNCHANGED <<peers, conn>>
    BY <1>3 DEF BootAdvertise, BootSecParams, InitSecParams, pmVars
  <2> QED
    BY <1>2, <2>1 DEF FirstEntryOnly, OneBond, Tracked
\* The instance that is initialised is not in use.
<1>4. CASE InitInstance
  <2>1. UNCHANGED peers /\ ~Tracked'
    BY <1>1, <1>4, InstanceFacts
  <2>2. conn'.bondedDev \in {conn.bondedDev, INVALID_BONDED_DEV_ID}
    BY <1>1, <1>4, ClearedAssumption
       DEF InitInstance, BootConnFlags, BootConnHandle, BootConnBondedDev,
           BootConnAddr, InitConnFlags, InitConnHandle, InitConnBondedDev,
           InitConnAddr, ClearedFrom, Conn
  <2> QED
    BY <1>2, <2>1, <2>2 DEF FirstEntryOnly, OneBond
<1>5. CASE InitEntries
  BY <1>1, <1>2, <1>5, EntryFacts DEF FirstEntryOnly, OneBond, Tracked
<1> QED
  BY <1>3, <1>4, <1>5 DEF Main

LEMMA StackFirst ==
    FirstEntryOnly /\ IInv /\ (Radio \/ PairingEnds) => FirstEntryOnly'
<1> SUFFICES ASSUME FirstEntryOnly, IInv, Radio \/ PairingEnds PROVE FirstEntryOnly'
  OBVIOUS
<1>1. /\ UNCHANGED conn /\ smp \in SmpState /\ peers \in [PeerIdx -> Peer]
      /\ conn \in Conn
  BY DEF Radio, PairingEnds, KeysStored, pmVars, IInv, QueueInv, TypeOK,
         SoftDeviceTypeOK, PeerManagerTypeOK
<1>2. smp'.phase \in {"running", "keys"} =>
         smp.phase \in {"running", "keys"} /\ smp'.keyset = smp.keyset
  <2>1. SmpIdle.phase = "idle" /\ [SmpIdle EXCEPT !.phase = "dead"].phase = "dead"
    BY DEF SmpIdle
  <2>2. CASE CentralPairs \/ PairingEncrypts \/ \E e \in Ediv : CentralEncrypts(e)
    BY <1>1, <2>2 DEF CentralPairs, PairingEncrypts, CentralEncrypts, SmpState
  <2>3. CASE UNCHANGED smp
    BY <2>3
  <2> QED
    BY <2>1, <2>2, <2>3
       DEF Radio, CentralConnects, AdvertisingTimesOut, LinkLost, PairingFails,
           PairingTimesOut, EncryptionEnds, PairingEnds, PairingSucceeds
<1>3. \A i \in PeerIdx \ {0} : peers'[i] = peers[i]
  BY <1>1 DEF Radio, PairingEnds, PairingSucceeds, KeysStored, pmVars,
              FirstEntryOnly
<1> QED
  BY <1>1, <1>2, <1>3 DEF FirstEntryOnly, OneBond, Tracked

LEMMA DispatchFirst ==
    ASSUME FirstEntryOnly, IInv, ~wiped, Ediv \cap {0, EDIV_INIT_VAL} = {}, Dispatch
    PROVE  FirstEntryOnly'
<1>1. /\ smp \in SmpState /\ peers \in [PeerIdx -> Peer] /\ conn \in Conn
      /\ SoftDeviceTypeOK /\ QueueInv
  BY DEF IInv, QueueInv, TypeOK, SoftDeviceTypeOK, PeerManagerTypeOK
<1>2. \A id : Pull(id) => Head(evtq) \in Event /\ Head(evtq).id = id
  BY <1>1, PullFacts
<1>3. /\ PeerInstUnassigned = 0 /\ PeerInstUnassigned # INVALID_BONDED_DEV_ID
      /\ conn.bondedDev \in {0, INVALID_BONDED_DEV_ID}
  BY FirstFound DEF FirstEntryOnly, INVALID_BONDED_DEV_ID
<1>4. \A i \in PeerIdx \ {0} : peers'[i] = peers[i]
  <2>1. CASE OnDisconnected
    BY <1>1, <1>3, <2>1
       DEF OnDisconnected, HandleDisconnected, PeerInstInit, pmVars
  <2>2. CASE OnAuthStatus
    <3>1. conn.bondedDev = 0
      <4>1. At(1, "AUTH_STATUS") /\ 1 \in DOMAIN evtq /\ Tracked
        BY <1>1, <2>2, PullAt DEF OnAuthStatus, At
      <4>2. conn.bondedDev \in PeerIdx
        BY <1>1, <4>1 DEF QueueInv, SecurityQueue
      <4> QED
        BY <1>3, <4>2, BondsAssumption DEF PeerIdx, INVALID_BONDED_DEV_ID
    <3> QED
      BY <1>1, <2>2, <3>1 DEF OnAuthStatus, HandleAuthStatus, PeerInstInit
  <2>3. CASE OnSecParamsRequest
    BY <1>1, <1>3, <2>3
       DEF OnSecParamsRequest, HandleSecParamsRequest, PeerInstAllocate
  <2>4. CASE UNCHANGED peers
    BY <2>4
  <2> QED
    BY <2>1, <2>2, <2>3, <2>4
       DEF Dispatch, OnConnected, HandleConnected, OnSecInfoRequest,
           HandleSecInfoRequest, OnConnSecUpdate, HandleConnSecUpdate, OnUntracked,
           OnTimeout, pmVars
<1>5. /\ conn'.bondedDev \in {0, INVALID_BONDED_DEV_ID}
      /\ Tracked' => conn'.addr \in Addr
  <2>1. CASE OnConnected
    <3>1. PeerInstFindByAddr(Head(evtq).addr) \in {0, INVALID_BONDED_DEV_ID}
          /\ Head(evtq).addr \in Addr
      BY <1>2, <2>1, FirstFound, EventFields DEF OnConnected
    <3> DEFINE filled == [conn EXCEPT !.flags = {"allocated", "connected"},
                                      !.handle = TRUE, !.addr = Head(evtq).addr]
    <3>2. CASE conn' = conn
      BY <1>3, <3>2 DEF FirstEntryOnly, Tracked
    <3>3. CASE conn' = filled
      BY <1>1, <1>3, <3>1, <3>3 DEF Conn
    <3>4. CASE conn' = ConnInstBondinfoFill(filled, PeerInstFindByAddr(Head(evtq).addr))
      BY <1>1, <3>1, <3>4 DEF ConnInstBondinfoFill, Conn
    <3> QED
      BY <2>1, <3>2, <3>3, <3>4 DEF OnConnected, HandleConnected
  <2>2. CASE OnDisconnected
    BY <1>3, <2>2 DEF OnDisconnected, HandleDisconnected, ConnInstInit, Tracked,
                pmVars, FirstEntryOnly
  <2>3. CASE OnSecParamsRequest
    <3>1. /\ Tracked /\ conn.addr \in Addr
          /\ PeerInstFindByAddr(conn.addr) \in {0, INVALID_BONDED_DEV_ID}
      BY <2>3, FirstFound DEF OnSecParamsRequest, FirstEntryOnly
    <3>2. conn'.addr = conn.addr /\ conn'.bondedDev \in {0, INVALID_BONDED_DEV_ID}
      BY <1>1, <1>3, <2>3, <3>1
         DEF OnSecParamsRequest, HandleSecParamsRequest, ConnInstBondinfoFill, Conn
    <3> QED
      BY <3>1, <3>2
  <2>4. CASE OnSecInfoRequest
    <3>1. /\ Tracked /\ conn.addr \in Addr
          /\ PeerInstFindByEdiv(Head(evtq).ediv) \in {0, INVALID_BONDED_DEV_ID}
      BY <1>2, <2>4, FirstFound, EventFields DEF OnSecInfoRequest, FirstEntryOnly
    <3>2. conn'.addr = conn.addr /\ conn'.bondedDev \in {0, INVALID_BONDED_DEV_ID}
      BY <1>1, <1>3, <2>4, <3>1
         DEF OnSecInfoRequest, HandleSecInfoRequest, ConnInstBondinfoFill, Conn
    <3> QED
      BY <3>1, <3>2
  <2>5. CASE OnAuthStatus \/ OnConnSecUpdate
    BY <1>1, <1>3, <2>5
       DEF OnAuthStatus, HandleAuthStatus, OnConnSecUpdate, HandleConnSecUpdate,
           Conn, Tracked, FirstEntryOnly
  <2>6. CASE OnUntracked \/ OnTimeout
    BY <1>3, <2>6 DEF OnUntracked, OnTimeout, pmVars, Tracked, FirstEntryOnly
  <2> QED
    BY <2>1, <2>2, <2>3, <2>4, <2>5, <2>6 DEF Dispatch
<1>6. smp'.phase \in {"running", "keys"} => smp'.keyset = 0
  <2>1. CASE smp' = smp
    BY <2>1 DEF FirstEntryOnly
  <2>2. CASE smp'.phase = "encrypting"
    BY <2>2
  <2>3. CASE /\ OnSecParamsRequest /\ smp.phase = "asked"
             /\ smp'.phase \in {"running", "refused"}
    <3>1. PICK i \in {0, INVALID_BONDED_DEV_ID}, accepted \in BOOLEAN :
             SecParamsReply(i, mSecBond, accepted) /\ i \in PeerIdx
      <4>1. /\ PeerInstFindByAddr(conn.addr) \in {0, INVALID_BONDED_DEV_ID}
            /\ PeerInstFindByAddr(conn.addr) \in PeerIdx \cup {INVALID_BONDED_DEV_ID}
            /\ PeerInstUnassigned \in PeerIdx
        BY <2>3, FirstFound, PeerFindType, AllocationSucceeds
           DEF OnSecParamsRequest, FirstEntryOnly, IInv
      <4>2. IsConnBonded => conn.bondedDev \in PeerIdx
        BY <1>1 DEF IsConnBonded, Conn
      <4> QED
        BY <1>3, <2>3, <4>1, <4>2 DEF OnSecParamsRequest, HandleSecParamsRequest
    <3>2. i = 0
      BY <3>1, BondsAssumption DEF PeerIdx, INVALID_BONDED_DEV_ID
    <3> QED
      BY <1>1, <2>3, <3>1, <3>2 DEF SecParamsReply, SmpState
  <2> QED
    BY <1>1, <2>1, <2>2, <2>3, DispatchSmp
<1> QED
  BY <1>4, <1>5, <1>6 DEF FirstEntryOnly, OneBond

\* The table has room for MAX_BONDS bonds and holds one, if no central calls its
\* key by a number that unused entries have, and conn_manager_init never writes
\* to the instance of a link: each new pairing is given entry 0, whoever has it.
THEOREM OneBondOnly ==
    ASSUME Ediv \cap {0, EDIV_INIT_VAL} = {}
    PROVE  Spec /\ []~wiped => []OneBond
<1>1. Init => FirstEntryOnly
  BY ClearedAssumption
     DEF Init, SoftDeviceInit, PeerManagerInit, SmpIdle, FirstEntryOnly, OneBond,
         Tracked
<1>2. FirstEntryOnly /\ IInv /\ [Next]_vars /\ ~wiped /\ ~wiped' => FirstEntryOnly'
  <2>1. UNCHANGED vars /\ FirstEntryOnly => FirstEntryOnly'
    BY DEF vars, sdVars, pmVars, FirstEntryOnly, OneBond, Tracked
  <2> QED
    BY <2>1, MainFirst, StackFirst, DispatchFirst DEF Next
<1>3. FirstEntryOnly => OneBond
  BY DEF FirstEntryOnly
<1> QED
  BY <1>1, <1>2, <1>3, ShieldInvariant, PTL DEF Spec
=============================================================================
