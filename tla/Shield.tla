------------------------------- MODULE Shield -------------------------------
(***************************************************************************)
(* shield/src/main/main.cpp: the order in which main() brings the device   *)
(* up, and ble_evt_dispatch, which the SoftDevice handler calls in the     *)
(* SWI2 interrupt for each event it pulls.  The interrupt preempts main()  *)
(* between any two of its steps; main() never preempts the interrupt.      *)
(*                                                                         *)
(* GATT events leave the peer manager alone; TrsService has them.          *)
(***************************************************************************)
EXTENDS PeerManager

VARIABLES
    boot,       \* where main() is
    ndx,        \* the entry of m_peer_table that main() initialises
    wiped       \* history: conn_manager_init wrote to the instance of this link

vars == <<sdVars, pmVars, boot, ndx, wiped>>

\* advertise: at advertising_start(); the next ones are the stores of
\* conn_manager_init(); ready: in the loop that reads characters.
ConnStep == {"flags", "handle", "bondedDev", "addr"}
PeerStep == {"peerAddr", "peerAddrType", "peerFlags", "peerEdiv"}
BootStep == {"advertise", "params", "ready"} \cup ConnStep \cup PeerStep

TypeOK ==
    /\ SoftDeviceTypeOK
    /\ PeerManagerTypeOK
    /\ boot \in BootStep
    /\ ndx \in PeerIdx
    /\ wiped \in BOOLEAN

Init ==
    /\ SoftDeviceInit
    /\ PeerManagerInit
    /\ boot = "advertise"
    /\ ndx = 0
    /\ wiped = FALSE

-----------------------------------------------------------------------------
\* main().  Advertising starts before the tables are initialised.

BootAdvertise ==
    /\ boot = "advertise" /\ boot' = "params"
    /\ AdvStart
    /\ UNCHANGED <<link, evtq, smp, pmVars, ndx, wiped>>

BootSecParams ==
    /\ boot = "params" /\ boot' = "flags"
    /\ InitSecParams
    /\ UNCHANGED <<sdVars, ndx, wiped>>

\* A store to the connection instance, which may be that of a link.
WipesInstance ==
    /\ wiped' = (wiped \/ Tracked)
    /\ UNCHANGED <<sdVars, ndx>>

BootConnFlags ==
    /\ boot = "flags" /\ boot' = "handle"
    /\ InitConnFlags
    /\ WipesInstance

BootConnHandle ==
    /\ boot = "handle" /\ boot' = "bondedDev"
    /\ InitConnHandle
    /\ WipesInstance

BootConnBondedDev ==
    /\ boot = "bondedDev" /\ boot' = "addr"
    /\ InitConnBondedDev
    /\ WipesInstance

\* One of the stores of the memset, the last or an earlier one.
BootConnAddr ==
    /\ boot = "addr" /\ boot' \in {"addr", "peerAddr"}
    /\ InitConnAddr
    /\ WipesInstance

BootPeerAddr ==
    /\ boot = "peerAddr" /\ boot' \in {"peerAddr", "peerAddrType"}
    /\ InitPeerAddr(ndx)
    /\ UNCHANGED <<sdVars, ndx, wiped>>

BootPeerAddrType ==
    /\ boot = "peerAddrType" /\ boot' = "peerFlags"
    /\ InitPeerAddrType(ndx)
    /\ UNCHANGED <<sdVars, ndx, wiped>>

BootPeerFlags ==
    /\ boot = "peerFlags" /\ boot' = "peerEdiv"
    /\ InitPeerFlags(ndx)
    /\ UNCHANGED <<sdVars, ndx, wiped>>

BootPeerEdiv ==
    /\ boot = "peerEdiv"
    /\ InitPeerEdiv(ndx)
    /\ \/ ndx + 1 \in PeerIdx /\ ndx' = ndx + 1 /\ boot' = "peerAddr"
       \/ ndx + 1 \notin PeerIdx /\ ndx' = ndx /\ boot' = "ready"
    /\ UNCHANGED <<sdVars, wiped>>

InitInstance ==
    BootConnFlags \/ BootConnHandle \/ BootConnBondedDev \/ BootConnAddr

InitEntries ==
    BootPeerAddr \/ BootPeerAddrType \/ BootPeerFlags \/ BootPeerEdiv

Main == BootAdvertise \/ BootSecParams \/ InitInstance \/ InitEntries

-----------------------------------------------------------------------------
\* ble_evt_dispatch.

Pull(id) ==
    /\ evtq # <<>> /\ Head(evtq).id = id
    /\ evtq' = Tail(evtq)
    /\ UNCHANGED <<link, boot, ndx>>

OnConnected ==
    /\ Pull("CONNECTED")
    /\ HandleConnected(Head(evtq))
    /\ UNCHANGED <<adv, wiped>>

\* Mutant: the peer manager is not told.
DisconnectedUnhandled ==
    /\ Pull("DISCONNECTED")
    /\ AdvStart
    /\ wiped' = FALSE
    /\ UNCHANGED <<pmVars, smp>>

\* Mutant: advertising is not started again.
DisconnectedSilently ==
    /\ Pull("DISCONNECTED")
    /\ IF Tracked THEN HandleDisconnected ELSE UNCHANGED <<pmVars, smp>>
    /\ wiped' = FALSE
    /\ UNCHANGED adv

OnDisconnected ==
    /\ Pull("DISCONNECTED")
    /\ IF Tracked THEN HandleDisconnected ELSE UNCHANGED <<pmVars, smp>>
    /\ AdvStart
    /\ wiped' = FALSE

OnSecParamsRequest ==
    /\ Pull("SEC_PARAMS_REQUEST") /\ Tracked
    /\ \E accepted \in BOOLEAN : HandleSecParamsRequest(accepted)
    /\ UNCHANGED <<adv, wiped>>

OnSecInfoRequest ==
    /\ Pull("SEC_INFO_REQUEST") /\ Tracked
    /\ HandleSecInfoRequest(Head(evtq))
    /\ UNCHANGED <<adv, wiped>>

OnAuthStatus ==
    /\ Pull("AUTH_STATUS") /\ Tracked
    /\ HandleAuthStatus(Head(evtq))
    /\ UNCHANGED <<adv, wiped>>

OnConnSecUpdate ==
    /\ Pull("CONN_SEC_UPDATE") /\ Tracked
    /\ HandleConnSecUpdate(Head(evtq))
    /\ UNCHANGED <<adv, wiped>>

\* handler() returns at once for an event of a connection it does not track.
OnUntracked ==
    /\ \E id \in {"SEC_PARAMS_REQUEST", "SEC_INFO_REQUEST", "AUTH_STATUS",
                  "CONN_SEC_UPDATE"} : Pull(id) /\ ~Tracked
    /\ UNCHANGED <<adv, smp, pmVars, wiped>>

\* The TIMEOUT of the advertising comes with the invalid handle and is printed.
OnTimeout ==
    /\ Pull("TIMEOUT")
    /\ UNCHANGED <<adv, smp, pmVars, wiped>>

Dispatch ==
    \/ OnConnected \/ OnDisconnected \/ OnSecParamsRequest \/ OnSecInfoRequest
    \/ OnAuthStatus \/ OnConnSecUpdate \/ OnUntracked \/ OnTimeout

-----------------------------------------------------------------------------
\* The environment.  Only the keys of a bond reach the application's memory.

PairingEnds ==
    \E bonded, idKey \in BOOLEAN, e \in Ediv :
        /\ PairingSucceeds(bonded, idKey)
        /\ IF bonded THEN KeysStored(idKey, e) ELSE UNCHANGED pmVars
        /\ UNCHANGED <<boot, ndx, wiped>>

Radio ==
    /\ \/ \E a \in Addr : CentralConnects(a)
       \/ AdvertisingTimesOut
       \/ LinkLost
       \/ CentralPairs
       \/ \E e \in Ediv : CentralEncrypts(e)
       \/ PairingEncrypts
       \/ PairingFails
       \/ PairingTimesOut
       \/ \E open \in BOOLEAN : EncryptionEnds(open)
    /\ UNCHANGED <<pmVars, boot, ndx, wiped>>

Next == Main \/ Dispatch \/ PairingEnds \/ Radio

Spec == Init /\ [][Next]_vars

\* main() runs, and a pending interrupt is served.  Centrals owe us nothing.
FairSpec == Spec /\ WF_vars(Main) /\ WF_vars(Dispatch)

-----------------------------------------------------------------------------
\* Safety.

Queued(id) == \E i \in DOMAIN evtq : evtq[i].id = id

\* An instance that was allocated before the store of conn_handle in the
\* conn_inst_init that main() runs: no event finds it, so none frees it.
Orphaned == "allocated" \in conn.flags /\ ~conn.handle

\* A CONNECTED event never meets an allocated connection instance, so the
\* early return of handler() for a full m_conn_table (peer_manager.c:283) is
\* never taken: dispatching DISCONNECTED frees the instance before it starts
\* the advertising that the next connection needs.  Only an instance orphaned
\* by the initialisation stays allocated.
ConnectedFindsFreeInstance ==
    evtq # <<>> /\ Head(evtq).id = "CONNECTED" =>
        "allocated" \notin conn.flags \/ Orphaned

\* The instance has the address of the link, unless main() cleared it since,
\* in whole or in part; it never has another central's.
AddrIsLink == conn.addr = link \/ (wiped /\ conn.addr \in Cleared)

\* The tracked connection is the link, until its DISCONNECTED is dispatched;
\* and a link is tracked once its CONNECTED has been dispatched.  The exceptions
\* are a link whose instance conn_manager_init wrote to, because its CONNECTED
\* came before main() was through (the instance may be tracked with a
\* cleared address, or not be tracked), and a later link that finds it orphaned.
InstanceFollowsLink ==
    /\ Tracked => \/ Queued("DISCONNECTED")
                  \/ link # NoAddr /\ AddrIsLink
    /\ ~Tracked /\ link # NoAddr => Queued("CONNECTED") \/ wiped \/ Orphaned

\* When a pairing ends on a tracked connection, handler() has a peer index: it
\* frees or completes an entry of m_peer_table (peer_manager.c:445, 458) and
\* does not write at INVALID_BONDED_DEV_ID.  It can for one link only: if its
\* CONNECTED was dispatched while main() was in conn_inst_init, the store of
\* line 135 may follow and take the index away.
AuthStatusFindsPeer ==
    /\ evtq # <<>> /\ Head(evtq).id = "AUTH_STATUS" /\ Tracked /\ ~wiped
    => conn.bondedDev \in PeerIdx

\* The instance refers to the entry that the stack holds, unless main() cleared
\* the index since.
IndexIsKeyset ==
    \/ conn.bondedDev = smp.keyset
    \/ wiped /\ conn.bondedDev = INVALID_BONDED_DEV_ID

\* The stack stores the keys of a pairing in an entry of m_peer_table, and it
\* is the one that the connection instance refers to when AUTH_STATUS comes; a
\* conn_manager_init that runs meanwhile may take the reference away, but no
\* instance ever refers to another entry than the one that is lent.
KeysetIsOfConnection ==
    smp.phase \in {"running", "keys"} =>
        /\ smp.keyset \in PeerIdx
        /\ Tracked => IndexIsKeyset

-----------------------------------------------------------------------------
\* What steps may do.

\* An entry that belongs to one central is given to another only after it was
\* freed ("Assign a peer index as a new bond or update existing bonds",
\* peer_manager.c:350).
EntryFreedBeforeReuse ==
    [][\A i \in PeerIdx :
          boot = "ready" /\ peers[i].addr \in Addr /\ peers'[i].addr \in Addr
          => peers'[i].addr = peers[i].addr]_vars

\* The key that answers a SEC_INFO_REQUEST is in m_peer_table; without one the
\* answer is NULL ("May be NULL to signal none is available").
EncryptionKeyInTable == smp.phase = "encrypting" => smp.keyset \in PeerIdx

-----------------------------------------------------------------------------
\* Liveness.

\* A pairing that a central starts on a tracked connection is answered: every
\* path of handler() that can be taken reaches sd_ble_gap_sec_params_reply.
PairingAnswered ==
    smp.phase = "asked" /\ boot = "ready" /\ ~wiped /\ ~Orphaned
        ~> smp.phase # "asked"

\* After a link is lost the device can be connected to again, unless its
\* advertising has timed out (which nothing repairs).
ConnectableAgain == Queued("DISCONNECTED") ~> adv \/ link # NoAddr

-----------------------------------------------------------------------------
\* Why the invariants hold: what the queue can contain, given the link, the
\* security procedure and the connection instance.

At(i, id) == i \in DOMAIN evtq /\ evtq[i].id = id

\* Advertising is on only when nothing is going on; a CONNECTED can only be
\* first in the queue and a DISCONNECTED last.
LinkQueue ==
    /\ boot = "advertise" => ~adv /\ link = NoAddr /\ evtq = <<>> /\ ~Tracked
    /\ adv => link = NoAddr /\ evtq = <<>> /\ ~Tracked
    /\ link = NoAddr => smp = SmpIdle
    /\ \A i \in DOMAIN evtq :
         /\ At(i, "CONNECTED") => /\ i = 1
                                  /\ ~Tracked
                                  /\ link # NoAddr => evtq[i].addr = link
         /\ At(i, "DISCONNECTED") => i = Len(evtq) /\ link = NoAddr
         /\ At(i, "TIMEOUT") => Len(evtq) = 1 /\ link = NoAddr
    /\ link = NoAddr /\ (Tracked \/ At(1, "CONNECTED")) =>
         At(Len(evtq), "DISCONNECTED")

InstanceShape ==
    /\ "allocated" \in conn.flags <=> "connected" \in conn.flags
    /\ Tracked /\ ~wiped /\ "bonded" \in conn.flags => conn.bondedDev \in PeerIdx
    /\ \A i \in PeerIdx : "assigned" \notin peers[i].flags
    /\ boot \in {"advertise", "params", "flags"} => ~wiped
    /\ Orphaned => boot \in {"bondedDev", "addr", "ready"} \cup PeerStep
    /\ Tracked /\ link # NoAddr => AddrIsLink
    /\ ~Tracked /\ link # NoAddr => At(1, "CONNECTED") \/ wiped \/ Orphaned

\* A request is the last event as long as its procedure waits for the answer,
\* and the pairing of a tracked connection has a peer index once its request
\* has been dispatched, unless conn_manager_init took it away.
SecurityQueue ==
    /\ \A i \in DOMAIN evtq :
         /\ At(i, "SEC_PARAMS_REQUEST") =>
              \/ link = NoAddr \/ smp.phase = "dead"
              \/ smp.phase = "asked" /\ i = Len(evtq)
         /\ At(i, "SEC_INFO_REQUEST") =>
              link = NoAddr \/ (smp.phase = "info" /\ i = Len(evtq))
         /\ At(i, "AUTH_STATUS") =>
              /\ At(1, "CONNECTED") =>
                   \E j \in 1 .. i - 1 : At(j, "SEC_PARAMS_REQUEST")
              /\ Tracked /\ ~wiped =>
                   \/ conn.bondedDev \in PeerIdx
                   \/ \E j \in 1 .. i - 1 : At(j, "SEC_PARAMS_REQUEST")
    /\ smp.phase = "asked" /\ (Tracked \/ At(1, "CONNECTED")) =>
         At(Len(evtq), "SEC_PARAMS_REQUEST")
    /\ smp.phase \in {"refused", "running", "keys"} =>
         /\ ~At(1, "CONNECTED")
         /\ Tracked /\ ~wiped => conn.bondedDev \in PeerIdx
    /\ smp.phase \in {"running", "keys"} =>
         /\ smp.keyset \in PeerIdx
         /\ Tracked => IndexIsKeyset

\* While the stack holds a keyset no AUTH_STATUS waits to be dispatched, whose
\* handler would release the entry or complete it: the request that led to the
\* pairing was the last event in the queue.
LeaseQueue ==
    smp.phase \in {"running", "keys"} =>
        \A i \in DOMAIN evtq : ~At(i, "AUTH_STATUS")

QueueInv == TypeOK /\ LinkQueue /\ InstanceShape /\ SecurityQueue

IInv == QueueInv /\ LeaseQueue

-----------------------------------------------------------------------------
\* The peer table as a store of bonds that lends its entries to the stack.

Lent == IF smp.phase \in {"running", "keys"} THEN smp.keyset ELSE NoKeyset

Entry(p) == [addr |-> p.addr, ediv |-> p.ediv, flags |-> p.flags]

Store == INSTANCE BondStore WITH
             Idx <- PeerIdx,
             NoEntry <- NoKeyset,
             up <- boot = "ready",
             entry <- [i \in PeerIdx |-> Entry(peers[i])],
             key <- [i \in PeerIdx |-> peers[i].encKey],
             lent <- Lent

\* The peer manager lends one entry at a time to the stack (keys_xch,
\* peer_manager.c:366) and changes no entry before the stack is through with
\* it, whatever is queued meanwhile; only the stack writes keys, in the entry
\* it was lent.
ImplementsStore == Store!Spec

\* No entry but the first ever gets a bond, however many there are: nothing sets
\* the flag that peer_inst_allocate looks for (peer_manager.c:203).
OneBond ==
    \A i \in PeerIdx \ {0} :
        /\ peers[i].addr \in {NoAddr} \cup Cleared
        /\ peers[i].flags = {} /\ peers[i].encKey.of = NoAddr

\* Where a peer index can come from.
FirstEntryOnly ==
    /\ OneBond
    /\ \A i \in PeerIdx \ {0} : peers[i].ediv \in {0, EDIV_INIT_VAL}
    /\ conn.bondedDev \in {0, INVALID_BONDED_DEV_ID}
    /\ smp.phase \in {"running", "keys"} => smp.keyset = 0
    /\ Tracked => conn.addr \in Addr

\* A pairing request of the tracked connection is answered by the call that
\* dispatches it: the branch of handler() for a full m_peer_table ("TODO:
\* Handle Peer allocation fail!", peer_manager.c:357), which answers nothing,
\* is never taken.
RequestReplied ==
    [][/\ evtq # <<>> /\ Head(evtq).id = "SEC_PARAMS_REQUEST"
       /\ Tracked /\ smp.phase = "asked" /\ evtq' = Tail(evtq)
       => smp'.phase \in {"running", "refused"}]_vars
=============================================================================
