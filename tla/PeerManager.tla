---------------------------- MODULE PeerManager ----------------------------
(***************************************************************************)
(* shield/src/main/peer_manager.c: the table of centrals the device has    *)
(* bonded with, the connection instance, and what handler() does with each *)
(* GAP event.                                                              *)
(*                                                                         *)
(* MAX_CONNECTIONS is 1 and the only connection handle is 0, so            *)
(* m_conn_table is the record conn, and m_conn_table[conn_handle] (lines   *)
(* 359, 360 and 458) is the same entry as m_conn_table[conn_index].  Its    *)
(* conn_handle is either that handle or BLE_CONN_HANDLE_INVALID.           *)
(*                                                                         *)
(* irk_match is never 1: advertising_start passes no whitelist, so the     *)
(* stack has no IRK to match (and m_irk_index_table is never written).     *)
(* The IRK itself and the print_... calls are left out.                    *)
(***************************************************************************)
EXTENDS SoftDevice

CONSTANTS
    MAX_BONDS,          \* entries in m_peer_table
    SEC_PARAM_BOND,     \* 1: ask centrals for a bond
    ZeroAddr,           \* what static storage holds
    Cleared             \* ZeroAddr, and what is left of an address that was
                        \* written in the middle of a memset: no central's

ASSUME BondsAssumption == MAX_BONDS \in 1 .. 254

ASSUME ClearedAssumption ==
    /\ ZeroAddr \in Cleared
    /\ Cleared \cap (Addr \cup {NoAddr}) = {}

ASSUME SecParamAssumption == SEC_PARAM_BOND \in {0, 1}

VARIABLES
    peers,      \* m_peer_table
    conn,       \* m_conn_table[0]
    mSecBond    \* m_sec_param.bond

pmVars == <<peers, conn, mSecBond>>

INVALID_BONDED_DEV_ID == 255
EDIV_INIT_VAL == 65535
PeerIdx == 0 .. MAX_BONDS - 1

ConnFlag ==
    {"allocated", "connected", "pairing", "pairing_req_pending", "bonded",
     "encrypted", "bond_info_update"}

PeerFlag == {"assigned", "irk_entry", "addr_entry"}

\* addr: peer_id.id_addr_info, NoAddr if its type is INVALID_ADDR_TYPE; encKey: bond_context.peer_enc_key, its ediv and
\* (in place of the LTK) the address of the central it was generated for.
Peer == [addr   : Addr \cup {NoAddr} \cup Cleared,
         ediv   : Ediv \cup {0, EDIV_INIT_VAL},
         flags  : SUBSET PeerFlag,
         encKey : [ediv : Ediv \cup {0}, of : Addr \cup {NoAddr}]]

\* handle: is conn_handle the handle of the link?
Conn == [flags     : SUBSET ConnFlag,
         handle    : BOOLEAN,
         addr      : Addr \cup Cleared,
         bondedDev : PeerIdx \cup {INVALID_BONDED_DEV_ID}]

PeerManagerTypeOK ==
    /\ peers \in [PeerIdx -> Peer]
    /\ conn \in Conn
    /\ mSecBond \in {0, 1}

\* The tables before conn_manager_init: static storage is all zeros, and a
\* zero conn_handle or bonded_dev_id is not the invalid one.
PeerManagerInit ==
    /\ peers = [i \in PeerIdx |->
                   [addr |-> ZeroAddr, ediv |-> 0, flags |-> {},
                    encKey |-> [ediv |-> 0, of |-> NoAddr]]]
    /\ conn = [flags |-> {}, handle |-> TRUE, addr |-> ZeroAddr, bondedDev |-> 0]
    /\ mSecBond = 0

-----------------------------------------------------------------------------
\* The helpers of peer_manager.c, as functions from a table to the new table.

ConnInstInit ==
    [flags |-> {}, handle |-> FALSE, addr |-> ZeroAddr,
     bondedDev |-> INVALID_BONDED_DEV_ID]

\* conn_inst_find finds the instance of the link.
Tracked == conn.handle /\ "connected" \in conn.flags

IsConnBonded ==
    /\ "bonded" \in conn.flags
    /\ conn.bondedDev # INVALID_BONDED_DEV_ID

\* Mutant: the index is not recorded.
BondinfoFillFlagOnly(c, i) == [c EXCEPT !.flags = @ \cup {"bonded"}]

ConnInstBondinfoFill(c, i) ==
    [c EXCEPT !.flags = @ \cup {"bonded"}, !.bondedDev = i]

\* bond_context is not cleared.  Out of the table (i = INVALID_BONDED_DEV_ID)
\* the C code writes past m_peer_table, into memory that is not modelled; only
\* a link whose instance conn_manager_init wiped gets there (AuthStatusFindsPeer).
PeerInstInit(pt, i) ==
    [pt EXCEPT ![i] = [addr |-> NoAddr, ediv |-> EDIV_INIT_VAL, flags |-> {},
                       encKey |-> @.encKey]]

\* Mutant: where the loop ends is taken for where it stopped.
FirstOrEnd(S) == IF S = {} THEN MAX_BONDS ELSE CHOOSE i \in S : \A j \in S : i <= j

\* The entry at which a loop over m_peer_table stops.
FirstOf(S) ==
    IF S = {} THEN INVALID_BONDED_DEV_ID
    ELSE CHOOSE i \in S : \A j \in S : i <= j

PeerInstFindByAddr(a) == FirstOf({i \in PeerIdx : peers[i].addr = a})

PeerInstFindByEdiv(e) == FirstOf({i \in PeerIdx : peers[i].ediv = e})

\* Mutant: an entry that holds a bond is not handed out.
PeerInstBlank == FirstOf({i \in PeerIdx : peers[i].flags = {}})

\* The entry that peer_inst_allocate hands out.  Nothing sets the flag
\* "assigned" that it looks for.
PeerInstUnassigned ==
    FirstOf({i \in PeerIdx : "assigned" \notin peers[i].flags})

AllocatedEntry(p, a) ==
    IF a \notin Rpa
      THEN [p EXCEPT !.addr = a, !.flags = @ \cup {"addr_entry"}]
      ELSE [p EXCEPT !.flags = @ \cup {"irk_entry"}]

PeerInstAllocate(i, a) == [peers EXCEPT ![i] = AllocatedEntry(@, a)]

-----------------------------------------------------------------------------
\* handler(): one operator per case of the switch, for the event it is given.
\* All but HandleConnected are for the connection instance that conn_inst_find
\* returns, that is when Tracked.

HandleConnected(evt) ==
    LET peer == PeerInstFindByAddr(evt.addr)
        filled == [conn EXCEPT !.flags = {"allocated", "connected"},
                               !.handle = TRUE, !.addr = evt.addr]
    IN  /\ conn' = IF "allocated" \in conn.flags THEN conn
                   ELSE IF peer = INVALID_BONDED_DEV_ID THEN filled
                   ELSE ConnInstBondinfoFill(filled, peer)
        /\ UNCHANGED <<peers, mSecBond, smp>>

\* Mutant: conn_inst_free is forgotten.
DisconnectedNotFreed ==
    /\ conn' = [conn EXCEPT !.flags = @ \ {"connected"}]
    /\ UNCHANGED <<peers, mSecBond, smp>>

\* Without a bond, the entry that the pairing allocated is released.
HandleDisconnected ==
    /\ peers' = IF /\ "bonded" \notin conn.flags
                   /\ conn.bondedDev # INVALID_BONDED_DEV_ID
                  THEN PeerInstInit(peers, conn.bondedDev)
                  ELSE peers
    /\ conn' = ConnInstInit
    /\ UNCHANGED <<mSecBond, smp>>

HandleSecParamsRequest(accepted) ==
    LET known == PeerInstFindByAddr(conn.addr)
        free == PeerInstUnassigned
        pairing == [conn EXCEPT !.flags = @ \cup {"pairing"}]
        reply(i) == SecParamsReply(i, mSecBond, accepted)
    IN  /\ \/ /\ IsConnBonded
              /\ conn' = [pairing EXCEPT !.flags = @ \cup {"bond_info_update"}]
              /\ reply(conn.bondedDev)
              /\ UNCHANGED peers
           \/ /\ ~IsConnBonded
              /\ known # INVALID_BONDED_DEV_ID
              /\ conn' = ConnInstBondinfoFill(pairing, known)
              /\ reply(known)
              /\ UNCHANGED peers
           \/ /\ ~IsConnBonded
              /\ known = INVALID_BONDED_DEV_ID
              /\ free # INVALID_BONDED_DEV_ID
              /\ peers' = PeerInstAllocate(free, conn.addr)
              /\ conn' = [pairing EXCEPT !.bondedDev = free]
              /\ reply(free)
           \/ /\ ~IsConnBonded        \* TODO: Handle Peer allocation fail!
              /\ known = INVALID_BONDED_DEV_ID
              /\ free = INVALID_BONDED_DEV_ID
              /\ conn' = pairing
              /\ UNCHANGED <<peers, smp>>
        /\ UNCHANGED mSecBond

\* Without an entry for the EDIV, peer_index is still INVALID_BONDED_DEV_ID and
\* the address of that entry is what the stack is given.
HandleSecInfoRequest(evt) ==
    LET found == PeerInstFindByEdiv(evt.ediv)
    IN  /\ IF IsConnBonded
             THEN SecInfoReply(conn.bondedDev) /\ UNCHANGED conn
             ELSE /\ SecInfoReply(found)
                  /\ conn' = IF found = INVALID_BONDED_DEV_ID THEN conn
                             ELSE ConnInstBondinfoFill(conn, found)
        /\ UNCHANGED <<peers, mSecBond>>

\* The entry of a bond that has been made: the irk flag if the central sent
\* its identity key, then the central's address, or its EDIV if the address is
\* going to change.
BondedEntry(p, idKey) ==
    LET flags == p.flags \cup (IF idKey THEN {"irk_entry"} ELSE {})
    IN  IF conn.addr \notin Rpa
          THEN [p EXCEPT !.addr = conn.addr, !.flags = flags \cup {"addr_entry"}]
          ELSE [p EXCEPT !.ediv = p.encKey.ediv, !.flags = flags \cup {"irk_entry"}]

HandleAuthStatus(evt) ==
    LET done == [conn EXCEPT !.flags = @ \ {"pairing"}]
        i == conn.bondedDev
    IN  /\ \/ /\ ~evt.success
              /\ peers' = PeerInstInit(peers, i)
              /\ conn' = done
           \/ /\ evt.success
              /\ ~evt.bonded \/ i = INVALID_BONDED_DEV_ID
              /\ conn' = done
              /\ UNCHANGED peers
           \/ /\ evt.success /\ evt.bonded /\ i # INVALID_BONDED_DEV_ID
              /\ conn' = [done EXCEPT !.flags = @ \cup {"bonded"}]
              /\ peers' = [peers EXCEPT ![i] = BondedEntry(@, evt.idKey)]
        /\ UNCHANGED <<mSecBond, smp>>

\* Mutant: a link that is encrypted without a bond gives its entry back.
ConnSecUpdateReleases(evt) ==
    /\ conn' = [conn EXCEPT !.flags = @ \cup {"encrypted"}]
    /\ peers' = IF /\ "bonded" \notin conn.flags
                   /\ conn.bondedDev # INVALID_BONDED_DEV_ID
                  THEN PeerInstInit(peers, conn.bondedDev)
                  ELSE peers
    /\ UNCHANGED <<mSecBond, smp>>

HandleConnSecUpdate(evt) ==
    /\ conn' = [conn EXCEPT !.flags = @ \cup
                  (IF evt.open /\ "bonded" \in conn.flags
                     THEN {"pairing_req_pending", "bond_info_update"}
                     ELSE {"encrypted"})]
    /\ UNCHANGED <<peers, mSecBond, smp>>

-----------------------------------------------------------------------------
\* conn_manager_init(), one operator per store: main() runs it on tables that
\* the interrupt may be using.  Elsewhere the interrupt runs conn_inst_init and
\* peer_inst_init, in one step.  A memset is many stores: each takes its step,
\* so that an address is cleared in part, or written again meanwhile.

\* What a store of a memset may make of an address.
ClearedFrom(a) == IF a = ZeroAddr THEN {ZeroAddr} ELSE Cleared

InitSecParams ==
    /\ mSecBond' = SEC_PARAM_BOND
    /\ UNCHANGED <<peers, conn>>

InitConnFlags ==
    /\ conn' = [conn EXCEPT !.flags = {}]
    /\ UNCHANGED <<peers, mSecBond>>

InitConnHandle ==
    /\ conn' = [conn EXCEPT !.handle = FALSE]
    /\ UNCHANGED <<peers, mSecBond>>

InitConnBondedDev ==
    /\ conn' = [conn EXCEPT !.bondedDev = INVALID_BONDED_DEV_ID]
    /\ UNCHANGED <<peers, mSecBond>>

InitConnAddr ==
    /\ \E a \in ClearedFrom(conn.addr) : conn' = [conn EXCEPT !.addr = a]
    /\ UNCHANGED <<peers, mSecBond>>

InitPeerAddr(i) ==
    /\ \E a \in ClearedFrom(peers[i].addr) : peers' = [peers EXCEPT ![i].addr = a]
    /\ UNCHANGED <<conn, mSecBond>>

InitPeerAddrType(i) ==
    /\ peers' = [peers EXCEPT ![i].addr = NoAddr]
    /\ UNCHANGED <<conn, mSecBond>>

InitPeerFlags(i) ==
    /\ peers' = [peers EXCEPT ![i].flags = {}]
    /\ UNCHANGED <<conn, mSecBond>>

InitPeerEdiv(i) ==
    /\ peers' = [peers EXCEPT ![i].ediv = EDIV_INIT_VAL]
    /\ UNCHANGED <<conn, mSecBond>>

\* The keys of a bond with the central on the link: the stack stores the
\* central's identity address and the key it generated in the keyset it holds.
StoredEntry(p, idKey, e) ==
    [p EXCEPT !.addr = IF idKey THEN Identity[link] ELSE @,
              !.encKey = [ediv |-> e, of |-> link]]

KeysStored(idKey, e) ==
    /\ peers' = [peers EXCEPT ![smp.keyset] = StoredEntry(@, idKey, e)]
    /\ UNCHANGED <<conn, mSecBond>>
=============================================================================
