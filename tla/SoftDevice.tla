----------------------------- MODULE SoftDevice -----------------------------
(***************************************************************************)
(* The Nordic S110 SoftDevice and the centrals that talk to it, as the     *)
(* shield firmware sees them.  The stack is a binary blob: what is written *)
(* here is only what the application relies on (the calls it makes, the    *)
(* events it is handed, the memory it lends to the stack), in the terms of *)
(* the headers ble_gap.h and ble_types.h that the firmware compiles        *)
(* against.                                                                *)
(*                                                                         *)
(* S110 has one peripheral link, whose connection handle is always 0.      *)
(***************************************************************************)
EXTENDS Naturals, Sequences

CONSTANTS
    Addr,           \* device addresses that centrals use on the air
    Rpa,            \* resolvable private addresses
    Identity,       \* the identity address behind each address
    NoAddr,         \* no address
    Ediv,           \* the EDIV values that name a long term key
    EvtQueueLen     \* bound: events queued in the stack

ASSUME AddrAssumption ==
    /\ NoAddr \notin Addr
    /\ Identity \in [Addr -> Addr \ Rpa]

ASSUME EdivAssumption == Ediv # {} /\ Ediv \subseteq 0 .. 65535

ASSUME EvtQueueAssumption == EvtQueueLen \in Nat \ {0}

VARIABLES
    adv,        \* is the device advertising as connectable?
    link,       \* the address of the connected central, NoAddr without a link
    evtq,       \* events raised, not yet pulled by the application
    smp         \* the security procedure running on the link

sdVars == <<adv, link, evtq, smp>>

NoKeyset == 255

\* asked: SEC_PARAMS_REQUEST is unanswered.   refused: it was answered, the
\* stack rejected the answer.   running: keys will be stored in the keyset.
\* keys: the link is encrypted, keys are being distributed.   info:
\* SEC_INFO_REQUEST is unanswered.   encrypting: it was answered.   dead: a
\* timeout has occurred, no more security procedures on this link.
SmpPhase ==
    {"idle", "asked", "refused", "running", "keys", "info", "encrypting", "dead"}

\* keyset: index in the application's peer table of the entry whose memory
\* the stack was handed; bond: does the application want a bond?
SmpState == [phase : SmpPhase, keyset : 0 .. 255, bond : {0, 1}]

SmpIdle == [phase |-> "idle", keyset |-> NoKeyset, bond |-> 0]

Event ==
    [id : {"CONNECTED"}, addr : Addr]
      \cup [id : {"DISCONNECTED", "SEC_PARAMS_REQUEST", "TIMEOUT"}]
      \cup [id : {"SEC_INFO_REQUEST"}, ediv : Ediv]
      \cup [id : {"AUTH_STATUS"}, success : BOOLEAN, bonded : BOOLEAN,
            idKey : BOOLEAN]
      \cup [id : {"CONN_SEC_UPDATE"}, open : BOOLEAN]

SoftDeviceTypeOK ==
    /\ adv \in BOOLEAN
    /\ link \in Addr \cup {NoAddr}
    /\ evtq \in Seq(Event)
    /\ Len(evtq) <= EvtQueueLen
    /\ smp \in SmpState

SoftDeviceInit ==
    /\ adv = FALSE
    /\ link = NoAddr
    /\ evtq = <<>>
    /\ smp = SmpIdle

Raise(evt) ==
    /\ Len(evtq) < EvtQueueLen
    /\ evtq' = Append(evtq, evt)

-----------------------------------------------------------------------------
\* What centrals and the radio do.

\* A central answers an advertisement; that ends the advertising.
CentralConnects(a) ==
    /\ adv
    /\ adv' = FALSE
    /\ link' = a
    /\ Raise([id |-> "CONNECTED", addr |-> a])
    /\ UNCHANGED smp

\* Nobody connects for adv_params.timeout seconds.
AdvertisingTimesOut ==
    /\ adv
    /\ adv' = FALSE
    /\ Raise([id |-> "TIMEOUT"])
    /\ UNCHANGED <<link, smp>>

\* The central disconnects or goes out of range.
LinkLost ==
    /\ link # NoAddr
    /\ link' = NoAddr
    /\ smp' = SmpIdle
    /\ Raise([id |-> "DISCONNECTED"])
    /\ UNCHANGED adv

\* The central starts a pairing.
CentralPairs ==
    /\ link # NoAddr /\ smp.phase = "idle"
    /\ smp' = [smp EXCEPT !.phase = "asked"]
    /\ Raise([id |-> "SEC_PARAMS_REQUEST"])
    /\ UNCHANGED <<adv, link>>

\* The central wants to encrypt the link with the key it calls e.  It may
\* remember a key that the device, whose tables are in RAM, has forgotten.
CentralEncrypts(e) ==
    /\ link # NoAddr /\ smp.phase = "idle"
    /\ smp' = [smp EXCEPT !.phase = "info"]
    /\ Raise([id |-> "SEC_INFO_REQUEST", ediv |-> e])
    /\ UNCHANGED <<adv, link>>

\* The pairing has a short term key: the link is encrypted with it.
PairingEncrypts ==
    /\ smp.phase = "running"
    /\ smp' = [smp EXCEPT !.phase = "keys"]
    /\ Raise([id |-> "CONN_SEC_UPDATE", open |-> FALSE])
    /\ UNCHANGED <<adv, link>>

PairingFails ==
    /\ smp.phase \in {"running", "keys"}
    /\ smp' = SmpIdle
    /\ Raise([id |-> "AUTH_STATUS", success |-> FALSE, bonded |-> FALSE,
              idKey |-> FALSE])
    /\ UNCHANGED <<adv, link>>

\* An unanswered pairing times out, after which the link cannot pair again.
PairingTimesOut ==
    /\ smp.phase \in {"asked", "refused", "running", "keys"}
    /\ smp' = [SmpIdle EXCEPT !.phase = "dead"]
    /\ Raise([id |-> "AUTH_STATUS", success |-> FALSE, bonded |-> FALSE,
              idKey |-> FALSE])
    /\ UNCHANGED <<adv, link>>

\* The keys are distributed; they are stored in the keyset if there is a bond
\* (what is stored is up to the owner of the keyset).
PairingSucceeds(bonded, idKey) ==
    /\ link # NoAddr /\ smp.phase = "keys"
    /\ bonded => smp.bond = 1
    /\ smp' = SmpIdle
    /\ Raise([id |-> "AUTH_STATUS", success |-> TRUE, bonded |-> bonded,
              idKey |-> idKey])
    /\ UNCHANGED <<adv, link>>

\* The attempt to encrypt with a stored key is over: the link is encrypted, or
\* left open because the central's key is another one.
EncryptionEnds(open) ==
    /\ smp.phase = "encrypting"
    /\ smp' = SmpIdle
    /\ Raise([id |-> "CONN_SEC_UPDATE", open |-> open])
    /\ UNCHANGED <<adv, link>>

-----------------------------------------------------------------------------
\* Calls the application makes while it handles an event.

\* sd_ble_gap_adv_start: refused while there is a link.
AdvStart == adv' = (adv \/ link = NoAddr)

\* sd_ble_gap_sec_params_reply: refused when nothing was asked (the link is
\* gone) and when the stack finds a parameter it cannot accept.
SecParamsReply(slot, bond, accepted) ==
    smp' = IF smp.phase # "asked" THEN smp
           ELSE IF accepted
                  THEN [phase |-> "running", keyset |-> slot, bond |-> bond]
                  ELSE [smp EXCEPT !.phase = "refused"]

\* sd_ble_gap_sec_info_reply with the key in entry slot of the peer table.
SecInfoReply(slot) ==
    smp' = IF smp.phase # "info" THEN smp
           ELSE [phase |-> "encrypting", keyset |-> slot, bond |-> 0]
=============================================================================
