----------------------------- MODULE TrsService -----------------------------
(***************************************************************************)
(* The transmission service of the shield (shield/src/main/gatts_handler.c *)
(* with rx_handler in main.cpp): a central writes commands to the RX       *)
(* characteristic, the motor follows them, and an indication of the TX     *)
(* characteristic answers.                                                 *)
(*                                                                         *)
(* A central has one request outstanding at a time, and confirms an        *)
(* indication whenever it likes; the stack raises an event for each, and   *)
(* ble_evt_dispatch handles the events in the order in which they were     *)
(* raised, possibly when their link is gone.  trs_init is done before the  *)
(* device is first advertised.                                             *)
(*                                                                         *)
(* The cases of gatts_handler that the attributes' permissions rule out    *)
(* (reads, writes without response, writes to the TX value, a CCCD that is *)
(* not two bytes long) are left out, and so is what is only printed.       *)
(***************************************************************************)
EXTENDS Naturals, Sequences

CONSTANT EvtQueueLen        \* bound: events queued in the stack

ASSUME EvtQueueAssumption == EvtQueueLen \in Nat \ {0}

VARIABLES
    adv, link,      \* is the device advertising, is there a link?
    cccd,           \* the descriptor of TX, as the stack has it for the link
    req,            \* the central's outstanding request
    ind,            \* the indication that the central has not confirmed
    evtq,           \* events raised, not yet pulled by the application
    isHVXEnabled,   \* trs.isHVXEnabled
    rxBuf,          \* rx_value_buf: does it start with an O, is an N second?
    motor           \* MOTOR_GPIO

gattVars == <<cccd, req, ind>>
appVars == <<isHVXEnabled, rxBuf, motor>>
vars == <<adv, link, gattVars, evtq, appVars>>

\* What a command writes: only the first two bytes are looked at, and a short
\* write leaves the rest of the buffer as it is.
Command == [len : 0 .. 2, o : BOOLEAN, n : BOOLEAN]

\* subscribe: a write of the descriptor waits for the system attributes.
\* long: a prepared write waits for user memory.
Request ==
    [kind : {"none", "command", "long"}]
      \cup [kind : {"subscribe"}, value : {"off", "on"}]

NoRequest == [kind |-> "none"]

Event ==
    [id : {"CONNECTED", "DISCONNECTED", "ADV_TIMEOUT", "SYS_ATTR_MISSING",
           "USER_MEM_REQUEST", "HVC", "TIMEOUT"}]
      \cup [id : {"WRITE"}, value : {"off", "on"}]
      \cup [id : {"RW_AUTHORIZE_REQUEST"}, write : Command]

TypeOK ==
    /\ adv \in BOOLEAN /\ link \in BOOLEAN
    /\ cccd \in {"unset", "off", "on"}
    /\ req \in Request
    /\ ind \in {"none", "sent", "timed_out"}
    /\ evtq \in Seq(Event) /\ Len(evtq) <= EvtQueueLen
    /\ isHVXEnabled \in BOOLEAN
    /\ rxBuf \in [o : BOOLEAN, n : BOOLEAN]
    /\ motor \in BOOLEAN

\* When trs_init and advertising_start have run.
Init ==
    /\ adv = TRUE /\ link = FALSE
    /\ cccd = "unset" /\ req = NoRequest /\ ind = "none"
    /\ evtq = <<>>
    /\ isHVXEnabled = FALSE
    /\ rxBuf = [o |-> FALSE, n |-> FALSE]
    /\ motor = FALSE

-----------------------------------------------------------------------------
\* The central and the stack.

Raise(evt) ==
    /\ Len(evtq) < EvtQueueLen
    /\ evtq' = Append(evtq, evt)
    /\ UNCHANGED appVars

Connect ==
    /\ adv /\ adv' = FALSE /\ link' = TRUE
    /\ Raise([id |-> "CONNECTED"])
    /\ UNCHANGED gattVars

AdvertisingTimesOut ==
    /\ adv /\ adv' = FALSE
    /\ Raise([id |-> "ADV_TIMEOUT"])
    /\ UNCHANGED <<link, gattVars>>

\* Nothing of the link outlives it in the stack, but the events it raised.
LinkLost ==
    /\ link /\ link' = FALSE
    /\ cccd' = "unset" /\ req' = NoRequest /\ ind' = "none"
    /\ Raise([id |-> "DISCONNECTED"])
    /\ UNCHANGED adv

\* After an indication has timed out the link carries no more of GATT.
CanRequest == link /\ req = NoRequest /\ ind # "timed_out"

\* A write of the descriptor, which tx_characteristics_add leaves to the stack
\* and to everybody: the application is told.
Subscribe(value) ==
    /\ CanRequest
    /\ IF cccd = "unset"
         THEN /\ req' = [kind |-> "subscribe", value |-> value]
              /\ Raise([id |-> "SYS_ATTR_MISSING"])
              /\ UNCHANGED cccd
         ELSE /\ cccd' = value
              /\ Raise([id |-> "WRITE", value |-> value])
              /\ UNCHANGED req
    /\ UNCHANGED <<adv, link, ind>>

\* The one that has waited for the system attributes is done.
SubscriptionResumed ==
    /\ req.kind = "subscribe" /\ cccd # "unset"
    /\ cccd' = req.value /\ req' = NoRequest
    /\ Raise([id |-> "WRITE", value |-> req.value])
    /\ UNCHANGED <<adv, link, ind>>

\* A write of RX, which rx_characteristics_add opens to everybody but has the
\* application authorise: it is asked.
WriteCommand(c) ==
    /\ CanRequest
    /\ req' = [kind |-> "command"]
    /\ Raise([id |-> "RW_AUTHORIZE_REQUEST", write |-> c])
    /\ UNCHANGED <<adv, link, cccd, ind>>

WriteLong ==
    /\ CanRequest
    /\ req' = [kind |-> "long"]
    /\ Raise([id |-> "USER_MEM_REQUEST"])
    /\ UNCHANGED <<adv, link, cccd, ind>>

Confirm ==
    /\ ind = "sent" /\ ind' = "none"
    /\ Raise([id |-> "HVC"])
    /\ UNCHANGED <<adv, link, cccd, req>>

ConfirmTimesOut ==
    /\ ind = "sent" /\ ind' = "timed_out"
    /\ Raise([id |-> "TIMEOUT"])
    /\ UNCHANGED <<adv, link, cccd, req>>

Environment ==
    \/ Connect \/ AdvertisingTimesOut \/ LinkLost
    \/ \E value \in {"off", "on"} : Subscribe(value)
    \/ \E c \in Command : WriteCommand(c)
    \/ WriteLong \/ Confirm \/ ConfirmTimesOut

-----------------------------------------------------------------------------
\* ble_evt_dispatch: handler() does nothing to what is modelled here.

\* gatts_handler stores the connection handle of every event in m_conn_handle
\* before it looks at it: each call to the stack is for the link of the event.
Pull(id) ==
    /\ evtq # <<>> /\ Head(evtq).id = id
    /\ evtq' = Tail(evtq)
    /\ UNCHANGED link

\* sd_ble_gatts_hvx refuses an indication that is not enabled or that would be
\* the second.
HvxAccepted == link /\ cccd = "on" /\ ind = "none"

\* ble_trs_transmit of an answer, which is never too long for tx_value_buf.
Transmit == ind' = IF isHVXEnabled /\ HvxAccepted THEN "sent" ELSE ind

\* What the write leaves in rx_value_buf.
Written(c) ==
    [o |-> IF c.len > 0 THEN c.o ELSE rxBuf.o,
     n |-> IF c.len > 1 THEN c.n ELSE rxBuf.n]

\* rx_handler compares two bytes of the buffer, whatever the length.
RxHandler ==
    /\ motor' = (rxBuf'.o /\ rxBuf'.n)
    /\ Transmit

\* Mutant: the result of the reply is not looked at.
CommandUnchecked ==
    /\ Pull("RW_AUTHORIZE_REQUEST")
    /\ req' = NoRequest
    /\ rxBuf' = Written(Head(evtq).write)
    /\ RxHandler
    /\ UNCHANGED <<adv, cccd, isHVXEnabled>>

\* Mutant: rx_handler is called, the request is not answered.
CommandUnanswered ==
    /\ Pull("RW_AUTHORIZE_REQUEST")
    /\ rxBuf' = IF link THEN Written(Head(evtq).write) ELSE rxBuf
    /\ RxHandler
    /\ UNCHANGED <<adv, cccd, req, isHVXEnabled>>

\* A command is executed once the stack has taken the reply, which it does not
\* if the link is gone; with the reply it updates rx_value_buf.
OnCommand ==
    /\ Pull("RW_AUTHORIZE_REQUEST")
    /\ IF link
         THEN /\ req' = NoRequest
              /\ rxBuf' = Written(Head(evtq).write)
              /\ RxHandler
         ELSE UNCHANGED <<req, ind, rxBuf, motor>>
    /\ UNCHANGED <<adv, cccd, isHVXEnabled>>

\* Mutant: it is taken for a notification.
WriteAsNotification ==
    /\ Pull("WRITE")
    /\ isHVXEnabled' = FALSE
    /\ UNCHANGED <<adv, gattVars, rxBuf, motor>>

\* The descriptor of TX has been written.
OnWrite ==
    /\ Pull("WRITE")
    /\ isHVXEnabled' = (Head(evtq).value = "on")
    /\ UNCHANGED <<adv, gattVars, rxBuf, motor>>

\* sd_ble_gatts_sys_attr_set with no stored attributes: the descriptor is off.
OnSysAttrMissing ==
    /\ Pull("SYS_ATTR_MISSING")
    /\ cccd' = IF link THEN "off" ELSE cccd
    /\ UNCHANGED <<adv, req, ind, appVars>>

\* isHVXEnabled and the motor stay as they are.
OnDisconnected ==
    /\ Pull("DISCONNECTED")
    /\ adv' = (adv \/ ~link)
    /\ UNCHANGED <<gattVars, appVars>>

\* Mutant: advertising is restarted after these as well.
OnOtherAdvertising ==
    /\ \E id \in {"CONNECTED", "ADV_TIMEOUT", "USER_MEM_REQUEST", "HVC",
                  "TIMEOUT"} : Pull(id)
    /\ adv' = (adv \/ ~link)
    /\ UNCHANGED <<gattVars, appVars>>

\* tx_handler only prints; nobody handles USER_MEM_REQUEST.
OnOther ==
    /\ \E id \in {"CONNECTED", "ADV_TIMEOUT", "USER_MEM_REQUEST", "HVC",
                  "TIMEOUT"} : Pull(id)
    /\ UNCHANGED <<adv, gattVars, appVars>>

Dispatch ==
    OnCommand \/ OnWrite \/ OnSysAttrMissing \/ OnDisconnected \/ OnOther

Next == Environment \/ SubscriptionResumed \/ Dispatch

Spec == Init /\ [][Next]_vars

\* A pending interrupt is served, and the stack goes on with a request that it
\* has what it needs for.  Centrals owe us nothing.
FairSpec == Spec /\ WF_vars(Dispatch) /\ WF_vars(SubscriptionResumed)

-----------------------------------------------------------------------------
(* Properties *)

At(i, id) == i \in 1 .. Len(evtq) /\ evtq[i].id = id

\* Once its link is gone the stack knows nothing of a central, and the device
\* is advertised only when the events of the last link have been dispatched.
LinkShape ==
    /\ ~link => req = NoRequest /\ ind = "none" /\ cccd = "unset"
    /\ adv => ~link /\ evtq = <<>>

\* What is queued, given the link and the request.
QueueShape ==
    /\ \A i \in 1 .. Len(evtq) :
         At(i, "DISCONNECTED") => i = Len(evtq) /\ ~link
    /\ link => \A i, j \in 1 .. Len(evtq) :
         /\ At(i, "RW_AUTHORIZE_REQUEST") => req.kind = "command"
         /\ At(i, "RW_AUTHORIZE_REQUEST") /\ j > i =>
              ~At(j, "RW_AUTHORIZE_REQUEST") /\ ~At(j, "WRITE")
         /\ At(i, "SYS_ATTR_MISSING") => req.kind = "subscribe" /\ cccd = "unset"
         /\ At(i, "SYS_ATTR_MISSING") /\ j > i => ~At(j, "SYS_ATTR_MISSING")

\* The application knows the subscription or is about to be told.
LastWriteCounts ==
    link => \A i \in 1 .. Len(evtq) : At(i, "WRITE") =>
        /\ cccd # "unset"
        /\ (\A j \in i + 1 .. Len(evtq) : ~At(j, "WRITE")) =>
              evtq[i].value = cccd

\* What the central waits for is still to come: the event that a command is
\* answered by, or a first write of the descriptor goes on after, is queued.
RequestQueued ==
    /\ req.kind = "command" =>
         \E i \in 1 .. Len(evtq) : At(i, "RW_AUTHORIZE_REQUEST")
    /\ req.kind = "subscribe" /\ cccd = "unset" =>
         \E i \in 1 .. Len(evtq) : At(i, "SYS_ATTR_MISSING")

\* When all that a connected central has written to the descriptor of TX was
\* dispatched and indications are on, isHVXEnabled is set, whatever it was left
\* at by the centrals before and however requests and confirmations interleave
\* (gatts_handler 248: nothing resets it when a link comes or goes).
SubscriptionKnown ==
    link /\ cccd = "on" /\ (\A i \in 1 .. Len(evtq) : ~At(i, "WRITE"))
        => isHVXEnabled

\* The inductive invariant.
IInv ==
    /\ TypeOK /\ LinkShape /\ QueueShape
    /\ LastWriteCounts /\ SubscriptionKnown /\ RequestQueued

\* The motor and the value of RX change on behalf of a connected central only:
\* a command whose central went away before its dispatch does nothing
\* (gatts_handler 284).
GoneCentralMovesNothing == [][<<motor, rxBuf>>' # <<motor, rxBuf>> => link]_vars

\* A command of a central that has indications on and has confirmed the last
\* one is answered by an indication in the step that executes it: isHVXEnabled
\* never holds it back (ble_trs_transmit 214).
Answered ==
    req.kind = "command" /\ req' = NoRequest /\ link' /\ cccd = "on"
        /\ ind = "none" => ind' = "sent"
AnswerGetsThrough == [][Answered]_vars

\* Every command and every first write of the descriptor gets its response, or
\* its link ends: neither the authorisation nor the system attributes are
\* forgotten (gatts_handler 284, 304).
Waiting == req.kind \in {"command", "subscribe"}
RequestAnswered == Waiting ~> ~Waiting
=============================================================================
