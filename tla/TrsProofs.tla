----------------------------- MODULE TrsProofs -----------------------------
(***************************************************************************)
(* Proofs, for any number of queued events, that the application knows the *)
(* subscription of the connected central, that a central that is gone      *)
(* moves nothing, and that an answer gets through.                         *)
(***************************************************************************)
EXTENDS TrsService, SequenceTheorems, TLAPS

\* The queue after an event was raised.
LEMMA RaisedQueue ==
    ASSUME TypeOK, NEW e \in Event, Raise(e)
    PROVE  /\ evtq' \in Seq(Event) /\ Len(evtq') <= EvtQueueLen
           /\ Len(evtq') = Len(evtq) + 1 /\ Len(evtq) \in Nat
           /\ \A i \in 1 .. Len(evtq) : evtq'[i] = evtq[i]
           /\ evtq'[Len(evtq) + 1] = e
<1> QED
  BY AppendProperties, LenProperties, EvtQueueAssumption DEF TypeOK, Raise

\* The queue after an event was pulled.
LEMMA PulledQueue ==
    ASSUME TypeOK, NEW id, Pull(id)
    PROVE  /\ evtq' \in Seq(Event) /\ Len(evtq') <= EvtQueueLen
           /\ Len(evtq) \in Nat \ {0} /\ Len(evtq') = Len(evtq) - 1
           /\ \A i \in 1 .. Len(evtq') : evtq'[i] = evtq[i + 1]
           /\ Head(evtq) = evtq[1] /\ Head(evtq) \in Event
           /\ evtq[1].id = id
<1>1. evtq \in Seq(Event) /\ evtq # <<>> /\ Len(evtq) <= EvtQueueLen
  BY DEF TypeOK, Pull
<1>2. /\ Head(evtq) \in Event /\ Tail(evtq) \in Seq(Event)
      /\ Len(evtq) \in Nat \ {0} /\ Len(Tail(evtq)) = Len(evtq) - 1
      /\ \A i \in 1 .. Len(Tail(evtq)) : Tail(evtq)[i] = evtq[i + 1]
      /\ Head(evtq) = evtq[1]
  BY <1>1, HeadTailProperties, LenProperties, EmptySeq
<1> QED
  BY <1>1, <1>2, EvtQueueAssumption DEF Pull

\* The fields of an event belong to its kind.
LEMMA EventFields ==
    ASSUME NEW e \in Event
    PROVE  /\ e.id = "WRITE" => e.value \in {"off", "on"}
           /\ e.id = "RW_AUTHORIZE_REQUEST" => e.write \in Command
BY DEF Event

LEMMA RequestFields ==
    ASSUME req \in Request, req.kind = "subscribe"
    PROVE  req.value \in {"off", "on"}
BY DEF Request

\* The three kinds of requests and none.
LEMMA Requests ==
    /\ NoRequest \in Request /\ NoRequest.kind = "none"
    /\ [kind |-> "command"] \in Request /\ [kind |-> "long"] \in Request
    /\ \A v \in {"off", "on"} : [kind |-> "subscribe", value |-> v] \in Request
BY DEF Request, NoRequest

LEMMA Events ==
    /\ \A id \in {"CONNECTED", "DISCONNECTED", "ADV_TIMEOUT",
                  "SYS_ATTR_MISSING", "USER_MEM_REQUEST", "HVC", "TIMEOUT"} :
         [id |-> id] \in Event
    /\ \A v \in {"off", "on"} : [id |-> "WRITE", value |-> v] \in Event
    /\ \A c \in Command : [id |-> "RW_AUTHORIZE_REQUEST", write |-> c] \in Event
BY DEF Event

LEMMA WrittenType ==
    ASSUME rxBuf \in [o : BOOLEAN, n : BOOLEAN], NEW c \in Command
    PROVE  Written(c) \in [o : BOOLEAN, n : BOOLEAN]
<1>1. rxBuf.o \in BOOLEAN /\ rxBuf.n \in BOOLEAN
  OBVIOUS
<1>2. c.o \in BOOLEAN /\ c.n \in BOOLEAN
  BY DEF Command
<1> QED
  BY <1>1, <1>2, Zenon DEF Written

-----------------------------------------------------------------------------

LEMMA InitIInv == Init => IInv
<1> SUFFICES ASSUME Init PROVE IInv
  OBVIOUS
<1>1. TypeOK
  <2>1. <<>> \in Seq(Event) /\ Len(<<>>) <= EvtQueueLen
    BY EvtQueueAssumption
  <2>2. [o |-> FALSE, n |-> FALSE] \in [o : BOOLEAN, n : BOOLEAN]
    OBVIOUS
  <2> QED
    BY <2>1, <2>2, Requests DEF Init, TypeOK
<1>2. Len(evtq) = 0
  BY DEF Init
<1> QED
  BY <1>1, <1>2
     DEF Init, IInv, LinkShape, QueueShape, LastWriteCounts, SubscriptionKnown,
         RequestQueued, NoRequest

\* Types, one step per action.
LEMMA TypeStep == TypeOK /\ [Next]_vars => TypeOK'
<1> SUFFICES ASSUME TypeOK, [Next]_vars PROVE TypeOK'
  OBVIOUS
<1> USE DEF TypeOK, gattVars, appVars
<1>1. CASE Connect
  BY <1>1, Events, RaisedQueue DEF Connect, Raise
<1>2. CASE AdvertisingTimesOut
  BY <1>2, Events, RaisedQueue DEF AdvertisingTimesOut, Raise
<1>3. CASE LinkLost
  BY <1>3, Events, Requests, RaisedQueue DEF LinkLost, Raise
<1>4. ASSUME NEW v \in {"off", "on"}, Subscribe(v) PROVE TypeOK'
  <2>1. CASE cccd = "unset"
    BY <1>4, <2>1, Events, Requests, RaisedQueue DEF Subscribe, Raise
  <2>2. CASE cccd # "unset"
    BY <1>4, <2>2, Events, Requests, RaisedQueue DEF Subscribe, Raise
  <2> QED
    BY <2>1, <2>2
<1>5. ASSUME NEW c \in Command, WriteCommand(c) PROVE TypeOK'
  BY <1>5, Events, Requests, RaisedQueue DEF WriteCommand, Raise
<1>6. CASE WriteLong
  BY <1>6, Events, Requests, RaisedQueue DEF WriteLong, Raise
<1>7. CASE Confirm
  BY <1>7, Events, RaisedQueue DEF Confirm, Raise
<1>8. CASE ConfirmTimesOut
  BY <1>8, Events, RaisedQueue DEF ConfirmTimesOut, Raise
<1>9. CASE SubscriptionResumed
  BY <1>9, Events, Requests, RequestFields, RaisedQueue
     DEF SubscriptionResumed, Raise
<1>10. CASE OnCommand
  <2>1. Pull("RW_AUTHORIZE_REQUEST")
    BY <1>10 DEF OnCommand
  <2>2. Head(evtq).write \in Command
    BY <2>1, PulledQueue, EventFields
  <2>3. Written(Head(evtq).write) \in [o : BOOLEAN, n : BOOLEAN]
    BY <2>2, WrittenType
  <2>4. link => rxBuf' \in [o : BOOLEAN, n : BOOLEAN] /\ motor' \in BOOLEAN
    BY <1>10, <2>3, Zenon DEF OnCommand, RxHandler
  <2>5. link => ind' \in {"none", "sent", "timed_out"} /\ req' \in Request
    BY <1>10, Requests DEF OnCommand, RxHandler, Transmit
  <2>6. CASE link
    BY <1>10, <2>1, <2>4, <2>5, <2>6, PulledQueue DEF OnCommand, Pull
  <2>7. CASE ~link
    BY <1>10, <2>1, <2>7, PulledQueue DEF OnCommand, Pull
  <2> QED
    BY <2>6, <2>7
<1>11. CASE OnWrite
  BY <1>11, PulledQueue DEF OnWrite, Pull
<1>12. CASE OnSysAttrMissing
  BY <1>12, PulledQueue DEF OnSysAttrMissing, Pull
<1>13. CASE OnDisconnected
  BY <1>13, PulledQueue DEF OnDisconnected, Pull
<1>14. CASE OnOther
  BY <1>14, PulledQueue DEF OnOther, Pull
<1>15. CASE UNCHANGED vars
  BY <1>15 DEF vars
<1> QED
  BY <1>1, <1>2, <1>3, <1>4, <1>5, <1>6, <1>7, <1>8, <1>9, <1>10, <1>11,
     <1>12, <1>13, <1>14, <1>15 DEF Next, Environment, Dispatch

-----------------------------------------------------------------------------
(* What the central waits for stays queued. *)

\* An event that was queued still is when another one was raised.
LEMMA StillRaised ==
    ASSUME TypeOK, NEW e \in Event, Raise(e), NEW id,
           \E i \in 1 .. Len(evtq) : At(i, id)
    PROVE  \E i \in 1 .. Len(evtq') : At(i, id)'
<1>1. PICK i \in 1 .. Len(evtq) : At(i, id)
  OBVIOUS
<1>2. i \in 1 .. Len(evtq') /\ evtq'[i] = evtq[i]
  BY RaisedQueue
<1> QED
  BY <1>1, <1>2 DEF At

\* The event that was raised is queued.
LEMMA NowRaised ==
    ASSUME TypeOK, NEW e \in Event, Raise(e)
    PROVE  \E i \in 1 .. Len(evtq') : At(i, e.id)'
<1>1. Len(evtq) + 1 \in 1 .. Len(evtq') /\ evtq'[Len(evtq) + 1] = e
  BY RaisedQueue
<1> QED
  BY <1>1 DEF At

\* One that was not the first still is when the first was pulled.
LEMMA StillQueued ==
    ASSUME TypeOK, NEW other, Pull(other), NEW id, id # other,
           \E i \in 1 .. Len(evtq) : At(i, id)
    PROVE  \E i \in 1 .. Len(evtq') : At(i, id)'
<1>1. PICK i \in 1 .. Len(evtq) : At(i, id)
  OBVIOUS
<1>2. Len(evtq) \in Nat /\ Len(evtq') = Len(evtq) - 1 /\ evtq[1].id = other
  BY PulledQueue
<1>3. i # 1
  BY <1>1, <1>2 DEF At
<1>4. i - 1 \in 1 .. Len(evtq') /\ evtq'[i - 1] = evtq[(i - 1) + 1] /\ (i - 1) + 1 = i
  BY <1>2, <1>3, PulledQueue
<1> QED
  BY <1>1, <1>4 DEF At

LEMMA RequestQueuedStep == IInv /\ [Next]_vars => RequestQueued'
<1> SUFFICES ASSUME IInv, [Next]_vars PROVE RequestQueued'
  OBVIOUS
<1>1. TypeOK /\ RequestQueued /\ LinkShape
  BY DEF IInv
<1>2. ASSUME NEW e \in Event, Raise(e), UNCHANGED req, cccd' = cccd
      PROVE  RequestQueued'
  BY <1>1, <1>2, StillRaised DEF RequestQueued
<1>3. ASSUME NEW id, Pull(id), id # "RW_AUTHORIZE_REQUEST", UNCHANGED req,
             id = "SYS_ATTR_MISSING" => req.kind # "subscribe" \/ cccd' # "unset",
             cccd' = "unset" => cccd = "unset"
      PROVE  RequestQueued'
  BY <1>1, <1>3, StillQueued DEF RequestQueued
<1>4. CASE Connect \/ AdvertisingTimesOut \/ Confirm \/ ConfirmTimesOut
  BY <1>2, <1>4, Events DEF Connect, AdvertisingTimesOut, Confirm, ConfirmTimesOut, gattVars
<1>5. CASE LinkLost \/ SubscriptionResumed \/ WriteLong
  <2>1. req'.kind \in {"none", "long"}
    BY <1>5, Requests DEF LinkLost, SubscriptionResumed, WriteLong
  <2> QED
    BY <2>1 DEF RequestQueued
<1>6. ASSUME NEW v \in {"off", "on"}, Subscribe(v) PROVE RequestQueued'
  <2>1. CASE cccd = "unset"
    <3>1. Raise([id |-> "SYS_ATTR_MISSING"]) /\ req'.kind = "subscribe"
      BY <1>6, <2>1 DEF Subscribe
    <3>2. \E i \in 1 .. Len(evtq') : At(i, "SYS_ATTR_MISSING")'
      BY <1>1, <3>1, Events, NowRaised
    <3> QED
      BY <3>1, <3>2 DEF RequestQueued
  <2>2. CASE cccd # "unset"
    <3>1. req' = NoRequest
      BY <1>6, <2>2 DEF Subscribe, CanRequest
    <3> QED
      BY <3>1, Requests DEF RequestQueued
  <2> QED
    BY <2>1, <2>2
<1>7. ASSUME NEW c \in Command, WriteCommand(c) PROVE RequestQueued'
  <2>1. Raise([id |-> "RW_AUTHORIZE_REQUEST", write |-> c]) /\ req'.kind = "command"
    BY <1>7 DEF WriteCommand
  <2>2. \E i \in 1 .. Len(evtq') : At(i, "RW_AUTHORIZE_REQUEST")'
    BY <1>1, <2>1, Events, NowRaised
  <2> QED
    BY <2>1, <2>2 DEF RequestQueued
<1>8. CASE OnCommand
  <2>1. req'.kind = "none"
    BY <1>1, <1>8, Requests DEF OnCommand, Pull, LinkShape
  <2> QED
    BY <2>1 DEF RequestQueued
<1>9. CASE OnWrite
  BY <1>3, <1>9 DEF OnWrite, gattVars
<1>10. CASE OnSysAttrMissing
  <2>1. /\ Pull("SYS_ATTR_MISSING") /\ UNCHANGED req
        /\ cccd' = IF link THEN "off" ELSE cccd
    BY <1>10 DEF OnSysAttrMissing
  <2>2. ~link => req.kind = "none"
    BY <1>1, Requests DEF LinkShape
  <2> QED
    BY <1>3, <2>1, <2>2
<1>11. CASE OnDisconnected \/ OnOther
  BY <1>3, <1>11 DEF OnDisconnected, OnOther, gattVars
<1>12. CASE UNCHANGED vars
  BY <1>1, <1>12 DEF vars, gattVars, RequestQueued, At
<1> QED
  BY <1>4, <1>5, <1>6, <1>7, <1>8, <1>9, <1>10, <1>11, <1>12
     DEF Next, Environment, Dispatch

-----------------------------------------------------------------------------
(* One lemma for what is raised and one for what is dispatched. *)

\* The link is there whenever something is raised but the end of advertising,
\* and then nothing was queued.
LEMMA NoDisconnectedBefore ==
    ASSUME IInv, link \/ adv
    PROVE  \A i \in 1 .. Len(evtq) : ~At(i, "DISCONNECTED")
<1>1. CASE link
  BY <1>1 DEF IInv, QueueShape
<1>2. CASE adv
  <2>1. Len(evtq) = 0
    BY <1>2 DEF IInv, LinkShape
  <2> QED
    BY <2>1 DEF At
<1> QED
  BY <1>1, <1>2

LEMMA ConnectIInv == IInv /\ Connect => IInv'
<1> SUFFICES ASSUME IInv, Connect PROVE IInv'
  OBVIOUS
<1>1. TypeOK /\ TypeOK' /\ RequestQueued'
  BY TypeStep, RequestQueuedStep DEF IInv, Next, Environment
<1>2. evtq = <<>> /\ ~link /\ link' /\ ~adv' /\ adv
  BY DEF Connect, IInv, LinkShape, TypeOK
<1>3. Len(evtq') = 1 /\ evtq'[1].id = "CONNECTED"
  BY <1>1, <1>2, Events, RaisedQueue DEF Connect
<1>4. UNCHANGED <<gattVars, isHVXEnabled>> /\ cccd = "unset"
  BY <1>2 DEF Connect, Raise, appVars, IInv, LinkShape
<1> QED
  BY <1>1, <1>2, <1>3, <1>4
     DEF IInv, LinkShape, QueueShape, LastWriteCounts, SubscriptionKnown, At,
         gattVars

LEMMA LinkGoneIInv == IInv /\ (AdvertisingTimesOut \/ LinkLost) => IInv'
<1> SUFFICES ASSUME IInv, AdvertisingTimesOut \/ LinkLost PROVE IInv'
  OBVIOUS
<1>1. TypeOK /\ TypeOK' /\ RequestQueued'
  BY TypeStep, RequestQueuedStep DEF IInv, Next, Environment
<1>2. ~link' /\ ~adv'
  BY <1>1 DEF IInv, LinkShape, AdvertisingTimesOut, LinkLost, TypeOK
<1>3. LinkShape'
  BY <1>2 DEF IInv, LinkShape, AdvertisingTimesOut, LinkLost, gattVars
<1>4. PICK e \in Event : Raise(e)
  BY Events DEF AdvertisingTimesOut, LinkLost
<1>5. \A i \in 1 .. Len(evtq) : ~At(i, "DISCONNECTED")
  BY NoDisconnectedBefore DEF AdvertisingTimesOut, LinkLost
<1>6. QueueShape'
  BY <1>1, <1>2, <1>4, <1>5, RaisedQueue DEF QueueShape, At
<1> QED
  BY <1>1, <1>2, <1>3, <1>6 DEF IInv, LastWriteCounts, SubscriptionKnown

\* What a central or the stack raises on a link, but for the WRITE.
LEMMA RequestIInv ==
    IInv /\ ((\E c \in Command : WriteCommand(c)) \/ WriteLong \/ Confirm
               \/ ConfirmTimesOut \/ (cccd = "unset" /\ \E v \in {"off", "on"} : Subscribe(v)))
      => IInv'
<1> SUFFICES ASSUME IInv,
               (\E c \in Command : WriteCommand(c)) \/ WriteLong \/ Confirm
                 \/ ConfirmTimesOut
                 \/ (cccd = "unset" /\ \E v \in {"off", "on"} : Subscribe(v))
             PROVE IInv'
  OBVIOUS
<1> USE DEF At
<1>1. TypeOK /\ TypeOK' /\ RequestQueued'
  BY TypeStep, RequestQueuedStep DEF IInv, Next, Environment
<1>2. /\ link /\ link' /\ ~adv'
      /\ UNCHANGED <<cccd, isHVXEnabled>>
  BY Requests, <1>1
     DEF IInv, LinkShape, WriteCommand, WriteLong, Confirm, ConfirmTimesOut,
         Subscribe, CanRequest, Raise, appVars, NoRequest, TypeOK
<1> DEFINE Fits(e) ==
      /\ Raise(e) /\ e.id \notin {"WRITE", "DISCONNECTED"}
      /\ e.id = "RW_AUTHORIZE_REQUEST" =>
           req = NoRequest /\ req'.kind = "command"
      /\ e.id = "SYS_ATTR_MISSING" =>
           req = NoRequest /\ req'.kind = "subscribe" /\ cccd = "unset"
      /\ req # NoRequest => req' = req
<1>3. PICK e \in Event : Fits(e)
  <2>1. ASSUME NEW c \in Command, WriteCommand(c) PROVE \E e \in Event : Fits(e)
    <3> DEFINE e == [id |-> "RW_AUTHORIZE_REQUEST", write |-> c]
    <3>1. e \in Event
      BY Events
    <3>2. Fits(e)
      BY <2>1 DEF WriteCommand, CanRequest
    <3> QED
      BY <3>1, <3>2
  <2>2. ASSUME cccd = "unset", NEW v \in {"off", "on"}, Subscribe(v)
        PROVE  \E e \in Event : Fits(e)
    BY <2>2, Events DEF Subscribe, CanRequest
  <2>3. CASE WriteLong
    BY <2>3, Events DEF WriteLong, CanRequest
  <2>4. CASE Confirm
    BY <2>4, Events DEF Confirm
  <2>5. CASE ConfirmTimesOut
    BY <2>5, Events DEF ConfirmTimesOut
  <2> QED
    BY <2>1, <2>2, <2>3, <2>4, <2>5
<1>4. /\ Len(evtq) \in Nat /\ Len(evtq') = Len(evtq) + 1
      /\ \A i \in 1 .. Len(evtq) : evtq'[i] = evtq[i]
      /\ evtq'[Len(evtq) + 1] = e
  BY <1>1, <1>3, RaisedQueue
<1>5. req = NoRequest =>
        \A i \in 1 .. Len(evtq) : ~At(i, "RW_AUTHORIZE_REQUEST") /\ ~At(i, "SYS_ATTR_MISSING")
  BY <1>2, Requests DEF IInv, QueueShape
<1>6. LinkShape'
  BY <1>2 DEF LinkShape
<1>7. QueueShape'
  BY <1>2, <1>3, <1>4, <1>5 DEF IInv, QueueShape
<1>8. LastWriteCounts'
  BY <1>2, <1>3, <1>4 DEF IInv, LastWriteCounts
<1>9. SubscriptionKnown'
  BY <1>2, <1>3, <1>4 DEF IInv, SubscriptionKnown
<1> QED
  BY <1>1, <1>6, <1>7, <1>8, <1>9 DEF IInv

\* A WRITE is raised with the value that the descriptor gets.
LEMMA WriteIInv ==
    IInv /\ (SubscriptionResumed
               \/ (cccd # "unset" /\ \E v \in {"off", "on"} : Subscribe(v)))
      => IInv'
<1> SUFFICES ASSUME IInv,
               SubscriptionResumed
                 \/ (cccd # "unset" /\ \E v \in {"off", "on"} : Subscribe(v))
             PROVE IInv'
  OBVIOUS
<1> USE DEF At
<1>1. TypeOK /\ TypeOK' /\ RequestQueued'
  BY TypeStep, RequestQueuedStep DEF IInv, Next, Environment
<1>2. /\ link /\ link' /\ ~adv' /\ cccd # "unset" /\ cccd' # "unset"
      /\ req.kind # "command" /\ req' = NoRequest
  <2>1. CASE SubscriptionResumed
    <3>1. req.kind = "subscribe" /\ cccd' = req.value /\ req' = NoRequest
      BY <2>1 DEF SubscriptionResumed
    <3>2. req.value \in {"off", "on"}
      BY <1>1, <3>1, RequestFields DEF TypeOK
    <3>3. link /\ ~adv
      BY <1>1, <3>1, Requests DEF IInv, LinkShape, TypeOK
    <3> QED
      BY <2>1, <3>1, <3>2, <3>3 DEF SubscriptionResumed
  <2>2. ASSUME cccd # "unset", NEW v \in {"off", "on"}, Subscribe(v)
        PROVE  /\ link /\ link' /\ ~adv' /\ cccd # "unset" /\ cccd' # "unset"
               /\ req.kind # "command" /\ req' = NoRequest
    BY <1>1, <2>2, Requests DEF IInv, LinkShape, Subscribe, CanRequest, TypeOK
  <2> QED
    BY <2>1, <2>2
<1>3. PICK e \in Event : Raise(e) /\ e.id = "WRITE" /\ e.value = cccd'
  BY <1>1, Events, RequestFields DEF SubscriptionResumed, Subscribe, TypeOK
<1>4. /\ Len(evtq) \in Nat /\ Len(evtq') = Len(evtq) + 1
      /\ \A i \in 1 .. Len(evtq) : evtq'[i] = evtq[i]
      /\ evtq'[Len(evtq) + 1] = e
  BY <1>1, <1>3, RaisedQueue
<1>5. LinkShape'
  BY <1>2 DEF LinkShape
<1>6. QueueShape'
  BY <1>2, <1>3, <1>4 DEF IInv, QueueShape
<1>7. LastWriteCounts'
  BY <1>2, <1>3, <1>4 DEF IInv, LastWriteCounts
<1>8. SubscriptionKnown'
  BY <1>3, <1>4 DEF SubscriptionKnown
<1> QED
  BY <1>1, <1>5, <1>6, <1>7, <1>8 DEF IInv

\* The dispatch of an event that is no write and gives no system attributes.
LEMMA DispatchIInv ==
    IInv /\ (OnCommand \/ OnDisconnected \/ OnOther) => IInv'
<1> SUFFICES ASSUME IInv, OnCommand \/ OnDisconnected \/ OnOther PROVE IInv'
  OBVIOUS
<1> USE DEF At
<1>0. LinkShape /\ QueueShape /\ LastWriteCounts /\ SubscriptionKnown
  BY DEF IInv
<1>1. TypeOK /\ TypeOK' /\ RequestQueued'
  BY TypeStep, RequestQueuedStep DEF IInv, Next, Dispatch
<1>2. PICK id : Pull(id) /\ id # "WRITE"
                  /\ (req' = req \/ id = "RW_AUTHORIZE_REQUEST")
  BY DEF OnCommand, OnDisconnected, OnOther, gattVars
<1>3. /\ Len(evtq) \in Nat \ {0} /\ Len(evtq') = Len(evtq) - 1
      /\ \A i \in 1 .. Len(evtq') : evtq'[i] = evtq[i + 1]
      /\ evtq[1].id = id
  BY <1>1, <1>2, PulledQueue
<1>4. UNCHANGED <<link, cccd, isHVXEnabled>>
  BY DEF OnCommand, OnDisconnected, OnOther, Pull, gattVars, appVars
<1>5. LinkShape'
  <2>1. ~link => UNCHANGED <<req, ind>>
    BY DEF OnCommand, OnDisconnected, OnOther, gattVars
  <2>2. ~adv
    BY <1>3 DEF IInv, LinkShape
  <2>3. adv' => id = "DISCONNECTED"
    BY <1>3, <2>2, <1>2, PulledQueue, <1>1 DEF OnCommand, OnDisconnected, OnOther
  <2>4. adv' => ~link /\ Len(evtq) = 1
    BY <1>0, <1>3, <2>3 DEF QueueShape
  <2>5. adv' => evtq' = <<>>
    BY <1>1, <1>3, <2>4, EmptySeq DEF TypeOK
  <2> QED
    BY <1>4, <2>1, <2>4, <2>5 DEF IInv, LinkShape
<1>6. QueueShape'
  <2>1. link /\ id = "RW_AUTHORIZE_REQUEST" =>
          /\ req.kind = "command"
          /\ \A i \in 2 .. Len(evtq) : ~At(i, "RW_AUTHORIZE_REQUEST")
    BY <1>0, <1>3 DEF QueueShape
  <2>2. link /\ id = "RW_AUTHORIZE_REQUEST" =>
          \A i \in 1 .. Len(evtq) : ~At(i, "SYS_ATTR_MISSING")
    BY <1>0, <2>1 DEF QueueShape
  <2> QED
    BY <1>0, <1>2, <1>3, <1>4, <2>1, <2>2 DEF QueueShape
<1>7. LastWriteCounts'
  <2> SUFFICES ASSUME link', NEW i \in 1 .. Len(evtq'), At(i, "WRITE")'
               PROVE  /\ cccd' # "unset"
                      /\ (\A j \in i + 1 .. Len(evtq) : ~At(j, "WRITE"))' =>
                            evtq'[i].value = cccd'
    BY DEF LastWriteCounts
  <2>1. /\ i + 1 \in 1 .. Len(evtq) /\ At(i + 1, "WRITE")
        /\ evtq'[i] = evtq[i + 1]
    BY <1>3
  <2>2. (\A j \in i + 1 .. Len(evtq) : ~At(j, "WRITE"))' =>
           \A j \in i + 2 .. Len(evtq) : ~At(j, "WRITE")
    <3> SUFFICES ASSUME (\A j \in i + 1 .. Len(evtq) : ~At(j, "WRITE"))',
                        NEW j \in i + 2 .. Len(evtq), At(j, "WRITE")
                 PROVE FALSE
      OBVIOUS
    <3>1. /\ j - 1 \in i + 1 .. Len(evtq') /\ evtq'[j - 1] = evtq[j]
      BY <1>3
    <3> QED
      BY <1>3, <3>1
  <2> QED
    BY <1>0, <1>4, <2>1, <2>2 DEF LastWriteCounts
<1>8. SubscriptionKnown'
  <2>1. (\A i \in 1 .. Len(evtq') : ~At(i, "WRITE")') =>
          \A i \in 1 .. Len(evtq) : ~At(i, "WRITE")
    <3> SUFFICES ASSUME \A i \in 1 .. Len(evtq') : ~At(i, "WRITE")',
                        NEW i \in 1 .. Len(evtq), At(i, "WRITE")
                 PROVE FALSE
      OBVIOUS
    <3>1. i # 1
      BY <1>2, <1>3
    <3>2. i - 1 \in 1 .. Len(evtq') /\ evtq'[i - 1] = evtq[i]
      BY <1>3, <3>1
    <3> QED
      BY <3>2
  <2> QED
    BY <1>4, <2>1 DEF IInv, SubscriptionKnown
<1> QED
  BY <1>1, <1>5, <1>6, <1>7, <1>8 DEF IInv

LEMMA OnWriteIInv == IInv /\ OnWrite => IInv'
<1> SUFFICES ASSUME IInv, OnWrite PROVE IInv'
  OBVIOUS
<1> USE DEF At
<1>0. LinkShape /\ QueueShape /\ LastWriteCounts /\ SubscriptionKnown
  BY DEF IInv
<1>1. TypeOK /\ TypeOK' /\ RequestQueued'
  BY TypeStep, RequestQueuedStep DEF IInv, Next, Dispatch
<1>2. /\ Pull("WRITE") /\ UNCHANGED <<adv, link, gattVars>>
      /\ isHVXEnabled' = (Head(evtq).value = "on")
  BY DEF OnWrite, Pull
<1>3. /\ Len(evtq) \in Nat \ {0} /\ Len(evtq') = Len(evtq) - 1
      /\ \A i \in 1 .. Len(evtq') : evtq'[i] = evtq[i + 1]
      /\ evtq[1].id = "WRITE" /\ Head(evtq) = evtq[1]
  BY <1>1, <1>2, PulledQueue
<1>4. LinkShape'
  BY <1>2, <1>3 DEF IInv, LinkShape, gattVars
<1>5. QueueShape'
  BY <1>0, <1>2, <1>3 DEF QueueShape, gattVars
<1>6. LastWriteCounts'
  <2> SUFFICES ASSUME link', NEW i \in 1 .. Len(evtq'), At(i, "WRITE")'
               PROVE  /\ cccd' # "unset"
                      /\ (\A j \in i + 1 .. Len(evtq) : ~At(j, "WRITE"))' =>
                            evtq'[i].value = cccd'
    BY DEF LastWriteCounts
  <2>1. /\ i + 1 \in 1 .. Len(evtq) /\ At(i + 1, "WRITE")
        /\ evtq'[i] = evtq[i + 1]
    BY <1>3
  <2>2. (\A j \in i + 1 .. Len(evtq) : ~At(j, "WRITE"))' =>
           \A j \in i + 2 .. Len(evtq) : ~At(j, "WRITE")
    <3> SUFFICES ASSUME (\A j \in i + 1 .. Len(evtq) : ~At(j, "WRITE"))',
                        NEW j \in i + 2 .. Len(evtq), At(j, "WRITE")
                 PROVE FALSE
      OBVIOUS
    <3>1. /\ j - 1 \in i + 1 .. Len(evtq') /\ evtq'[j - 1] = evtq[j]
      BY <1>3
    <3> QED
      BY <1>3, <3>1
  <2> QED
    BY <1>0, <1>2, <2>1, <2>2 DEF LastWriteCounts, gattVars
<1>7. SubscriptionKnown'
  <2> SUFFICES ASSUME link', cccd' = "on",
                      (\A i \in 1 .. Len(evtq) : ~At(i, "WRITE"))'
               PROVE  isHVXEnabled'
    BY DEF SubscriptionKnown
  <2>1. \A j \in 2 .. Len(evtq) : ~At(j, "WRITE")
    <3> SUFFICES ASSUME NEW j \in 2 .. Len(evtq), At(j, "WRITE")
                 PROVE FALSE
      OBVIOUS
    <3>1. j - 1 \in 1 .. Len(evtq') /\ evtq'[j - 1] = evtq[j]
      BY <1>3
    <3> QED
      BY <3>1
  <2>2. evtq[1].value = cccd
    BY <1>0, <1>2, <1>3, <2>1 DEF LastWriteCounts
  <2> QED
    BY <1>2, <1>3, <2>2 DEF gattVars
<1> QED
  BY <1>1, <1>4, <1>5, <1>6, <1>7 DEF IInv

LEMMA OnSysAttrMissingIInv == IInv /\ OnSysAttrMissing => IInv'
<1> SUFFICES ASSUME IInv, OnSysAttrMissing PROVE IInv'
  OBVIOUS
<1> USE DEF At
<1>0. LinkShape /\ QueueShape /\ LastWriteCounts /\ SubscriptionKnown
  BY DEF IInv
<1>1. TypeOK /\ TypeOK' /\ RequestQueued'
  BY TypeStep, RequestQueuedStep DEF IInv, Next, Dispatch
<1>2. /\ Pull("SYS_ATTR_MISSING") /\ UNCHANGED <<adv, link, req, ind, isHVXEnabled>>
      /\ cccd' = IF link THEN "off" ELSE cccd
  BY DEF OnSysAttrMissing, Pull, appVars
<1>3. /\ Len(evtq) \in Nat \ {0} /\ Len(evtq') = Len(evtq) - 1
      /\ \A i \in 1 .. Len(evtq') : evtq'[i] = evtq[i + 1]
      /\ evtq[1].id = "SYS_ATTR_MISSING"
  BY <1>1, <1>2, PulledQueue
<1>4. link => /\ cccd = "unset" /\ req.kind = "subscribe"
              /\ \A i \in 2 .. Len(evtq) : ~At(i, "SYS_ATTR_MISSING")
  BY <1>0, <1>3 DEF QueueShape
<1>5. LinkShape'
  BY <1>2, <1>3 DEF IInv, LinkShape
<1>6. QueueShape'
  BY <1>0, <1>2, <1>3, <1>4 DEF QueueShape
<1>7. LastWriteCounts'
  <2>1. link => \A i \in 1 .. Len(evtq) : ~At(i, "WRITE")
    BY <1>0, <1>4 DEF LastWriteCounts
  <2> QED
    BY <1>0, <1>2, <1>3, <2>1 DEF LastWriteCounts
<1>8. SubscriptionKnown'
  BY <1>2 DEF IInv, SubscriptionKnown
<1> QED
  BY <1>1, <1>5, <1>6, <1>7, <1>8 DEF IInv

LEMMA NextIInv == IInv /\ [Next]_vars => IInv'
<1> SUFFICES ASSUME IInv, [Next]_vars PROVE IInv'
  OBVIOUS
<1>1. CASE Environment
  BY <1>1, ConnectIInv, LinkGoneIInv, RequestIInv, WriteIInv DEF Environment
<1>2. CASE SubscriptionResumed
  BY <1>2, WriteIInv
<1>3. CASE Dispatch
  BY <1>3, DispatchIInv, OnWriteIInv, OnSysAttrMissingIInv DEF Dispatch
<1>4. CASE UNCHANGED vars
  BY <1>4
     DEF vars, gattVars, appVars, IInv, TypeOK, LinkShape, QueueShape,
         LastWriteCounts, SubscriptionKnown, RequestQueued, At
<1> QED
  BY <1>1, <1>2, <1>3, <1>4 DEF Next

-----------------------------------------------------------------------------

\* The inductive invariant holds: how the queued events relate to the link, the
\* descriptor and the request, for any number of queued events.
THEOREM TrsInvariant == Spec => []IInv
BY InitIInv, NextIInv, PTL DEF Spec

\* isHVXEnabled is set when the connected central has indications on and all
\* its writes of the descriptor were dispatched.
THEOREM TrsSubscription == Spec => []SubscriptionKnown
<1>1. IInv => SubscriptionKnown
  BY DEF IInv
<1> QED
  BY <1>1, TrsInvariant, PTL

\* The event that answers the request of the central is queued as long as the
\* central waits: a command or a first write of the descriptor that got no
\* response can only be one that is still to be dispatched.
THEOREM TrsRequest == Spec => []RequestQueued
<1>1. IInv => RequestQueued
  BY DEF IInv
<1> QED
  BY <1>1, TrsInvariant, PTL

\* Nothing is moved on behalf of a central that is gone.
THEOREM TrsGoneCentral == Spec => GoneCentralMovesNothing
<1>1. [Next]_vars => [<<motor, rxBuf>>' # <<motor, rxBuf>> => link]_vars
  BY DEF Next, Environment, Dispatch, Connect, AdvertisingTimesOut, LinkLost,
         Subscribe, WriteCommand, WriteLong, Confirm, ConfirmTimesOut, Raise,
         SubscriptionResumed, OnCommand, OnWrite, OnSysAttrMissing,
         OnDisconnected, OnOther, appVars, vars
<1> QED
  BY <1>1, PTL DEF Spec, GoneCentralMovesNothing

\* A command is answered by an indication whenever the stack takes one.
THEOREM TrsAnswer == Spec => AnswerGetsThrough
<1>1. IInv /\ [Next]_vars => [Answered]_vars
  <2> SUFFICES ASSUME IInv, Next, req.kind = "command", req' = NoRequest,
                      link', cccd = "on", ind = "none"
               PROVE  ind' = "sent"
    BY DEF Answered, vars
  <2>1. req' # req
    BY Requests
  <2>2. OnCommand
    BY <2>1, Requests
       DEF Next, Environment, Dispatch, Connect, AdvertisingTimesOut, LinkLost,
           Subscribe, WriteCommand, WriteLong, Confirm, ConfirmTimesOut,
           CanRequest, SubscriptionResumed, OnWrite, OnSysAttrMissing,
           OnDisconnected, OnOther, gattVars
  <2>3. link /\ Pull("RW_AUTHORIZE_REQUEST") /\ RxHandler
    BY <2>1, <2>2 DEF OnCommand
  <2>4. At(1, "RW_AUTHORIZE_REQUEST") /\ 1 \in 1 .. Len(evtq) /\ Len(evtq) \in Nat
    BY <2>3, PulledQueue DEF IInv, At
  <2>5. \A j \in 1 .. Len(evtq) : ~At(j, "WRITE")
    BY <2>3, <2>4 DEF IInv, QueueShape, At
  <2>6. isHVXEnabled
    BY <2>3, <2>5 DEF IInv, SubscriptionKnown
  <2> QED
    BY <2>3, <2>6 DEF RxHandler, Transmit, HvxAccepted
<1> QED
  BY <1>1, TrsInvariant, PTL DEF Spec, AnswerGetsThrough
=============================================================================
