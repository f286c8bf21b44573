---------------------------- MODULE Esp12Proofs ----------------------------
(***************************************************************************)
(* Proofs about Esp12: IInv is an invariant, the boot leaves a phase only  *)
(* when every command of the phase was answered, and the engine implements *)
(* a queue of commands.                                                    *)
(***************************************************************************)
EXTENDS Esp12, TLAPS

\* What a phase queues is commands, and it leads to another state.
LEMMA PhaseShape ==
    ASSUME NEW s \in DOMAIN Phase
    PROVE  /\ Phase[s] \in Seq(Cmd)
           /\ s \in BootState /\ Successor[s] \in BootState \ {"w", "r", s}
  <1>0. s \in {"i", "c", "p", "s"}
    BY DEF Phase
  <1>1. s \in BootState /\ Successor[s] \in BootState \ {"w", "r", s}
    BY <1>0 DEF Successor, BootState
  <1>2. CASE s = "i"
    <2> Phase[s] = <<"AYT">>
      BY <1>2 DEF Phase
    <2> QED
      BY <1>1, EspCmdAssumption DEF EspCmd
  <1>3. CASE s = "c"
    <2> Phase[s] = <<"NO_ECHO", "WIFI_MODE", "EN_MULTIPLE_CONN">>
      BY <1>3 DEF Phase
    <2> QED
      BY <1>1, EspCmdAssumption DEF EspCmd
  <1>4. CASE s = "p"
    <2> Phase[s] = <<"JOIN_AP", "GET_LOCAL_IP", "START_TCP_SERVER">>
      BY <1>4 DEF Phase
    <2> QED
      BY <1>1, EspCmdAssumption DEF EspCmd
  <1>5. CASE s = "s"
    <2> Phase[s] = <<>>
      BY <1>5 DEF Phase
    <2> QED
      BY <1>1
  <1> QED
    BY <1>0, <1>2, <1>3, <1>4, <1>5

\* The module says words.
LEMMA ReplyShape == ASSUME NEW message PROVE Reply(message) \subseteq Word
  BY Zenon DEF Reply, Word

\* What was in a queue is in it when more has been added.
LEMMA QueuedStays ==
    ASSUME NEW S, NEW q \in Seq(S), NEW r \in Seq(S), NEW i \in DOMAIN q
    PROVE  /\ q \o r \in Seq(S)
           /\ i \in DOMAIN (q \o r) /\ (q \o r)[i] = q[i]
  OBVIOUS

\* What is added to a queue is in it.
LEMMA QueuedArrives ==
    ASSUME NEW S, NEW q \in Seq(S), NEW r \in Seq(S), NEW i \in DOMAIN r
    PROVE  \E j \in DOMAIN (q \o r) : (q \o r)[j] = r[i]
  <1>1. Len(q) + i \in DOMAIN (q \o r) /\ (q \o r)[Len(q) + i] = r[i]
    OBVIOUS
  <1> QED
    BY <1>1

\* Taking the first element of a queue leaves the others.
LEMMA QueuedBehind ==
    ASSUME NEW S, NEW q \in Seq(S), q # <<>>, NEW i \in DOMAIN q
    PROVE  /\ Tail(q) \in Seq(S) /\ Head(q) \in S
           /\ q[i] = Head(q) \/ \E j \in DOMAIN Tail(q) : Tail(q)[j] = q[i]
  <1>1. CASE i = 1
    BY <1>1
  <1>2. CASE i # 1
    <2>1. i - 1 \in DOMAIN Tail(q) /\ Tail(q)[i - 1] = q[i]
      BY <1>2
    <2> QED
      BY <2>1
  <1> QED
    BY <1>1, <1>2

-----------------------------------------------------------------------------
\* The boot keeps waiting: it is enough that no command gets lost, or that
\* there is an error.
LEMMA WaitKept ==
    /\ WaitShape /\ UNCHANGED bootVars
    /\ \/ hasErr'
       \/ ~hasErr /\ \A k \in Cmd : AnsweredOrWaiting(k) => AnsweredOrWaiting(k)'
    => WaitShape'
  <1> SUFFICES ASSUME WaitShape, UNCHANGED bootVars, boot = "w",
                      \/ hasErr'
                      \/ /\ ~hasErr
                         /\ \A k \in Cmd : AnsweredOrWaiting(k) => AnsweredOrWaiting(k)'
               PROVE  WaitShape'
    BY DEF WaitShape, bootVars
  <1>1. prevState \in DOMAIN Phase /\ prevState' = prevState
        /\ nextState' = Successor[prevState]
    BY DEF WaitShape, bootVars
  <1>2. ASSUME ~hasErr', NEW k \in Cmd, NEW i \in DOMAIN Phase[prevState],
               k = Phase[prevState][i]
        PROVE  AnsweredOrWaiting(k)'
    BY <1>2 DEF WaitShape
  <1>3. \A i \in DOMAIN Phase[prevState] : Phase[prevState][i] \in Cmd
    BY <1>1, PhaseShape
  <1>4. ~hasErr' => \A i \in DOMAIN Phase[prevState'] :
                       AnsweredOrWaiting(Phase[prevState][i])'
    BY <1>1, <1>2, <1>3
  <1> QED
    BY <1>1, <1>4 DEF WaitShape

LEMMA InvInit == Init => WaitInv
  <1> SUFFICES ASSUME Init PROVE WaitInv
    OBVIOUS
  <1> USE DEF Init, EngineInit
  <1>1. inBuf \in Seq(Entry)
    BY EspCmdAssumption DEF Entry, Command, EspCmd
  <1>2. EngineTypeOK
    BY <1>1 DEF EngineTypeOK, ATState
  <1>3. tries \in -1 .. MAX_TRIES /\ talk \in 0 .. MaxTalk
    BY TriesAssumption, BoundAssumption
  <1>4. pending \in Seq(Message) /\ Len(pending) <= MaxPending
    BY BoundAssumption
  <1>5. TypeOK
    BY <1>2, <1>3, <1>4 DEF TypeOK, BootState
  <1> QED
    BY <1>5, TriesAssumption DEF WaitInv, CommandKnown, WaitShape, TriesShape, ErrorKnown

-----------------------------------------------------------------------------
(* esp_boot_settings *)

LEMMA StartPhaseKeeps == WaitInv /\ StartPhase => WaitInv'
  <1> SUFFICES ASSUME WaitInv, StartPhase PROVE WaitInv'
    OBVIOUS
  <1> DEFINE more == [i \in DOMAIN Phase[boot] |-> Command(Phase[boot][i])]
  <1>1. boot \in DOMAIN Phase /\ inBuf' = inBuf \o more
    BY DEF StartPhase, QueueCmds
  <1>2. Phase[boot] \in Seq(Cmd) /\ boot \in BootState /\ Successor[boot] \in BootState
    BY <1>1, PhaseShape
  <1>3. more \in Seq(Entry)
    BY <1>2 DEF Entry, Command
  <1>4. inBuf \in Seq(Entry) /\ inBuf' \in Seq(Entry)
    BY <1>1, <1>3 DEF WaitInv, TypeOK, EngineTypeOK
  <1>5. TypeOK'
    BY <1>2, <1>4 DEF WaitInv, StartPhase, Configure, TypeOK, EngineTypeOK, BootState,
                      sentVars, timeVars, moduleVars
  <1>6. ASSUME NEW i \in DOMAIN Phase[boot], NEW k \in Cmd, k = Phase[boot][i]
        PROVE  AnsweredOrWaiting(k)'
    <2>1. i \in DOMAIN more /\ more[i] = Command(k)
      BY <1>6
    <2>2. \E j \in DOMAIN (inBuf \o more) : (inBuf \o more)[j] = more[i]
      <3> HIDE DEF more
      <3> QED
        BY <1>3, <1>4, <2>1, QueuedArrives
    <2> QED
      BY <1>1, <2>1, <2>2 DEF AnsweredOrWaiting, Queued, Command
  <1>7. WaitShape'
    <2>1. prevState' = boot /\ nextState' = Successor[boot]
      BY DEF StartPhase
    <2>2. \A i \in DOMAIN Phase[prevState'] :
            \A k \in Cmd : k = Phase[prevState'][i] => AnsweredOrWaiting(k)'
      BY <1>6, <2>1
    <2>3. \A i \in DOMAIN Phase[prevState'] : Phase[prevState'][i] \in Cmd
      BY <1>2, <2>1
    <2> QED
      BY <1>1, <2>1, <2>2, <2>3 DEF WaitShape
  <1> QED
    BY <1>5, <1>7 DEF WaitInv, StartPhase, CommandKnown, TriesShape, ErrorKnown, sentVars,
                      Phase

LEMMA IdleConfigureKeeps == WaitInv /\ (Operate \/ WaitOn) => WaitInv'
  <1> SUFFICES ASSUME WaitInv, Operate \/ WaitOn PROVE WaitInv'
    OBVIOUS
  <1>1. UNCHANGED <<engineVars, bootVars, isServerUp, moduleVars, done>> /\ turn' = "update"
    BY DEF Operate, WaitOn, Configure
  <1>2. TypeOK'
    BY <1>1 DEF WaitInv, TypeOK, EngineTypeOK, engineVars, sentVars, timeVars, bootVars,
                moduleVars
  <1>3. WaitShape'
    BY <1>1 DEF WaitInv, WaitShape, AnsweredOrWaiting, Queued, Sent, engineVars, sentVars,
                bootVars
  <1> QED
    BY <1>1, <1>2, <1>3 DEF WaitInv, CommandKnown, TriesShape, ErrorKnown, engineVars,
                            sentVars, bootVars

LEMMA PhaseEndsKeeps == WaitInv /\ PhaseEnds => WaitInv'
  <1> SUFFICES ASSUME WaitInv, PhaseEnds PROVE WaitInv'
    OBVIOUS
  <1>1. boot' \in BootState \ {"w", "r"}
    BY PhaseShape DEF WaitInv, PhaseEnds, WaitShape
  <1>2. TypeOK'
    BY <1>1, TriesAssumption DEF WaitInv, PhaseEnds, Configure, TypeOK, EngineTypeOK,
       engineVars, sentVars, timeVars, moduleVars
  <1> QED
    BY <1>1, <1>2, TriesAssumption DEF WaitInv, PhaseEnds, CommandKnown, WaitShape,
       TriesShape, ErrorKnown, engineVars, sentVars

LEMMA ResetShape ==
    EngineTypeOK /\ ResetEngine /\ hasErr' = FALSE /\ UNCHANGED <<dataOrCmd, accept, rx>>
      => EngineTypeOK'
  <1> SUFFICES ASSUME EngineTypeOK, ResetEngine, hasErr' = FALSE,
                      UNCHANGED <<dataOrCmd, accept, rx>>
               PROVE  EngineTypeOK'
    OBVIOUS
  <1>1. inBuf' \in Seq(Entry)
    BY DEF ResetEngine
  <1>2. resp' \subseteq Word /\ rx' \subseteq Word
    BY DEF ResetEngine, EngineTypeOK
  <1> QED
    BY <1>1, <1>2 DEF ResetEngine, EngineTypeOK, ATState

LEMMA RetryKeeps == WaitInv /\ Retry => WaitInv'
  <1> SUFFICES ASSUME WaitInv, Retry PROVE WaitInv'
    OBVIOUS
  <1>1. prevState \in BootState \ {"w"}
    BY DEF WaitInv, Retry, WaitShape, Phase, BootState
  <1>2. tries \in 0 .. MAX_TRIES /\ tries' = tries - 1
        /\ boot' = IF tries # 0 THEN prevState ELSE "r"
    BY TriesAssumption DEF WaitInv, TypeOK, TriesShape, Retry
  <1>3. TypeOK'
    <2>1. EngineTypeOK'
      BY ResetShape DEF WaitInv, Retry, TypeOK
    <2>2. boot' \in BootState /\ tries' \in -1 .. MAX_TRIES
      BY <1>1, <1>2, TriesAssumption DEF BootState
    <2> QED
      BY <2>1, <2>2 DEF WaitInv, Retry, Configure, TypeOK, moduleVars
  <1>4. boot' # "w" /\ (boot' # "r" => tries' >= 0)
    BY <1>1, <1>2, TriesAssumption
  <1> QED
    BY <1>3, <1>4 DEF WaitInv, Retry, ResetEngine, CommandKnown, WaitShape, TriesShape,
                      ErrorKnown

LEMMA HardResetKeeps == WaitInv /\ HardReset => WaitInv'
  <1> SUFFICES ASSUME WaitInv, HardReset PROVE WaitInv'
    OBVIOUS
  <1>1. TypeOK'
    <2>1. EngineTypeOK'
      BY ResetShape DEF WaitInv, HardReset, TypeOK
    <2>2. pending' \in Seq(Message) /\ Len(pending') <= MaxPending
      <3>1. CASE MaxPending > 0
        <4>1. pending' = <<"boot">>
          BY <3>1 DEF HardReset
        <4> QED
          BY <3>1, <4>1, BoundAssumption DEF Message
      <3>2. CASE ~(MaxPending > 0)
        <4>1. pending' = <<>>
          BY <3>2 DEF HardReset
        <4> QED
          BY <4>1, BoundAssumption
      <3> QED
        BY <3>1, <3>2
    <2>3. tries' \in -1 .. MAX_TRIES
      BY TriesAssumption DEF HardReset
    <2> QED
      BY <2>1, <2>2, <2>3 DEF WaitInv, HardReset, Configure, TypeOK, BootState
  <1> QED
    BY <1>1, TriesAssumption DEF WaitInv, HardReset, ResetEngine, CommandKnown, WaitShape,
                                 TriesShape, ErrorKnown
-----------------------------------------------------------------------------
(* updateEngine *)

LEMMA DoSendKeeps == WaitInv /\ DoSend => WaitInv'
  <1> SUFFICES ASSUME WaitInv, DoSend PROVE WaitInv'
    OBVIOUS
  <1>1. PICK i \in DOMAIN inBuf : Send(inBuf[i]) /\ pending' = Received(inBuf[i])
    BY DEF DoSend
  <1> DEFINE entry == inBuf[i]
  <1>2. inBuf \in Seq(Entry) /\ inBuf # <<>> /\ entry = Head(inBuf) /\ inBuf' = Tail(inBuf)
    BY <1>1 DEF Send, WaitInv, TypeOK, EngineTypeOK
  <1>3. inBuf' \in Seq(Entry) /\ entry \in Entry
    BY <1>2, QueuedBehind
  <1>4. \/ entry.type = "c" /\ entry.ndx \in Cmd /\ entry = Command(entry.ndx)
        \/ entry.type = "d"
    BY <1>3 DEF Entry, Command
  <1> HIDE DEF entry
  <1>5. /\ state' = "AT_RESPONSE" /\ dataOrCmd' = entry.type
        /\ cmdNdx' = IF entry.type = "c" THEN entry.ndx ELSE cmdNdx
        /\ pending' = Received(entry)
    BY <1>1 DEF Send, entry
  <1>6. UNCHANGED <<hasErr, bootVars, talk, listening, dataPtr, accept, isServerUp, done>>
        /\ late' = FALSE /\ turn' = "configure" /\ Fill
    BY <1>1 DEF Send, DoSend, Update
  <1>7. EngineTypeOK'
    <2>1. dataOrCmd' \in {"none", "c", "d"} /\ cmdNdx' \in Cmd \cup {NoCmd}
      BY <1>4, <1>5 DEF WaitInv, TypeOK, EngineTypeOK
    <2> QED
      BY <1>3, <1>5, <1>6, <2>1
         DEF WaitInv, TypeOK, EngineTypeOK, ATState, Fill, Filled, IsQuiet
  <1>8. pending' \in Seq(Message) /\ Len(pending') <= MaxPending
    <2>1. pending \in Seq(Message) /\ Len(pending) <= MaxPending
      BY DEF WaitInv, TypeOK
    <2> DEFINE message == IF entry.type = "c" THEN entry.ndx ELSE "data"
    <2>2. message \in Message
      BY <1>4 DEF Message
    <2>3. \/ pending' = Append(pending, message) /\ Len(pending) < MaxPending
          \/ pending' = pending
      BY <1>5 DEF Received
    <2> HIDE DEF message
    <2> QED
      BY <2>1, <2>2, <2>3, BoundAssumption
  <1>9. TypeOK'
    BY <1>6, <1>7, <1>8 DEF WaitInv, TypeOK, bootVars
  <1>10. ASSUME NEW k \in Cmd, AnsweredOrWaiting(k) PROVE AnsweredOrWaiting(k)'
    <2>1. CASE k \in done
      BY <1>6, <2>1 DEF AnsweredOrWaiting
    <2>2. CASE Queued(k)
      <3>1. PICK j \in DOMAIN inBuf : inBuf[j] = Command(k)
        BY <2>2 DEF Queued
      <3>2. entry = Command(k) \/ \E m \in DOMAIN inBuf' : inBuf'[m] = Command(k)
        BY <1>2, <3>1, QueuedBehind
      <3>3. CASE entry = Command(k)
        BY <1>5, <3>3 DEF Command, AnsweredOrWaiting, Sent
      <3> QED
        BY <3>2, <3>3 DEF AnsweredOrWaiting, Queued, Command
    <2>3. CASE Sent(k)
      BY <1>1, <2>3 DEF Sent, Send
    <2> QED
      BY <1>10, <2>1, <2>2, <2>3 DEF AnsweredOrWaiting
  <1>11. WaitShape'
    <2>1. hasErr' \/ ~hasErr
      BY <1>6 DEF WaitInv, TypeOK, EngineTypeOK
    <2> QED
      BY <1>6, <1>10, <2>1, WaitKept DEF WaitInv
  <1>12. CommandKnown'
    BY <1>4, <1>5 DEF CommandKnown
  <1> QED
    BY <1>5, <1>6, <1>9, <1>11, <1>12 DEF WaitInv, TriesShape, ErrorKnown, bootVars

\* What the engine reads keeps its type, and the boot its variables.
LEMMA UpdateShape ==
    ASSUME WaitInv, Update, Fill \/ FillAndClear
    PROVE  /\ resp' \subseteq Word /\ rx' \subseteq Word /\ quiet' \in BOOLEAN
           /\ turn' \in {"configure", "update"}
           /\ UNCHANGED <<bootVars, talk, listening>>
  BY DEF WaitInv, TypeOK, EngineTypeOK, Update, Fill, FillAndClear, Filled, IsQuiet

LEMMA LookAfterDataKeeps == WaitInv /\ LookAfterData => WaitInv'
  <1> SUFFICES ASSUME WaitInv, LookAfterData PROVE WaitInv'
    OBVIOUS
  <1>1. /\ UNCHANGED <<hasErr, inBuf, sentVars, dataPtr, late>>
        /\ UNCHANGED <<accept, isServerUp, pending, done>>
        /\ state = "AT_RESPONSE" /\ dataOrCmd = "d" /\ Update /\ Fill
        /\ state' \in {"AT_CLEAN_UP", "AT_RESPONSE"}
    BY DEF LookAfterData, Look
  <1>2. TypeOK' /\ UNCHANGED bootVars
    BY <1>1, UpdateShape DEF WaitInv, TypeOK, EngineTypeOK, ATState, sentVars, bootVars
  <1>3. \A k \in Cmd : AnsweredOrWaiting(k) => AnsweredOrWaiting(k)'
    BY <1>1 DEF AnsweredOrWaiting, Queued, Sent, sentVars, Command
  <1>4. WaitShape'
    BY <1>1, <1>2, <1>3, WaitKept DEF WaitInv, TypeOK, EngineTypeOK
  <1> QED
    BY <1>1, <1>2, <1>4 DEF WaitInv, CommandKnown, TriesShape, ErrorKnown, sentVars, bootVars

LEMMA LookAfterCommandKeeps == WaitInv /\ LookAfterCommand => WaitInv'
  <1> SUFFICES ASSUME WaitInv, LookAfterCommand PROVE WaitInv'
    OBVIOUS
  <1> DEFINE found == Contains(Expected(cmdNdx))
  <1>1. /\ UNCHANGED <<hasErr, inBuf, sentVars, dataPtr, late, pending>>
        /\ state = "AT_RESPONSE" /\ dataOrCmd = "c" /\ Update /\ Fill
        /\ state' = IF found THEN "AT_CLEAN_UP" ELSE "AT_RESPONSE"
        /\ done' = IF found THEN done \cup {cmdNdx} ELSE done
    BY DEF LookAfterCommand, Look
  <1>2. accept' \in BOOLEAN /\ isServerUp' \in BOOLEAN
    BY DEF LookAfterCommand
  <1> HIDE DEF found
  <1>3. cmdNdx \in Cmd
    BY <1>1 DEF WaitInv, CommandKnown
  <1>4. TypeOK' /\ UNCHANGED bootVars
    BY <1>1, <1>2, <1>3, UpdateShape
       DEF WaitInv, TypeOK, EngineTypeOK, ATState, sentVars, bootVars
  <1>5. \A k \in Cmd : AnsweredOrWaiting(k) => AnsweredOrWaiting(k)'
    BY <1>1 DEF AnsweredOrWaiting, Queued, Sent, sentVars, Command
  <1>6. WaitShape'
    BY <1>1, <1>4, <1>5, WaitKept DEF WaitInv, TypeOK, EngineTypeOK
  <1> QED
    BY <1>1, <1>3, <1>4, <1>6
       DEF WaitInv, CommandKnown, TriesShape, ErrorKnown, sentVars, bootVars

LEMMA DoOverheardKeeps == WaitInv /\ DoOverheard => WaitInv'
  <1> SUFFICES ASSUME WaitInv, DoOverheard PROVE WaitInv'
    OBVIOUS
  <1> DEFINE send == Command("SEND_DATA")
             close == Command("TCP_CLOSE")
             answer == IF dataPtr THEN <<send, close>> ELSE <<send, Data, close>>
  <1>1. /\ UNCHANGED <<hasErr, sentVars, accept, late, pending, done>>
        /\ state = "AT_UNSOLICITED" /\ state' = "AT_CLEAN_UP" /\ Update /\ Fill
    BY DEF DoOverheard, Overheard
  <1>2. isServerUp' \in BOOLEAN
    BY DEF DoOverheard, Handler
  <1>3. \/ inBuf' = inBuf \o answer /\ dataPtr' = TRUE
        \/ UNCHANGED <<inBuf, dataPtr>>
    BY DEF DoOverheard, Handler, QueueAnswer
  <1>4. inBuf \in Seq(Entry) /\ answer \in Seq(Entry)
    <2>1. send \in Entry /\ close \in Entry /\ Data \in Entry
      BY EspCmdAssumption DEF Entry, Command, Data, EspCmd
    <2> HIDE DEF send, close
    <2>2. answer \in Seq(Entry)
      BY <2>1
    <2> QED
      BY <2>2 DEF WaitInv, TypeOK, EngineTypeOK
  <1> HIDE DEF answer
  <1>5. inBuf' \in Seq(Entry) /\ dataPtr' \in BOOLEAN
    <2>1. inBuf \o answer \in Seq(Entry) /\ dataPtr \in BOOLEAN
      BY <1>4 DEF WaitInv, TypeOK, EngineTypeOK
    <2> QED
      BY <1>3, <1>4, <2>1
  <1>6. TypeOK' /\ UNCHANGED bootVars
    BY <1>1, <1>2, <1>5, UpdateShape
       DEF WaitInv, TypeOK, EngineTypeOK, ATState, sentVars, bootVars
  <1>7. ASSUME NEW k \in Cmd, AnsweredOrWaiting(k) PROVE AnsweredOrWaiting(k)'
    <2>1. CASE Queued(k)
      <3>1. PICK i \in DOMAIN inBuf : inBuf[i] = Command(k)
        BY <2>1 DEF Queued
      <3>2. i \in DOMAIN inBuf' /\ inBuf'[i] = Command(k)
        BY <1>3, <1>4, <3>1, QueuedStays
      <3> QED
        BY <3>2 DEF AnsweredOrWaiting, Queued, Command
    <2> QED
      BY <1>1, <1>7, <2>1 DEF AnsweredOrWaiting, Sent
  <1>8. WaitShape'
    BY <1>1, <1>6, <1>7, WaitKept DEF WaitInv, TypeOK, EngineTypeOK
  <1> QED
    BY <1>1, <1>6, <1>8 DEF WaitInv, CommandKnown, TriesShape, ErrorKnown, bootVars
LEMMA DoOtherKeeps == WaitInv /\ DoOther => WaitInv'
  <1> SUFFICES ASSUME WaitInv, DoOther PROVE WaitInv'
    OBVIOUS
  <1>1. UNCHANGED <<isServerUp, pending, done, accept, late, dataOrCmd>> /\ Update
    BY DEF DoOther, Rest, Overhear, TimeOut, WaitForGap, CleanUp, Recover, sentVars
  <1>2. ASSUME Rest \/ Overhear \/ TimeOut \/ WaitForGap PROVE WaitInv'
    <2>1. /\ UNCHANGED <<inBuf, sentVars, dataPtr>> /\ Fill
          /\ \/ UNCHANGED <<state, hasErr>> /\ state # "AT_RESPONSE"
             \/ state = "AT_IDLE" /\ state' = "AT_UNSOLICITED" /\ UNCHANGED hasErr
             \/ state' = "AT_ERROR" /\ hasErr'
      BY <1>2 DEF Rest, Overhear, TimeOut, WaitForGap
    <2>2. TypeOK' /\ UNCHANGED bootVars
      BY <1>1, <2>1, UpdateShape
         DEF WaitInv, TypeOK, EngineTypeOK, ATState, sentVars, bootVars, TimeOut
    <2>3. hasErr' \/ \A k \in Cmd : AnsweredOrWaiting(k) => AnsweredOrWaiting(k)'
      BY <1>1, <2>1 DEF AnsweredOrWaiting, Queued, Sent, sentVars, Command
    <2>4. WaitShape'
      BY <2>1, <2>2, <2>3, WaitKept DEF WaitInv, TypeOK, EngineTypeOK
    <2> QED
      BY <2>1, <2>2, <2>4 DEF WaitInv, CommandKnown, TriesShape, ErrorKnown, sentVars, bootVars
  <1>3. ASSUME CleanUp PROVE WaitInv'
    <2>1. /\ UNCHANGED <<hasErr, inBuf>> /\ FillAndClear
          /\ state = "AT_CLEAN_UP" /\ state' = "AT_IDLE"
          /\ cmdNdx' \in {NoCmd, cmdNdx} /\ dataPtr' \in {FALSE, dataPtr}
      BY <1>3 DEF CleanUp
    <2>2. TypeOK' /\ UNCHANGED bootVars
      BY <1>1, <2>1, UpdateShape DEF WaitInv, TypeOK, EngineTypeOK, ATState, bootVars
    <2>3. \A k \in Cmd : AnsweredOrWaiting(k) => AnsweredOrWaiting(k)'
      BY <1>1, <2>1 DEF AnsweredOrWaiting, Queued, Sent, Command
    <2>4. WaitShape'
      BY <2>1, <2>2, <2>3, WaitKept DEF WaitInv, TypeOK, EngineTypeOK
    <2> QED
      BY <2>1, <2>2, <2>4 DEF WaitInv, CommandKnown, TriesShape, ErrorKnown, bootVars
  <1>4. ASSUME Recover PROVE WaitInv'
    <2>1. /\ UNCHANGED hasErr /\ FillAndClear /\ hasErr
          /\ state' = "AT_CLEAN_UP" /\ inBuf' = <<>> /\ cmdNdx' = NoCmd /\ dataPtr' = FALSE
      BY <1>4 DEF Recover, WaitInv, ErrorKnown
    <2>2. inBuf' \in Seq(Entry)
      BY <2>1
    <2>3. TypeOK' /\ UNCHANGED bootVars
      BY <1>1, <2>1, <2>2, UpdateShape DEF WaitInv, TypeOK, EngineTypeOK, ATState, bootVars
    <2>4. WaitShape'
      BY <2>1, <2>3, WaitKept DEF WaitInv
    <2> QED
      BY <2>1, <2>3, <2>4 DEF WaitInv, CommandKnown, TriesShape, ErrorKnown, bootVars
  <1> QED
    BY <1>2, <1>3, <1>4 DEF DoOther

-----------------------------------------------------------------------------
(* The module, time, and steps that change nothing. *)

LEMMA OutsideKeeps ==
    /\ WaitInv
    /\ UNCHANGED <<state, hasErr, inBuf, sentVars, dataPtr, resp, accept, bootVars,
                   isServerUp, turn, done>>
    /\ rx' \subseteq Word /\ late' \in BOOLEAN /\ quiet' \in BOOLEAN
    /\ pending' \in Seq(Message) /\ Len(pending') <= MaxPending
    /\ listening' \in BOOLEAN /\ talk' \in 0 .. MaxTalk
    => WaitInv'
  <1> SUFFICES ASSUME
        WaitInv,
        UNCHANGED <<state, hasErr, inBuf, sentVars, dataPtr, resp, accept, bootVars,
                    isServerUp, turn, done>>,
        rx' \subseteq Word, late' \in BOOLEAN, quiet' \in BOOLEAN,
        pending' \in Seq(Message), Len(pending') <= MaxPending,
        listening' \in BOOLEAN, talk' \in 0 .. MaxTalk
      PROVE WaitInv'
    OBVIOUS
  <1>1. TypeOK'
    BY DEF WaitInv, TypeOK, EngineTypeOK, sentVars, bootVars
  <1>2. WaitShape'
    BY DEF WaitInv, WaitShape, AnsweredOrWaiting, Queued, Sent, Command, sentVars, bootVars
  <1> QED
    BY <1>1, <1>2 DEF WaitInv, CommandKnown, TriesShape, ErrorKnown, sentVars, bootVars

LEMMA ModuleKeeps == WaitInv /\ Module => WaitInv'
  <1> SUFFICES ASSUME WaitInv, Module PROVE WaitInv'
    OBVIOUS
  <1>1. pending \in Seq(Message) /\ Len(pending) <= MaxPending /\ rx \subseteq Word
        /\ late \in BOOLEAN /\ quiet \in BOOLEAN /\ listening \in BOOLEAN
        /\ talk \in 0 .. MaxTalk
    BY DEF WaitInv, TypeOK, EngineTypeOK
  <1>2. PICK words : words \subseteq Word /\ Says(words)
    BY ReplyShape DEF Module, Answer, Refuse, ClientConnects, Reboots, Talk, Word
  <1>3. pending' \in Seq(Message) /\ Len(pending') <= MaxPending
    <2>1. \/ pending # <<>> /\ pending' = Tail(pending)
          \/ pending' = <<>>
          \/ pending' = pending
      BY DEF Module, Answer, Refuse, ClientConnects, Reboots
    <2>2. CASE pending # <<>> /\ pending' = Tail(pending)
      BY <1>1, <2>2, BoundAssumption
    <2>3. CASE pending' = <<>>
      BY <2>3, BoundAssumption
    <2> QED
      BY <1>1, <2>1, <2>2, <2>3
  <1>4. listening' \in BOOLEAN
    BY <1>1 DEF Module, Answer, Refuse, ClientConnects, Reboots
  <1>5. talk' \in 0 .. MaxTalk
    <2>1. talk' = talk \/ (talk < MaxTalk /\ talk' = talk + 1)
      BY DEF Module, Answer, Refuse, ClientConnects, Reboots, Talk
    <2> QED
      BY <1>1, <2>1, BoundAssumption
  <1> QED
    BY <1>1, <1>2, <1>3, <1>4, <1>5, OutsideKeeps DEF Says, timeVars

LEMMA TimeKeeps == WaitInv /\ Time => WaitInv'
  <1> SUFFICES ASSUME WaitInv, Time PROVE WaitInv'
    OBVIOUS
  <1>1. UNCHANGED <<state, hasErr, inBuf, sentVars, dataPtr, resp, accept, rx, bootVars,
                    isServerUp, turn, moduleVars, done>>
        /\ late' \in {TRUE, late} /\ quiet' \in {TRUE, quiet}
    BY DEF Time, TimePasses, Expire, Pause
  <1> QED
    BY <1>1, OutsideKeeps DEF WaitInv, TypeOK, EngineTypeOK, moduleVars

LEMMA StutterKeeps == WaitInv /\ UNCHANGED vars => WaitInv'
  BY OutsideKeeps DEF WaitInv, TypeOK, EngineTypeOK, vars, engineVars, timeVars, moduleVars

LEMMA InvStep == WaitInv /\ [Next]_vars => WaitInv'
  BY StartPhaseKeeps, IdleConfigureKeeps, PhaseEndsKeeps, RetryKeeps, HardResetKeeps,
     DoSendKeeps, LookAfterDataKeeps, LookAfterCommandKeeps, DoOverheardKeeps,
     DoOtherKeeps, ModuleKeeps, TimeKeeps, StutterKeeps
  DEF Next, Loop, EspBootSettings, UpdateEngine

LEMMA WaitInvariant == Spec => []WaitInv
  BY InvInit, InvStep, PTL DEF Spec

\* Between the last retry and the power-off nothing is queued: only an
\* overheard word can move the engine.
LEMMA ResetReadyStep == WaitInv /\ ResetReady /\ [Next]_vars => ResetReady'
  <1> SUFFICES ASSUME WaitInv, ResetReady, Next PROVE ResetReady'
    BY DEF ResetReady, vars, engineVars, bootVars
  <1>1. CASE EspBootSettings
    <2>1. ASSUME Operate \/ WaitOn \/ StartPhase PROVE ResetReady'
      BY <2>1 DEF Operate, WaitOn, StartPhase, bootVars, ResetReady
    <2>2. ASSUME PhaseEnds PROVE ResetReady'
      BY <2>2, PhaseShape DEF PhaseEnds, WaitInv, WaitShape, ResetReady
    <2>3. ASSUME Retry \/ HardReset PROVE ResetReady'
      BY <2>3 DEF Retry, HardReset, ResetEngine, ResetReady
    <2> QED
      BY <1>1, <2>1, <2>2, <2>3 DEF EspBootSettings
  <1>2. CASE UpdateEngine
    <2> SUFFICES ASSUME boot = "r" PROVE ResetReady'
      BY <1>2 DEF UpdateEngine, DoSend, LookAfterData, LookAfterCommand, DoOverheard,
                  DoOther, Update, bootVars, ResetReady
    <2>1. turn = "update" /\ turn' = "configure"
      BY <1>2 DEF UpdateEngine, DoSend, LookAfterData, LookAfterCommand, DoOverheard,
                  DoOther, Update
    <2>2. state = "AT_IDLE" /\ inBuf = <<>> /\ ~hasErr
      BY <2>1 DEF ResetReady
    <2>3. Rest \/ Overhear
      BY <1>2, <2>2
         DEF UpdateEngine, DoSend, Send, LookAfterData, LookAfterCommand, Look,
             DoOverheard, Overheard, DoOther, TimeOut, WaitForGap, CleanUp, Recover
    <2> QED
      BY <2>1, <2>2, <2>3 DEF Rest, Overhear, ResetReady
  <1>3. CASE Module \/ Time
    BY <1>3 DEF Module, Answer, Refuse, ClientConnects, Reboots, Talk, Says, Time,
                TimePasses, Expire, Pause, bootVars, ResetReady
  <1> QED
    BY <1>1, <1>2, <1>3 DEF Next, Loop

\* While the boot waits and the engine has no error, no command of the phase is
\* lost: it was answered, it is queued, or it is what the engine waits for; and
\* the module loses its power when the engine has nothing to do.
THEOREM EspInvariant == Spec => []IInv
  <1>1. Init => ResetReady
    BY DEF Init, ResetReady
  <1>2. Spec => [](WaitInv /\ ResetReady)
    BY <1>1, ResetReadyStep, WaitInvariant, PTL DEF Spec
  <1> QED
    BY <1>2, PTL DEF IInv

\* Engine, boot and module keep their types; what the engine waits for is a
\* command, and the tries of a phase stay between -1 and MAX_TRIES.
THEOREM EspTypeCorrect == Spec => []TypeOK
  <1>1. WaitInv => TypeOK
    BY DEF WaitInv
  <1> QED
    BY <1>1, WaitInvariant, PTL

\* The boot leaves a phase for the next one only when every command of the
\* phase was answered since the phase was started.
THEOREM EspPhaseDone == Spec => PhaseDone
  <1>1. WaitInv /\ [Next]_vars =>
          [boot = "w" /\ boot' = nextState =>
             \A i \in DOMAIN Phase[prevState] : Phase[prevState][i] \in done]_vars
    <2> SUFFICES ASSUME WaitInv, [Next]_vars, boot = "w", boot' = nextState,
                        vars' # vars, NEW i \in DOMAIN Phase[prevState]
                 PROVE  Phase[prevState][i] \in done
      OBVIOUS
    <2>1. prevState \in DOMAIN Phase /\ nextState = Successor[prevState]
      BY DEF WaitInv, WaitShape
    <2>2. nextState \notin {"w", "r", prevState}
      BY <2>1, PhaseShape
    <2>3. PhaseEnds
      <3>1. ~UNCHANGED bootVars
        BY <2>2 DEF bootVars
      <3>2. EspBootSettings
        BY <3>1 DEF vars, Next, Loop, UpdateEngine, DoSend, LookAfterData,
           LookAfterCommand, DoOverheard, DoOther, Update, Module, Answer, Refuse,
           ClientConnects, Reboots, Talk, Says, Time, TimePasses
      <3> QED
        BY <2>2, <3>2 DEF EspBootSettings, StartPhase, Operate, WaitOn, Retry, HardReset,
                          bootVars, Phase
    <2>4. AnsweredOrWaiting(Phase[prevState][i])
      BY <2>3 DEF PhaseEnds, IsStable, WaitInv, WaitShape
    <2> QED
      BY <2>3, <2>4 DEF PhaseEnds, IsStable, AnsweredOrWaiting, Queued, Sent
  <1> QED
    BY <1>1, WaitInvariant, PTL DEF Spec, PhaseDone

-----------------------------------------------------------------------------
(* The engine implements a queue of commands. *)

\* What is in flight: nothing, unless the engine waits for an answer.
LEMMA CurrentFacts ==
    /\ state # "AT_RESPONSE" => Current = Nothing
    /\ state' # "AT_RESPONSE" => Current' = Nothing
    /\ UNCHANGED <<state, sentVars>> => Current' = Current
    /\ WaitInv /\ state = "AT_RESPONSE" => Current # Nothing
  BY DEF Current, Nothing, Command, Data, sentVars, WaitInv, CommandKnown

LEMMA CommandsStutter ==
    UNCHANGED <<inBuf, hasErr>> /\ Current' = Current => UNCHANGED Commands!vars
  BY DEF Commands!vars

\* Adding to the queue of commands.
LEMMA CommandsQueue ==
    ASSUME NEW more \in Seq(Entry), inBuf \in Seq(Entry), inBuf' = inBuf \o more,
           UNCHANGED hasErr, Current' = Current
    PROVE  Commands!Queue
  <1>1. Len(inBuf') >= Len(inBuf)
    OBVIOUS
  <1>2. \A i \in DOMAIN inBuf : inBuf'[i] = inBuf[i]
    BY QueuedStays
  <1> QED
    BY <1>1, <1>2 DEF Commands!Queue

LEMMA BootCommands == IInv /\ EspBootSettings => [Commands!Next]_Commands!vars
  <1> SUFFICES ASSUME IInv, EspBootSettings
               PROVE  Commands!Next \/ UNCHANGED Commands!vars
    OBVIOUS
  <1>1. WaitInv /\ inBuf \in Seq(Entry)
    BY DEF IInv, WaitInv, TypeOK, EngineTypeOK
  <1>2. CASE StartPhase
    <2> DEFINE more == [i \in DOMAIN Phase[boot] |-> Command(Phase[boot][i])]
    <2>1. boot \in DOMAIN Phase /\ inBuf' = inBuf \o more
          /\ UNCHANGED <<state, sentVars, hasErr>>
      BY <1>2 DEF StartPhase, QueueCmds
    <2>2. more \in Seq(Entry)
      BY <2>1, PhaseShape DEF Entry, Command
    <2> HIDE DEF more
    <2> QED
      BY <1>1, <2>1, <2>2, CurrentFacts, CommandsQueue DEF Commands!Next
  <1>3. CASE Operate \/ WaitOn \/ PhaseEnds
    BY <1>3, CurrentFacts, CommandsStutter
       DEF Operate, WaitOn, PhaseEnds, engineVars
  <1>4. CASE Retry
    <2>1. hasErr /\ hasErr' = FALSE /\ inBuf' = <<>> /\ state' = "AT_IDLE"
      BY <1>4 DEF Retry, ResetEngine
    <2> QED
      BY <2>1, CurrentFacts DEF Commands!Reset, Commands!Next
  <1>5. CASE HardReset
    <2>1. /\ inBuf' = inBuf /\ hasErr' = hasErr
          /\ state' # "AT_RESPONSE" /\ state # "AT_RESPONSE"
      BY <1>5 DEF HardReset, ResetEngine, IInv, WaitInv, TypeOK, EngineTypeOK,
                  ResetReady
    <2> QED
      BY <2>1, CurrentFacts, CommandsStutter
  <1> QED
    BY <1>2, <1>3, <1>4, <1>5 DEF EspBootSettings

LEMMA EngineCommands == IInv /\ UpdateEngine => [Commands!Next]_Commands!vars
  <1> SUFFICES ASSUME IInv, UpdateEngine
               PROVE  Commands!Next \/ UNCHANGED Commands!vars
    OBVIOUS
  <1>1. WaitInv /\ inBuf \in Seq(Entry)
    BY DEF IInv, WaitInv, TypeOK, EngineTypeOK
  <1>2. CASE DoSend
    <2>1. PICK entry : Send(entry)
      BY <1>2 DEF DoSend
    <2>2. /\ state = "AT_IDLE" /\ inBuf # <<>> /\ entry = Head(inBuf)
          /\ inBuf' = Tail(inBuf) /\ UNCHANGED hasErr
      BY <2>1 DEF Send
    <2>3. Current' = entry
      <3>1. entry \in Entry
        BY <1>1, <2>2
      <3>2. CASE entry.type = "c"
        BY <2>1, <3>1, <3>2 DEF Send, Current, Command, Entry
      <3>3. CASE entry.type = "d"
        BY <2>1, <3>1, <3>3 DEF Send, Current, Data, Entry
      <3> QED
        BY <3>1, <3>2, <3>3 DEF Entry
    <2> QED
      BY <2>2, <2>3, CurrentFacts DEF Commands!Send, Commands!Next
  <1>3. CASE LookAfterData \/ LookAfterCommand
    <2>1. /\ state = "AT_RESPONSE" /\ state' \in {"AT_CLEAN_UP", "AT_RESPONSE"}
          /\ UNCHANGED <<hasErr, inBuf, sentVars>>
      BY <1>3 DEF LookAfterData, LookAfterCommand, Look
    <2>2. CASE state' = "AT_CLEAN_UP"
      BY <1>1, <2>1, <2>2, CurrentFacts DEF Commands!Finish, Commands!Next
    <2>3. CASE state' = "AT_RESPONSE"
      BY <2>1, <2>3, CurrentFacts, CommandsStutter
    <2> QED
      BY <2>1, <2>2, <2>3
  <1>4. CASE DoOverheard
    <2> DEFINE send == Command("SEND_DATA")
               close == Command("TCP_CLOSE")
               answer == IF dataPtr THEN <<send, close>> ELSE <<send, Data, close>>
    <2>1. /\ state # "AT_RESPONSE" /\ state' # "AT_RESPONSE" /\ UNCHANGED hasErr
          /\ inBuf' = inBuf \o answer \/ UNCHANGED inBuf
      BY <1>4 DEF DoOverheard, Overheard, Handler, QueueAnswer
    <2>2. answer \in Seq(Entry)
      <3>1. send \in Entry /\ close \in Entry /\ Data \in Entry
        BY EspCmdAssumption DEF Entry, Command, Data, EspCmd
      <3> HIDE DEF send, close
      <3> QED
        BY <3>1
    <2>3. Current' = Current
      BY <2>1, CurrentFacts
    <2> HIDE DEF answer
    <2> QED
      BY <1>1, <2>1, <2>2, <2>3, CommandsQueue, CommandsStutter DEF Commands!Next
  <1>5. CASE DoOther
    <2>1. CASE Rest \/ Overhear \/ WaitForGap \/ CleanUp
      <3>1. /\ UNCHANGED <<inBuf, hasErr>>
            /\ state # "AT_RESPONSE" /\ state' # "AT_RESPONSE"
        BY <2>1 DEF Rest, Overhear, WaitForGap, CleanUp
      <3> QED
        BY <3>1, CurrentFacts, CommandsStutter
    <2>2. CASE TimeOut
      <3>1. /\ state = "AT_RESPONSE" /\ state' # "AT_RESPONSE"
            /\ UNCHANGED inBuf /\ hasErr' = TRUE
        BY <2>2 DEF TimeOut
      <3> QED
        BY <1>1, <3>1, CurrentFacts DEF Commands!Fail, Commands!Next
    <2>3. CASE Recover
      <3>1. /\ state # "AT_RESPONSE" /\ state' # "AT_RESPONSE"
            /\ hasErr /\ UNCHANGED hasErr /\ inBuf' = <<>>
        BY <1>1, <2>3 DEF Recover, WaitInv, ErrorKnown
      <3> QED
        BY <3>1, CurrentFacts DEF Commands!Drop, Commands!Next
    <2> QED
      BY <1>5, <2>1, <2>2, <2>3 DEF DoOther
  <1> QED
    BY <1>2, <1>3, <1>4, <1>5 DEF UpdateEngine

\* Under the boot and its clients the engine is a queue of commands: they are
\* sent in order and one at a time, and none is dropped without an error.
THEOREM EspImplementsQueue == Spec => ImplementsQueue
  <1>1. Init => Commands!Init
    BY CurrentFacts DEF Init, EngineInit, Commands!Init
  <1>2. IInv /\ [Next]_vars => [Commands!Next]_Commands!vars
    <2>1. ASSUME Module \/ Time \/ UNCHANGED vars
          PROVE  UNCHANGED Commands!vars
      BY <2>1, CurrentFacts, CommandsStutter
         DEF Module, Answer, Refuse, ClientConnects, Reboots, Talk, Says, Time,
             TimePasses, Expire, Pause, vars, engineVars
    <2> QED
      BY <2>1, BootCommands, EngineCommands DEF Next, Loop
  <1> QED
    BY <1>1, <1>2, EspInvariant, PTL DEF Spec, ImplementsQueue, Commands!Spec
=============================================================================
