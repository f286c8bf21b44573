------------------------------- MODULE Esp12 -------------------------------
(***************************************************************************)
(* onyx/src/drivers/esp12.cpp: the WiFi module of the gateway is brought   *)
(* up by esp_boot_settings, a state machine on top of ATEngine, and serves *)
(* clients afterwards; loop_fast in start.cpp runs the two in turn.        *)
(*                                                                         *)
(* The module answers the commands it gets in their order, late or with an *)
(* error if it likes, and says things of its own.  What it reports of the  *)
(* wireless network is left out, and a client's request comes together     *)
(* with its CONNECT.                                                       *)
(***************************************************************************)
EXTENDS ATEngine

CONSTANTS
    MAX_TRIES,
    MaxPending,     \* bound: commands the module has not answered; more are ignored
    MaxTalk         \* bound: things the module says of its own accord

ASSUME TriesAssumption == MAX_TRIES \in Nat

ASSUME BoundAssumption == MaxPending \in Nat /\ MaxTalk \in Nat

VARIABLES
    boot,           \* esp_status.state
    nextState, prevState, tries,    \* the statics of esp_boot_settings
    isServerUp,     \* esp_status.isServerUp
    turn,           \* what loop_fast calls next
    pending,        \* what the module has received and not answered
    listening,      \* does the module serve port 80?
    talk,           \* how often the module has spoken of its own accord
    done            \* history: commands the engine found an answer for in this phase

bootVars == <<boot, nextState, prevState, tries>>
moduleVars == <<pending, listening, talk>>
vars == <<engineVars, bootVars, isServerUp, turn, moduleVars, done>>

EspCmd == {"AYT", "RESET", "NO_ECHO", "WIFI_MODE", "JOIN_AP", "SEND_DATA",
           "TCP_CLOSE", "GET_LOCAL_IP", "EN_MULTIPLE_CONN", "START_TCP_SERVER"}

ASSUME EspCmdAssumption == Cmd = EspCmd

BootState == {"i", "c", "p", "s", "o", "w", "r"}

\* What the module gets: commands, the data of a client, and its power.
Message == Cmd \cup {"data", "boot"}

\* What each phase of the boot queues, and the state it leads to.
Phase == [i |-> <<"AYT">>,
          c |-> <<"NO_ECHO", "WIFI_MODE", "EN_MULTIPLE_CONN">>,
          p |-> <<"JOIN_AP", "GET_LOCAL_IP", "START_TCP_SERVER">>,
          s |-> <<>>]

Successor == [i |-> "c", c |-> "p", p |-> "s", s |-> "o"]

TypeOK ==
    /\ EngineTypeOK
    /\ boot \in BootState
    /\ nextState \in BootState \cup {"none"}
    /\ prevState \in BootState \cup {"none"}
    /\ tries \in -1 .. MAX_TRIES
    /\ isServerUp \in BOOLEAN
    /\ turn \in {"configure", "update"}
    /\ pending \in Seq(Message) /\ Len(pending) <= MaxPending
    /\ listening \in BOOLEAN
    /\ talk \in 0 .. MaxTalk
    /\ done \subseteq Cmd

\* When esp12_init has run: a RESET is queued.
Init ==
    /\ EngineInit /\ inBuf = <<Command("RESET")>>
    /\ boot = "i" /\ nextState = "none" /\ prevState = "none"
    /\ tries = MAX_TRIES
    /\ isServerUp = FALSE
    /\ turn = "configure"
    /\ pending = <<>> /\ listening = FALSE /\ talk = 0
    /\ done = {}

-----------------------------------------------------------------------------
\* esp12_basic_configure: esp_boot_settings.

Configure == turn = "configure" /\ turn' = "update"

StartPhase ==
    /\ Configure
    /\ boot \in DOMAIN Phase
    /\ QueueCmds(Phase[boot])
    /\ prevState' = boot /\ boot' = "w" /\ nextState' = Successor[boot]
    /\ done' = {}
    /\ UNCHANGED <<state, hasErr, sentVars, dataPtr, resp, accept, rx, timeVars,
                   tries, isServerUp, moduleVars>>

Operate ==
    /\ Configure
    /\ boot = "o"
    /\ UNCHANGED <<engineVars, bootVars, isServerUp, moduleVars, done>>

WaitOn ==
    /\ Configure
    /\ boot = "w" /\ ~IsStable /\ ~hasErr
    /\ UNCHANGED <<engineVars, bootVars, isServerUp, moduleVars, done>>

PhaseEnds ==
    /\ Configure
    /\ boot = "w" /\ IsStable
    /\ boot' = nextState /\ tries' = MAX_TRIES
    /\ UNCHANGED <<engineVars, nextState, prevState, isServerUp, moduleVars, done>>

\* tries is tested before it is decremented.
Retry ==
    /\ Configure
    /\ boot = "w" /\ hasErr
    /\ ResetEngine /\ hasErr' = FALSE
    /\ tries' = tries - 1
    /\ boot' = IF tries # 0 THEN prevState ELSE "r"
    /\ UNCHANGED <<dataOrCmd, accept, rx, nextState, prevState,
                   isServerUp, moduleVars, done>>

\* Mutant: the tries are not restored.
HardResetOnly ==
    /\ Configure
    /\ boot = "r" /\ boot' = "i"
    /\ ResetEngine /\ hasErr' = FALSE
    /\ isServerUp' = FALSE
    /\ listening' = FALSE
    /\ pending' = IF MaxPending > 0 THEN <<"boot">> ELSE <<>>
    /\ UNCHANGED <<dataOrCmd, accept, rx, tries, nextState, prevState,
                   talk, done>>

\* esp12_hard_reset: the module loses its power, and starts.
HardReset ==
    /\ Configure
    /\ boot = "r" /\ boot' = "i"
    /\ ResetEngine /\ hasErr' = FALSE
    /\ isServerUp' = FALSE
    /\ tries' = MAX_TRIES
    /\ listening' = FALSE
    /\ pending' = IF MaxPending > 0 THEN <<"boot">> ELSE <<>>
    /\ UNCHANGED <<dataOrCmd, accept, rx, nextState, prevState,
                   talk, done>>

EspBootSettings ==
    StartPhase \/ Operate \/ WaitOn \/ PhaseEnds \/ Retry \/ HardReset

-----------------------------------------------------------------------------
\* esp12_update: updateEngine with the callbacks of esp12.cpp.

Update ==
    /\ turn = "update" /\ turn' = "configure"
    /\ UNCHANGED <<bootVars, talk, listening>>

\* The word that the callback of a command, or process_response, looks for.
Expected(k) ==
    CASE k = "RESET" -> "ready" [] k = "SEND_DATA" -> ">" [] OTHER -> "OK"

\* A write of no data is none; the module ignores what it cannot keep.
Received(entry) ==
    LET message == IF entry.type = "c" THEN entry.ndx ELSE "data"
    IN  IF Len(pending) < MaxPending /\ (entry.type = "c" \/ dataPtr)
          THEN Append(pending, message)
          ELSE pending

DoSend ==
    /\ Update
    /\ \E entry \in {inBuf[i] : i \in DOMAIN inBuf} :
         Send(entry) /\ pending' = Received(entry)
    /\ UNCHANGED <<isServerUp, done>>

\* esp12_data_handler.
LookAfterData ==
    /\ Update
    /\ dataOrCmd = "d"
    /\ Look(Contains("SEND OK"))
    /\ UNCHANGED <<accept, isServerUp, pending, done>>

\* The callbacks; esp_server_callback opens the door to clients.
LookAfterCommand ==
    /\ Update
    /\ dataOrCmd = "c"
    /\ LET found == Contains(Expected(cmdNdx))
           up == found /\ cmdNdx = "START_TCP_SERVER"
       IN  /\ Look(found)
           /\ done' = IF found THEN done \cup {cmdNdx} ELSE done
           /\ accept' = (accept \/ up)
           /\ isServerUp' = (isServerUp \/ up)
    /\ UNCHANGED pending

\* queue_data refuses a second buffer, which handle_server does not notice.
QueueAnswer ==
    LET send == Command("SEND_DATA")
        close == Command("TCP_CLOSE")
    IN  /\ inBuf' = inBuf \o IF dataPtr THEN <<send, close>> ELSE <<send, Data, close>>
        /\ dataPtr' = TRUE

\* esp_unsolicited_handler.  A CLOSED finds nothing to close; handle_server
\* compares the link with a number that sscanf has not set unless the request
\* is the first thing in the buffer, so a client may be left alone.
Handler ==
    LET heard == IF accept THEN Filled \cap {"CONNECT", "CLOSED", "ready"} ELSE {}
    IN  /\ isServerUp' = (isServerUp /\ heard # {"ready"})
        /\ \/ "CONNECT" \in heard /\ isServerUp /\ QueueAnswer
           \/ UNCHANGED <<inBuf, dataPtr>>

DoOverheard ==
    /\ Update
    /\ Overheard /\ Handler
    /\ UNCHANGED <<pending, done>>

DoOther ==
    /\ Update
    /\ Rest \/ Overhear \/ TimeOut \/ WaitForGap \/ CleanUp \/ Recover
    /\ UNCHANGED <<isServerUp, pending, done>>

UpdateEngine ==
    DoSend \/ LookAfterData \/ LookAfterCommand \/ DoOverheard \/ DoOther

-----------------------------------------------------------------------------
\* The module.

Says(words) ==
    /\ rx' = rx \cup words
    /\ UNCHANGED <<state, hasErr, inBuf, sentVars, dataPtr, resp, accept, timeVars,
                   bootVars, isServerUp, turn, done>>

Reply(message) ==
    CASE message = "RESET"     -> {"OK", "ready"}
      [] message = "boot"      -> {"ready"}
      [] message = "SEND_DATA" -> {"OK", ">"}
      [] message = "data"      -> {"SEND OK"}
      [] message = "TCP_CLOSE" -> {"CLOSED", "OK"}
      [] OTHER                 -> {"OK"}

Answer ==
    /\ pending # <<>> /\ pending' = Tail(pending)
    /\ listening' = \/ Head(pending) = "START_TCP_SERVER"
                    \/ listening /\ Head(pending) # "RESET"
    /\ Says(Reply(Head(pending)))
    /\ UNCHANGED talk

Refuse ==
    /\ pending # <<>> /\ pending' = Tail(pending)
    /\ Head(pending) # "boot" /\ Says({"ERROR"})
    /\ UNCHANGED <<listening, talk>>

Talk(words) == talk < MaxTalk /\ talk' = talk + 1 /\ Says(words)

ClientConnects ==
    /\ listening
    /\ Talk({"CONNECT"})
    /\ UNCHANGED <<pending, listening>>

Reboots ==
    /\ Talk({"ready"})
    /\ pending' = <<>> /\ listening' = FALSE

Module == Answer \/ Refuse \/ ClientConnects \/ Reboots

TimePasses(what) ==
    what /\ UNCHANGED <<bootVars, isServerUp, turn, moduleVars, done>>

Time == TimePasses(Expire) \/ TimePasses(Pause)

Loop == EspBootSettings \/ UpdateEngine

Next == Loop \/ Module \/ Time

Spec == Init /\ [][Next]_vars

\* The loop runs and time passes.  The module owes us nothing.
FairSpec ==
    /\ Spec
    /\ WF_vars(Loop) /\ WF_vars(TimePasses(Expire)) /\ WF_vars(TimePasses(Pause))

-----------------------------------------------------------------------------
(* Properties *)

\* The boot leaves a phase for the next one only when the engine has found an
\* answer for every command of the phase since the phase was started: none was
\* lost by a reset of the engine, by an error, or by a client served in between
\* (esp12.cpp:430).
PhaseDone ==
    [][boot = "w" /\ boot' = nextState =>
         \A i \in DOMAIN Phase[prevState] : Phase[prevState][i] \in done]_vars

\* The boot never waits for ever (esp12.cpp:428).
WaitEnds == boot = "w" ~> boot # "w"

\* The engine comes back to AT_IDLE, whatever the module says or does not say.
EngineReturns == state # "AT_IDLE" ~> state = "AT_IDLE"

\* "Server On" (esp12.cpp:414) is printed when the module listens, or is about to.
ServerOn ==
    boot = "s" =>
        \/ listening
        \/ \E i \in DOMAIN pending : pending[i] = "START_TCP_SERVER"

Queued(k) == \E i \in DOMAIN inBuf : inBuf[i] = Command(k)

Sent(k) == state = "AT_RESPONSE" /\ dataOrCmd = "c" /\ cmdNdx = k

AnsweredOrWaiting(k) == k \in done \/ Queued(k) \/ Sent(k)

\* The engine waits for a command of the table, or for data.
CommandKnown ==
    state = "AT_RESPONSE" => dataOrCmd # "none" /\ (dataOrCmd = "c" => cmdNdx \in Cmd)

\* While the boot waits and there is no error, a command of the phase that was
\* not answered is queued, or is what the engine waits for.
WaitShape ==
    boot = "w" =>
        /\ prevState \in DOMAIN Phase /\ nextState = Successor[prevState]
        /\ ~hasErr => \A i \in DOMAIN Phase[prevState] :
                         AnsweredOrWaiting(Phase[prevState][i])

\* tries falls below 0 only on the way to a hard reset.
TriesShape == boot # "r" => tries >= 0

ErrorKnown == state = "AT_ERROR" => hasErr

\* What esp12_hard_reset finds: Retry has reset the engine, which can only have
\* overheard something since.
ResetReady ==
    boot = "r" =>
        /\ inBuf = <<>> /\ ~hasErr
        /\ state \in {"AT_IDLE", "AT_UNSOLICITED"}
        /\ turn = "update" => state = "AT_IDLE"

\* What PhaseDone rests on: no command of a phase gets lost without an error.
WaitInv == TypeOK /\ CommandKnown /\ WaitShape /\ TriesShape /\ ErrorKnown

IInv == WaitInv /\ ResetReady

-----------------------------------------------------------------------------
\* The engine, under the boot and its clients, as a queue of commands.

Nothing == [type |-> "none"]

Current ==
    IF state # "AT_RESPONSE" THEN Nothing
    ELSE IF dataOrCmd = "c" THEN Command(cmdNdx) ELSE Data

Commands == INSTANCE CommandQueue WITH
                None <- Nothing, queue <- inBuf, current <- Current, err <- hasErr

\* What the boot and the clients queue is sent in its order, one command at a
\* time (updateEngine, ATEngine.cpp:54); nothing of it is lost but with an error
\* that the owner sees, however resets, timeouts and overheard words interleave.
ImplementsQueue == Commands!Spec
=============================================================================
