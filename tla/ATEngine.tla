------------------------------ MODULE ATEngine ------------------------------
(***************************************************************************)
(* onyx/src/ATEngine.cpp: the engine that sends AT commands to a module on *)
(* a serial line, one at a time, and waits for the answer of each.         *)
(*                                                                         *)
(* What strstr finds in a buffer is all that matters of what the module    *)
(* said, so a buffer is a set of words.  Time is two facts: has the        *)
(* timeout of the command passed, has nothing been read for                *)
(* MAX_READ_GAP_MS?  A queued command is one element, and the ring, which  *)
(* holds 99 bytes, is never full: that takes three clients in the queue,   *)
(* or a name and a password of 45 characters for the network.              *)
(***************************************************************************)
EXTENDS Integers, Sequences

CONSTANTS
    Cmd,        \* the indices of _ATCmdList
    NoCmd       \* -1, which the byte _cmdNdx holds as 255

ASSUME CmdAssumption == NoCmd \notin Cmd

VARIABLES
    state,          \* _state
    hasErr,         \* _errcode # NO_ERR
    inBuf,          \* *_inBuf
    dataOrCmd, cmdNdx,      \* _dataOrCmd, _cmdNdx
    dataPtr,        \* _dataPtr # NULL
    resp,           \* _respBuf
    accept,         \* _unsolicited_accept
    rx,             \* what the serial port has for read()
    late,           \* ms - _last_saved_ms >= timeout
    quiet           \* ms - _last_read_ms >= MAX_READ_GAP_MS

sentVars == <<dataOrCmd, cmdNdx>>
timeVars == <<late, quiet>>
engineVars ==
    <<state, hasErr, inBuf, sentVars, dataPtr, resp, accept, rx, timeVars>>

\* AT_SEND is never the state between two calls.
ATState == {"AT_IDLE", "AT_RESPONSE", "AT_UNSOLICITED", "AT_CLEAN_UP", "AT_ERROR"}

Word == {"OK", "SEND OK", ">", "ready", "ERROR", "CONNECT", "CLOSED"}

Entry == [type : {"c"}, ndx : Cmd] \cup [type : {"d"}]

Command(k) == [type |-> "c", ndx |-> k]
Data == [type |-> "d"]

EngineTypeOK ==
    /\ state \in ATState
    /\ hasErr \in BOOLEAN
    /\ inBuf \in Seq(Entry)
    /\ dataOrCmd \in {"none", "c", "d"} /\ cmdNdx \in Cmd \cup {NoCmd}
    /\ dataPtr \in BOOLEAN
    /\ resp \subseteq Word /\ rx \subseteq Word
    /\ accept \in BOOLEAN
    /\ late \in BOOLEAN /\ quiet \in BOOLEAN

EngineInit ==
    /\ state = "AT_IDLE" /\ hasErr = FALSE
    /\ dataOrCmd = "none" /\ cmdNdx = NoCmd
    /\ dataPtr = FALSE
    /\ resp = {} /\ rx = {}
    /\ accept = FALSE
    /\ late = FALSE /\ quiet = FALSE

-----------------------------------------------------------------------------
\* Called by the owner of the engine.

IsStable == inBuf = <<>> /\ state = "AT_IDLE" /\ ~hasErr

\* queue_cmd of several commands.
QueueCmds(ks) == inBuf' = inBuf \o [i \in DOMAIN ks |-> Command(ks[i])]

\* reset_engine; what the port has is still there, and the times are 0: long ago.
ResetEngine ==
    /\ inBuf' = <<>> /\ cmdNdx' = NoCmd /\ dataPtr' = FALSE /\ resp' = {}
    /\ state' = "AT_IDLE"
    /\ late' = TRUE /\ quiet' = TRUE

-----------------------------------------------------------------------------
\* updateEngine: fill_resp_buf, then a case of the switch.

Filled == resp \cup rx

IsQuiet == quiet /\ rx = {}

\* Every case but the two that clear the buffer keeps what was read.
Fill == rx' = {} /\ quiet' = IsQuiet /\ resp' = Filled

FillAndClear == rx' = {} /\ quiet' = IsQuiet /\ resp' = {}

Contains(word) ==
    IF word = "OK" THEN Filled \cap {"OK", "SEND OK"} # {} ELSE word \in Filled

Rest ==
    /\ state = "AT_IDLE" /\ Filled = {} /\ inBuf = <<>>
    /\ Fill
    /\ UNCHANGED <<state, hasErr, inBuf, sentVars, dataPtr, accept, late>>

\* Something was said that nobody has asked for.
Overhear ==
    /\ state = "AT_IDLE" /\ Filled # {}
    /\ state' = "AT_UNSOLICITED"
    /\ Fill
    /\ UNCHANGED <<hasErr, inBuf, sentVars, dataPtr, accept, late>>

\* send() does not fail: what was queued is complete.
Send(entry) ==
    /\ state = "AT_IDLE" /\ Filled = {} /\ inBuf # <<>>
    /\ entry = Head(inBuf) /\ inBuf' = Tail(inBuf)
    /\ dataOrCmd' = entry.type
    /\ cmdNdx' = IF entry.type = "c" THEN entry.ndx ELSE cmdNdx
    /\ late' = FALSE
    /\ state' = "AT_RESPONSE"
    /\ Fill
    /\ UNCHANGED <<hasErr, dataPtr, accept>>

\* Mutant: the error code is not set.
TimeOutSilently ==
    /\ state = "AT_RESPONSE" /\ late
    /\ state' = "AT_ERROR"
    /\ Fill
    /\ UNCHANGED <<hasErr, inBuf, sentVars, dataPtr, accept, late>>

\* Mutant: the state is kept.
TimeOutReported ==
    /\ state = "AT_RESPONSE" /\ late
    /\ hasErr' = TRUE
    /\ Fill
    /\ UNCHANGED <<state, inBuf, sentVars, dataPtr, accept, late>>

\* Mutant: it goes on waiting.
TimeOutIgnored ==
    /\ state = "AT_RESPONSE" /\ late
    /\ Fill
    /\ UNCHANGED <<state, hasErr, inBuf, sentVars, dataPtr, accept, late>>

TimeOut ==
    /\ state = "AT_RESPONSE" /\ late
    /\ state' = "AT_ERROR" /\ hasErr' = TRUE
    /\ Fill
    /\ UNCHANGED <<inBuf, sentVars, dataPtr, accept, late>>

\* The answer is looked for in all that was said since the command was sent.
Look(found) ==
    /\ state = "AT_RESPONSE" /\ ~late
    /\ state' = IF found THEN "AT_CLEAN_UP" ELSE "AT_RESPONSE"
    /\ Fill
    /\ UNCHANGED <<hasErr, inBuf, sentVars, dataPtr, late>>

WaitForGap ==
    /\ state = "AT_UNSOLICITED" /\ ~IsQuiet
    /\ Fill
    /\ UNCHANGED <<state, hasErr, inBuf, sentVars, dataPtr, accept, late>>

\* The unsolicited handler may queue commands and data.
Overheard ==
    /\ state = "AT_UNSOLICITED" /\ IsQuiet
    /\ state' = "AT_CLEAN_UP"
    /\ Fill
    /\ UNCHANGED <<hasErr, sentVars, accept, late>>

\* Mutant: the queue is cleared with the rest.
CleanUpQueue ==
    /\ state = "AT_CLEAN_UP" /\ state' = "AT_IDLE"
    /\ FillAndClear
    /\ inBuf' = <<>> /\ cmdNdx' = NoCmd /\ dataPtr' = FALSE
    /\ UNCHANGED <<hasErr, dataOrCmd, accept, late>>

\* What is cleared is decided by what was sent last, also after something
\* overheard.
CleanUp ==
    /\ state = "AT_CLEAN_UP" /\ state' = "AT_IDLE"
    /\ FillAndClear
    /\ IF dataOrCmd = "d"
         THEN dataPtr' = FALSE /\ UNCHANGED cmdNdx
         ELSE cmdNdx' = NoCmd /\ UNCHANGED dataPtr
    /\ UNCHANGED <<hasErr, inBuf, dataOrCmd, accept, late>>

\* The error code stays until the owner clears it.
Recover ==
    /\ state = "AT_ERROR" /\ state' = "AT_CLEAN_UP"
    /\ FillAndClear
    /\ inBuf' = <<>> /\ cmdNdx' = NoCmd /\ dataPtr' = FALSE
    /\ UNCHANGED <<hasErr, dataOrCmd, accept, late>>

-----------------------------------------------------------------------------
\* Time.

Expire ==
    /\ state = "AT_RESPONSE" /\ ~late /\ late' = TRUE
    /\ UNCHANGED <<state, hasErr, inBuf, sentVars, dataPtr, resp, accept, rx, quiet>>

Pause ==
    /\ ~quiet /\ quiet' = TRUE
    /\ UNCHANGED <<state, hasErr, inBuf, sentVars, dataPtr, resp, accept, rx, late>>
=============================================================================
