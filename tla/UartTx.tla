------------------------------- MODULE UartTx -------------------------------
(***************************************************************************)
(* The transmitting side of hal/uart.cpp.  main() and the event interrupt  *)
(* SD_EVT both print, and both end up in uart_putchar_unlocked, which owns *)
(* no lock: SD_EVT may come between any two accesses of main() to the      *)
(* UART, and runs to its end before main() goes on.                        *)
(*                                                                         *)
(* Of the transmitter it is known that STARTTX starts and STOPTX stops it  *)
(* at once, and that TXDRDY is raised when the byte was sent.  What it     *)
(* does with a byte written while it is stopped, and with the byte it has  *)
(* when it is stopped, is left open.                                       *)
(***************************************************************************)
EXTENDS Naturals

CONSTANT MaxText                \* bound: the bytes of a text
ASSUME TextAssumption == MaxText \in Nat \ {0}

VARIABLES
    tx, busy,       \* the transmitter: is it started, has it a byte to send?
    txdrdy,         \* EVENTS_TXDRDY
    pc,             \* per context: what it does next
    left,           \* per context: bytes of its text that are not done
    window,         \* history: did SD_EVT come between the STARTTX of main()
                    \* and its clearing of TXDRDY, for the byte at hand?
    clean           \* history: has nobody printed into the text of the other
                    \* since the transmitter was last found empty?

hwVars == <<tx, busy, txdrdy>>
ctxVars == <<pc, left>>
historyVars == <<window, clean>>
vars == <<hwVars, ctxVars, historyVars>>

Ctx == {"main", "SD_EVT"}

TypeOK ==
    /\ tx \in BOOLEAN /\ busy \in BOOLEAN /\ txdrdy \in BOOLEAN
    /\ pc \in [Ctx -> {"idle", "enable", "clear", "put", "check", "disable"}]
    /\ left \in [Ctx -> 0 .. MaxText]
    /\ \A c \in Ctx : pc[c] = "idle" <=> left[c] = 0
    /\ window \in BOOLEAN /\ clean \in BOOLEAN

Init ==
    /\ tx = FALSE /\ busy = FALSE /\ txdrdy = FALSE
    /\ pc = [c \in Ctx |-> "idle"] /\ left = [c \in Ctx |-> 0]
    /\ window = FALSE /\ clean = TRUE

-----------------------------------------------------------------------------
\* The transmitter sends its byte.
Sent ==
    /\ tx /\ busy
    /\ busy' = FALSE /\ txdrdy' = TRUE
    /\ UNCHANGED <<tx, ctxVars, historyVars>>

-----------------------------------------------------------------------------
\* The contexts.

Runs(c) == c = "main" => pc["SD_EVT"] = "idle"

At(c, here) == Runs(c) /\ pc[c] = here
GoTo(c, there) == pc' = [pc EXCEPT ![c] = there]

\* _write is called with a text.
WriteText(c, len) ==
    /\ At(c, "idle") /\ GoTo(c, "enable")
    /\ left' = [left EXCEPT ![c] = len]
    /\ window' = (window \/ (c = "SD_EVT" /\ pc["main"] = "clear"))
    /\ clean' = (pc["main"] = "idle" /\ (clean \/ ~ busy))
    /\ UNCHANGED hwVars

\* Mutant: the transmitter is started once, when the UART is configured.
TxEnableMissing(c) ==
    /\ At(c, "enable") /\ GoTo(c, "clear")
    /\ window' = (window /\ c # "main")
    /\ UNCHANGED <<hwVars, left, clean>>

TxEnable(c) ==
    /\ At(c, "enable") /\ GoTo(c, "clear")
    /\ tx' = TRUE
    /\ window' = (window /\ c # "main")
    /\ UNCHANGED <<busy, txdrdy, left, clean>>

EventClear(c) ==
    /\ At(c, "clear") /\ GoTo(c, "put")
    /\ txdrdy' = FALSE
    /\ UNCHANGED <<tx, busy, left, historyVars>>

\* A stopped transmitter keeps the byte or drops it.
Put(c) ==
    /\ At(c, "put") /\ GoTo(c, "check")
    /\ busy' \in IF tx THEN {TRUE} ELSE {busy, TRUE}
    /\ UNCHANGED <<tx, txdrdy, left, historyVars>>

\* Mutant: does not wait.
CheckOnce(c) ==
    /\ At(c, "check") /\ GoTo(c, "disable")
    /\ UNCHANGED <<hwVars, left, historyVars>>

\* Mutant: a byte that was not sent at once is written again.
CheckOrRepeat(c) ==
    /\ At(c, "check") /\ GoTo(c, IF txdrdy THEN "disable" ELSE "clear")
    /\ UNCHANGED <<hwVars, left, historyVars>>

Check(c) ==
    /\ At(c, "check") /\ txdrdy /\ GoTo(c, "disable")
    /\ UNCHANGED <<hwVars, left, historyVars>>

\* Mutant: TXDRDY is reset after use.
TxDisableAndClear(c) ==
    /\ At(c, "disable")
    /\ GoTo(c, IF left[c] = 1 THEN "idle" ELSE "enable")
    /\ left' = [left EXCEPT ![c] = @ - 1]
    /\ tx' = FALSE /\ busy' \in {FALSE, busy} /\ txdrdy' = FALSE
    /\ UNCHANGED historyVars

\* Mutant: one byte more than the text has.
TxDisableLate(c) ==
    /\ At(c, "disable")
    /\ GoTo(c, IF left[c] = 0 THEN "idle" ELSE "enable")
    /\ left' = [left EXCEPT ![c] = IF @ = 0 THEN 0 ELSE @ - 1]
    /\ tx' = FALSE /\ busy' \in {FALSE, busy}
    /\ UNCHANGED <<txdrdy, historyVars>>

\* The byte is done, and so may be the text.
TxDisable(c) ==
    /\ At(c, "disable")
    /\ GoTo(c, IF left[c] = 1 THEN "idle" ELSE "enable")
    /\ left' = [left EXCEPT ![c] = @ - 1]
    /\ tx' = FALSE /\ busy' \in {FALSE, busy}
    /\ UNCHANGED <<txdrdy, historyVars>>

PutChar(c) ==
    TxEnable(c) \/ EventClear(c) \/ Put(c) \/ Check(c) \/ TxDisable(c)

Next ==
    \/ Sent
    \/ \E c \in Ctx :
         PutChar(c) \/ \E len \in 1 .. MaxText : WriteText(c, len)

Spec == Init /\ [][Next]_vars

\* The transmitter sends, the interrupt runs, and main() between interrupts.
FairSpec ==
    /\ Spec
    /\ WF_vars(Sent) /\ WF_vars(PutChar("SD_EVT")) /\ SF_vars(PutChar("main"))

-----------------------------------------------------------------------------
\* Is there a TXDRDY, or one that will come?
Announced == txdrdy \/ (tx /\ busy)

\* The event interrupt never spins for a TXDRDY that cannot come, wherever in
\* uart_putchar_unlocked it found main().  (Lines 93 and 94 come before 95.)
InterruptWaitsForByte == pc["SD_EVT"] = "check" => Announced

\* main() spins for a TXDRDY that cannot come in one case only: the interrupt
\* printed after main() had started the transmitter and before it cleared
\* TXDRDY.  (Lines 93 and 94; nobody else clears it.)
MainStuckInWindowOnly ==
    pc["main"] = "check" /\ pc["SD_EVT"] = "idle" => Announced \/ window

\* As long as nobody prints into the text of the other no byte is lost: each
\* one is written to a started, empty transmitter and sent before the
\* transmitter is stopped.  (The loop of line 96.)
CleanTextIsSent ==
    clean => \A c \in Ctx :
      /\ pc[c] = "put" => tx /\ ~ busy
      /\ pc[c] = "disable" => ~ busy

\* What makes them inductive.

\* The interrupt owns the transmitter while it runs, and leaves TXDRDY set.
InterruptOwns ==
    /\ pc["SD_EVT"] \in {"clear", "put", "check", "disable"} => tx
    /\ pc["SD_EVT"] = "disable" => txdrdy
    /\ pc["SD_EVT"] # "idle" /\ pc["main"] = "clear" => window

\* Up to the wait main() finds the transmitter started, or stopped by an
\* interrupt that left TXDRDY.
MainBeforeWait ==
    pc["SD_EVT"] = "idle" =>
      /\ pc["main"] = "clear" => tx \/ window
      /\ pc["main"] = "put" => tx \/ txdrdy \/ window

CleanTransmitter ==
    clean =>
      /\ pc["SD_EVT"] # "idle" => pc["main"] = "idle"
      /\ busy => \E c \in Ctx : pc[c] = "check"
      /\ \A c \in Ctx :
           /\ pc[c] \in {"clear", "put", "check"} => tx
           /\ pc[c] = "put" => ~ txdrdy
           /\ pc[c] = "check" => ~ (busy /\ txdrdy)

IInv ==
    /\ TypeOK /\ InterruptOwns /\ InterruptWaitsForByte
    /\ MainBeforeWait /\ MainStuckInWindowOnly
    /\ CleanTransmitter /\ CleanTextIsSent

\* The interrupt comes to an end, so that the firmware goes on with events.
InterruptReturns == pc["SD_EVT"] # "idle" ~> pc["SD_EVT"] = "idle"

\* main() spins for ever only if no event is printed any more: an interrupt
\* that prints leaves TXDRDY set behind it.
InterruptFreesMain ==
    []<>(pc["SD_EVT"] # "idle") => (pc["main"] = "check" ~> pc["main"] # "check")
=============================================================================
