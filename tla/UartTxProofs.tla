---------------------------- MODULE UartTxProofs ----------------------------
(***************************************************************************)
(* Proofs about UartTx: main() and the event interrupt on one transmitter, *)
(* for texts of any length.                                                *)
(***************************************************************************)
EXTENDS UartTx, TLAPS

\* pc after a step of c: the other context is where it was.
LEMMA GoToIs ==
  ASSUME pc \in [Ctx -> {"idle", "enable", "clear", "put", "check", "disable"}],
         NEW c \in Ctx, NEW d \in Ctx,
         NEW there \in {"idle", "enable", "clear", "put", "check", "disable"},
         GoTo(c, there)
  PROVE  /\ pc' \in [Ctx -> {"idle", "enable", "clear", "put", "check", "disable"}]
         /\ pc'[d] = IF c = d THEN there ELSE pc[d]
  BY DEF GoTo, Ctx

LEMMA InitIInv == Init => IInv
<1> SUFFICES ASSUME Init PROVE IInv
  OBVIOUS
<1>1. TypeOK
  <2>1. 0 \in 0 .. MaxText
    BY TextAssumption
  <2>2. \A c \in Ctx : pc[c] = "idle" /\ left[c] = 0
    BY DEF Init
  <2>3. QED BY <2>1, <2>2 DEF Init, TypeOK
<1>2. pc["main"] = "idle" /\ pc["SD_EVT"] = "idle" /\ ~ busy
  BY DEF Init, Ctx
<1>3. QED
  BY <1>1, <1>2
     DEF IInv, InterruptOwns, InterruptWaitsForByte, MainBeforeWait,
         MainStuckInWindowOnly, CleanTransmitter, CleanTextIsSent, Ctx

LEMMA StutterIInv == IInv /\ UNCHANGED vars => IInv'
  BY DEF IInv, TypeOK, InterruptOwns, InterruptWaitsForByte, MainBeforeWait,
         MainStuckInWindowOnly, CleanTransmitter, CleanTextIsSent, Announced,
         vars, hwVars, ctxVars, historyVars

LEMMA SentIInv ==
  ASSUME IInv, Sent
  PROVE  IInv'
<1>1. pc' = pc /\ left' = left /\ window' = window /\ clean' = clean
  BY DEF Sent, ctxVars, historyVars
<1>2. TypeOK'
  BY <1>1 DEF Sent, IInv, TypeOK
<1>3. InterruptOwns' /\ InterruptWaitsForByte' /\ MainBeforeWait' /\ MainStuckInWindowOnly'
  BY <1>1 DEF Sent, IInv, TypeOK, InterruptOwns, InterruptWaitsForByte, MainBeforeWait,
              MainStuckInWindowOnly, Announced
<1>4. CleanTransmitter' /\ CleanTextIsSent'
  BY <1>1 DEF Sent, IInv, TypeOK, InterruptOwns, CleanTransmitter, CleanTextIsSent, Ctx
<1>5. QED BY <1>2, <1>3, <1>4 DEF IInv

LEMMA PrintIInv ==
  ASSUME IInv, NEW c \in Ctx, NEW len \in 1 .. MaxText, WriteText(c, len)
  PROVE  IInv'
<1>1. /\ pc[c] = "idle" /\ (c = "main" => pc["SD_EVT"] = "idle")
      /\ pc'["main"] = IF c = "main" THEN "enable" ELSE pc["main"]
      /\ pc'["SD_EVT"] = IF c = "SD_EVT" THEN "enable" ELSE pc["SD_EVT"]
  BY GoToIs DEF WriteText, At, Runs, IInv, TypeOK, Ctx
<1>2. TypeOK'
  BY TextAssumption, GoToIs DEF WriteText, At, GoTo, IInv, TypeOK, Ctx, hwVars
<1>3. QED
  BY <1>1, <1>2
     DEF WriteText, IInv, TypeOK, InterruptOwns, InterruptWaitsForByte,
         MainBeforeWait, MainStuckInWindowOnly, CleanTransmitter,
         CleanTextIsSent, Announced, Ctx, hwVars

LEMMA TxEnableIInv ==
  ASSUME IInv, NEW c \in Ctx, TxEnable(c)
  PROVE  IInv'
<1>1. /\ pc[c] = "enable" /\ (c = "main" => pc["SD_EVT"] = "idle")
      /\ pc'["main"] = IF c = "main" THEN "clear" ELSE pc["main"]
      /\ pc'["SD_EVT"] = IF c = "SD_EVT" THEN "clear" ELSE pc["SD_EVT"]
  BY GoToIs DEF TxEnable, At, Runs, IInv, TypeOK, Ctx
<1>2. TypeOK'
  BY GoToIs DEF TxEnable, At, GoTo, IInv, TypeOK, Ctx
<1>3. QED
  BY <1>1, <1>2
     DEF TxEnable, IInv, TypeOK, InterruptOwns, InterruptWaitsForByte,
         MainBeforeWait, MainStuckInWindowOnly, CleanTransmitter,
         CleanTextIsSent, Announced, Ctx

LEMMA EventClearIInv ==
  ASSUME IInv, NEW c \in Ctx, EventClear(c)
  PROVE  IInv'
<1>1. /\ pc[c] = "clear" /\ (c = "main" => pc["SD_EVT"] = "idle")
      /\ pc'["main"] = IF c = "main" THEN "put" ELSE pc["main"]
      /\ pc'["SD_EVT"] = IF c = "SD_EVT" THEN "put" ELSE pc["SD_EVT"]
  BY GoToIs DEF EventClear, At, Runs, IInv, TypeOK, Ctx
<1>2. TypeOK'
  BY GoToIs DEF EventClear, At, GoTo, IInv, TypeOK, Ctx, historyVars
<1>3. QED
  BY <1>1, <1>2
     DEF EventClear, IInv, TypeOK, InterruptOwns, InterruptWaitsForByte,
         MainBeforeWait, MainStuckInWindowOnly, CleanTransmitter,
         CleanTextIsSent, Announced, Ctx, historyVars

LEMMA PutIInv ==
  ASSUME IInv, NEW c \in Ctx, Put(c)
  PROVE  IInv'
<1>1. /\ pc[c] = "put" /\ (c = "main" => pc["SD_EVT"] = "idle")
      /\ pc'["main"] = IF c = "main" THEN "check" ELSE pc["main"]
      /\ pc'["SD_EVT"] = IF c = "SD_EVT" THEN "check" ELSE pc["SD_EVT"]
  BY GoToIs DEF Put, At, Runs, IInv, TypeOK, Ctx
<1>2. TypeOK'
  BY GoToIs DEF Put, At, GoTo, IInv, TypeOK, Ctx, historyVars
<1>3. QED
  BY <1>1, <1>2
     DEF Put, IInv, TypeOK, InterruptOwns, InterruptWaitsForByte,
         MainBeforeWait, MainStuckInWindowOnly, CleanTransmitter,
         CleanTextIsSent, Announced, Ctx, historyVars

LEMMA CheckIInv ==
  ASSUME IInv, NEW c \in Ctx, Check(c)
  PROVE  IInv'
<1>1. /\ pc[c] = "check" /\ (c = "main" => pc["SD_EVT"] = "idle")
      /\ pc'["main"] = IF c = "main" THEN "disable" ELSE pc["main"]
      /\ pc'["SD_EVT"] = IF c = "SD_EVT" THEN "disable" ELSE pc["SD_EVT"]
  BY GoToIs DEF Check, At, Runs, IInv, TypeOK, Ctx
<1>2. TypeOK'
  BY GoToIs DEF Check, At, GoTo, IInv, TypeOK, Ctx, hwVars, historyVars
<1>3. QED
  BY <1>1, <1>2
     DEF Check, IInv, TypeOK, InterruptOwns, InterruptWaitsForByte,
         MainBeforeWait, MainStuckInWindowOnly, CleanTransmitter,
         CleanTextIsSent, Announced, Ctx, hwVars, historyVars

LEMMA TxDisableIInv ==
  ASSUME IInv, NEW c \in Ctx, TxDisable(c)
  PROVE  IInv'
<1> DEFINE there == IF left[c] = 1 THEN "idle" ELSE "enable"
<1>0. there \in {"idle", "enable", "clear", "put", "check", "disable"} /\ GoTo(c, there)
  BY DEF TxDisable
<1>1. /\ pc[c] = "disable" /\ (c = "main" => pc["SD_EVT"] = "idle")
      /\ pc'["main"] = IF c = "main" THEN there ELSE pc["main"]
      /\ pc'["SD_EVT"] = IF c = "SD_EVT" THEN there ELSE pc["SD_EVT"]
  <2> HIDE DEF there
  <2> QED BY <1>0, GoToIs DEF TxDisable, At, Runs, IInv, TypeOK, Ctx
<1>2. TypeOK'
  <2>1. left[c] \in 1 .. MaxText /\ left' = [left EXCEPT ![c] = left[c] - 1]
    BY <1>1, TextAssumption DEF TxDisable, IInv, TypeOK
  <2>2. left' \in [Ctx -> 0 .. MaxText]
    BY <2>1, TextAssumption DEF IInv, TypeOK
  <2>3. \A d \in Ctx : pc'[d] = "idle" <=> left'[d] = 0
    <3> SUFFICES ASSUME NEW d \in Ctx PROVE pc'[d] = "idle" <=> left'[d] = 0
      OBVIOUS
    <3>1. pc'[d] = IF c = d THEN there ELSE pc[d]
      BY <1>1 DEF Ctx
    <3>2. left'[d] = IF c = d THEN left[c] - 1 ELSE left[d]
      BY <2>1 DEF IInv, TypeOK
    <3>3. QED BY <3>1, <3>2, <2>1, TextAssumption DEF IInv, TypeOK
  <2>4. pc' \in [Ctx -> {"idle", "enable", "clear", "put", "check", "disable"}]
    <3> HIDE DEF there
    <3> QED BY <1>0, GoToIs DEF IInv, TypeOK
  <2>5. QED BY <2>2, <2>3, <2>4 DEF TxDisable, IInv, TypeOK, historyVars
<1>3. QED
  BY <1>1, <1>2
     DEF TxDisable, IInv, TypeOK, InterruptOwns, InterruptWaitsForByte,
         MainBeforeWait, MainStuckInWindowOnly, CleanTransmitter,
         CleanTextIsSent, Announced, Ctx, historyVars

LEMMA NextIInv == IInv /\ [Next]_vars => IInv'
<1> SUFFICES ASSUME IInv, [Next]_vars PROVE IInv'
  OBVIOUS
<1>1. CASE Sent
  BY <1>1, SentIInv
<1>2. ASSUME NEW c \in Ctx, PutChar(c) PROVE IInv'
  BY <1>2, TxEnableIInv, EventClearIInv, PutIInv, CheckIInv, TxDisableIInv DEF PutChar
<1>3. ASSUME NEW c \in Ctx, NEW len \in 1 .. MaxText, WriteText(c, len) PROVE IInv'
  BY <1>3, PrintIInv
<1>4. CASE UNCHANGED vars
  BY <1>4, StutterIInv
<1>5. QED BY <1>1, <1>2, <1>3, <1>4 DEF Next

\* The inductive invariant: who has the transmitter started, who owes a TXDRDY and
\* what is in the transmitter, at every pair of places in uart_putchar_unlocked.
THEOREM UartTxInvariant == Spec => []IInv
  BY InitIInv, NextIInv, PTL DEF Spec

\* Each context is in a text exactly if bytes of it are left, for texts of any
\* length (the loop of _write).
THEOREM UartTxTypeCorrect == Spec => []TypeOK
<1>1. IInv => TypeOK BY DEF IInv
<1>2. QED BY <1>1, UartTxInvariant, PTL

\* The event interrupt never spins for a TXDRDY that cannot come.
THEOREM InterruptAnnounced == Spec => []InterruptWaitsForByte
<1>1. IInv => InterruptWaitsForByte BY DEF IInv
<1>2. QED BY <1>1, UartTxInvariant, PTL

\* main() does so only if it was interrupted between lines 93 and 94.
THEOREM MainWindow == Spec => []MainStuckInWindowOnly
<1>1. IInv => MainStuckInWindowOnly BY DEF IInv
<1>2. QED BY <1>1, UartTxInvariant, PTL

\* A text that nobody prints into is sent.
THEOREM CleanText == Spec => []CleanTextIsSent
<1>1. IInv => CleanTextIsSent BY DEF IInv
<1>2. QED BY <1>1, UartTxInvariant, PTL
=============================================================================
