------------------------------- MODULE UartRx -------------------------------
(***************************************************************************)
(* The receiving side of the shield's UART: the hardware and its interrupt *)
(* handler (shield/src/hal/uart.cpp), the ring that the handler fills      *)
(* (shield/src/ds/circularBuffer.h) and the reader in main() that empties  *)
(* it.                                                                     *)
(*                                                                         *)
(* The interrupt preempts the reader between any two of its accesses to    *)
(* the ring; the hardware goes on receiving while the handler runs.  The   *)
(* handler may also be kept waiting, by the interrupt that handles the     *)
(* events of the SoftDevice at the same priority.                          *)
(***************************************************************************)
EXTENDS Naturals, Sequences

CONSTANTS
    Byte,       \* the values of a byte
    Nul,        \* the zero of static storage
    QLen,       \* qLen: size of the ring's array
    HwDepth     \* how many received bytes the hardware holds

ASSUME ByteAssumption == Nul \in Byte

ASSUME QLenAssumption == QLen \in Nat \ {0, 1} /\ QLen < 65536

ASSUME HwDepthAssumption == HwDepth \in Nat \ {0}

VARIABLES
    rxd,        \* bytes the hardware holds, the one in RXD first
    rxdrdy,     \* the event RXDRDY
    irq,        \* where UART0_IRQHandler is, and the byte it has read
    data, front, rear,      \* rx_buf
    reader,     \* where the reader is, and the byte it has copied
    got         \* the character that _read returned last

hwVars == <<rxd, rxdrdy>>
ringVars == <<data, front, rear>>
vars == <<hwVars, irq, ringVars, reader, got>>

Idx == 0 .. QLen - 1

TypeOK ==
    /\ rxd \in Seq(Byte) /\ Len(rxd) <= HwDepth
    /\ rxdrdy \in BOOLEAN
    /\ irq \in [at : {"idle", "get", "enque"}, byte : Byte]
    /\ data \in [Idx -> Byte]
    /\ front \in Idx /\ rear \in Idx
    /\ reader \in [at : {"wait", "deque", "advance"}, byte : Byte]
    /\ got \in Byte

\* When uart_cfg has enabled the interrupt and started the receiver.
Init ==
    /\ rxd = <<>> /\ rxdrdy = FALSE
    /\ irq = [at |-> "idle", byte |-> Nul]
    /\ data = [i \in Idx |-> Nul]
    /\ front = 0 /\ rear = 0
    /\ reader = [at |-> "wait", byte |-> Nul]
    /\ got = Nul

-----------------------------------------------------------------------------
\* The hardware: RXDRDY says that a byte has come into RXD.  A byte that comes
\* when the hardware is full never is in the system.

Receive(b) ==
    /\ Len(rxd) < HwDepth
    /\ rxd' = Append(rxd, b)
    /\ rxdrdy' = (rxdrdy \/ rxd = <<>>)
    /\ UNCHANGED <<irq, ringVars, reader, got>>

\* nrf51_uart_get: the next byte comes into RXD.
Get ==
    /\ rxd' = Tail(rxd)
    /\ rxdrdy' = (rxdrdy \/ Len(rxd) > 1)

-----------------------------------------------------------------------------
\* The ring.

\* Mutant: one entry is not kept free, a full ring looks empty.
EnqueAll(b) ==
    /\ data' = [data EXCEPT ![front] = b]
    /\ front' = (front + 1) % QLen

\* enque, without force.
Enque(b) ==
    LET next == (front + 1) % QLen
    IN  IF next = rear
          THEN UNCHANGED <<data, front>>
          ELSE /\ data' = [data EXCEPT ![front] = b]
               /\ front' = next

\* Mutant: rear runs out of the array.
RearNextUnwrapped == rear + 1

RearNext == (rear + 1) % QLen

IsEmpty == front = rear

-----------------------------------------------------------------------------
\* UART0_IRQHandler.

IrqClear ==
    /\ irq.at = "idle" /\ rxdrdy
    /\ rxdrdy' = FALSE
    /\ irq' = [irq EXCEPT !.at = "get"]
    /\ UNCHANGED <<rxd, ringVars, reader, got>>

\* Mutant: RXDRDY is cleared after RXD is read.
IrqGetThenClear ==
    /\ irq.at = "get"
    /\ rxd' = Tail(rxd) /\ rxdrdy' = FALSE
    /\ irq' = [at |-> "enque", byte |-> Head(rxd)]
    /\ UNCHANGED <<ringVars, reader, got>>

IrqGet ==
    /\ irq.at = "get"
    /\ Get
    /\ irq' = [at |-> "enque", byte |-> Head(rxd)]
    /\ UNCHANGED <<ringVars, reader, got>>

IrqEnque ==
    /\ irq.at = "enque"
    /\ Enque(irq.byte)
    /\ irq' = [irq EXCEPT !.at = "idle"]
    /\ UNCHANGED <<hwVars, rear, reader, got>>

Irq == IrqClear \/ IrqGet \/ IrqEnque

-----------------------------------------------------------------------------
\* _read in main(), which never runs while the handler does.

Thread == irq.at = "idle"

\* Mutant: it does not wait.
ReadAtOnce ==
    /\ Thread /\ reader.at = "wait"
    /\ reader' = [reader EXCEPT !.at = "deque"]
    /\ UNCHANGED <<hwVars, irq, ringVars, got>>

\* It leaves the loop that waits for a character.
ReadAvailable ==
    /\ Thread /\ reader.at = "wait"
    /\ ~IsEmpty
    /\ reader' = [reader EXCEPT !.at = "deque"]
    /\ UNCHANGED <<hwVars, irq, ringVars, got>>

\* deque copies the byte.  If it found the ring empty, uart_getchar_unlocked
\* would return an uninitialised byte.
ReadDeque ==
    /\ Thread /\ reader.at = "deque"
    /\ IF IsEmpty
         THEN /\ got' \in Byte
              /\ reader' = [reader EXCEPT !.at = "wait"]
         ELSE /\ reader' = [at |-> "advance", byte |-> data[rear]]
              /\ UNCHANGED got
    /\ UNCHANGED <<hwVars, irq, ringVars>>

\* Until rear moves on the entry that was copied stays taken.
ReadAdvance ==
    /\ Thread /\ reader.at = "advance"
    /\ rear' = RearNext
    /\ got' = reader.byte
    /\ reader' = [reader EXCEPT !.at = "wait"]
    /\ UNCHANGED <<hwVars, irq, data, front>>

Read == ReadAvailable \/ ReadDeque \/ ReadAdvance

Next == (\E b \in Byte : Receive(b)) \/ Irq \/ Read

Spec == Init /\ [][Next]_vars

\* A pending interrupt is served.  main() runs between two interrupts, however
\* many there are: a byte takes longer on the line than in the handler.
FairSpec == Spec /\ WF_vars(Irq) /\ SF_vars(Read)

-----------------------------------------------------------------------------
\* The ring as a queue.

Wrap(k) == IF k < QLen THEN k ELSE k - QLen

Used == IF rear <= front THEN front - rear ELSE front - rear + QLen

Unread == [k \in 1 .. Used |-> data[Wrap(rear + k - 1)]]

InHand == IF irq.at = "enque" THEN <<irq.byte>> ELSE <<>>

R == INSTANCE ByteReceiver WITH
        Capacity <- QLen - 1, line <- InHand \o rxd, queue <- Unread

\* A byte that waits in the hardware is announced, unless the handler is about
\* to read it: uart.cpp:147 clears the event before line 148 reads RXD.  If one
\* were not, no interrupt would come for it or for any byte behind it.
WaitingByteAnnounced == rxd # <<>> /\ irq.at # "get" => rxdrdy

\* The handler finds a byte in RXD, the reader one in the ring: neither
\* nrf51_uart_get nor uart_getchar_unlocked returns something never received.
NothingReadFromEmpty ==
    /\ irq.at = "get" => rxd # <<>>
    /\ reader.at \in {"deque", "advance"} => ~IsEmpty

\* What is copied is still in its entry when rear moves on.
CopyIsFirst == reader.at = "advance" => reader.byte = data[rear]

\* The handler never announces a byte that it takes away itself.
IInv ==
    /\ TypeOK
    /\ WaitingByteAnnounced
    /\ NothingReadFromEmpty
    /\ CopyIsFirst
    /\ rxdrdy => rxd # <<>> /\ irq.at # "get"

\* The UART does what ByteReceiver says: every byte that the hardware has taken
\* is read, once and in order, unless 127 unread ones are in rx_buf.
ImplementsReceiver == R!Spec

\* Every byte the hardware has taken is looked at, and what is kept is read.
ReceiverIsFair == R!Fairness
=============================================================================
