---------------------------- MODULE ByteReceiver ----------------------------
(***************************************************************************)
(* What the receiving side of the shield's UART promises: bytes come in on *)
(* a line, a queue of Capacity bytes holds those that have not been read,  *)
(* the reader gets them in the order in which they came.  A byte that      *)
(* finds the queue full is lost, and no other.                             *)
(***************************************************************************)
EXTENDS Naturals, Sequences

CONSTANTS
    Byte,       \* the values of a byte
    Nul,        \* what the reader has before it has read anything
    Capacity    \* how many unread bytes are kept

VARIABLES
    line,       \* bytes received, not yet looked at
    queue,      \* bytes kept for the reader
    got         \* the byte that was read last

rvars == <<line, queue, got>>

Init ==
    /\ line = <<>>
    /\ queue = <<>>
    /\ got = Nul

Arrive(b) ==
    /\ line' = Append(line, b)
    /\ UNCHANGED <<queue, got>>

\* A received byte is queued, or lost if the queue is full.
Accept ==
    /\ line # <<>>
    /\ line' = Tail(line)
    /\ queue' = IF Len(queue) < Capacity THEN Append(queue, Head(line)) ELSE queue
    /\ UNCHANGED got

Deliver ==
    /\ queue # <<>>
    /\ got' = Head(queue)
    /\ queue' = Tail(queue)
    /\ UNCHANGED line

Next == (\E b \in Byte : Arrive(b)) \/ Accept \/ Deliver

Spec == Init /\ [][Next]_rvars

Fairness == WF_rvars(Accept) /\ WF_rvars(Deliver)
=============================================================================
