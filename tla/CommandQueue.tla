---------------------------- MODULE CommandQueue ----------------------------
(***************************************************************************)
(* What ATEngine promises its owner: commands are sent in the order in     *)
(* which they were queued, each one when the one before it was answered or *)
(* given up.  A command is given up, and what is queued behind it dropped, *)
(* only with an error that stays until the owner resets the engine.        *)
(***************************************************************************)
EXTENDS Naturals, Sequences

CONSTANT None       \* no command

VARIABLES
    queue,          \* the commands to send
    current,        \* the command that was sent and not yet answered, or None
    err             \* has the engine an error to report?

vars == <<queue, current, err>>

Init == current = None /\ err = FALSE

Queue ==
    /\ Len(queue') >= Len(queue)
    /\ \A i \in DOMAIN queue : queue'[i] = queue[i]
    /\ UNCHANGED <<current, err>>

Send ==
    /\ current = None /\ queue # <<>>
    /\ current' = Head(queue) /\ queue' = Tail(queue)
    /\ UNCHANGED err

Finish ==
    /\ current # None /\ current' = None
    /\ UNCHANGED <<queue, err>>

Fail ==
    /\ current # None /\ current' = None
    /\ err' = TRUE
    /\ UNCHANGED queue

Drop ==
    /\ err /\ current = None
    /\ queue' = <<>>
    /\ UNCHANGED <<current, err>>

Reset ==
    /\ err /\ err' = FALSE
    /\ queue' = <<>> /\ current' = None

Next == Queue \/ Send \/ Finish \/ Fail \/ Drop \/ Reset

Spec == Init /\ [][Next]_vars
=============================================================================
