----------------------------- MODULE Scheduler ------------------------------
(***************************************************************************)
(* The task scheduler of the gateway, onyx/src/core/scheduler.cpp: a table *)
(* of tasks, each run by a detached POSIX thread.  main() creates tasks,   *)
(* starts them with scheduler_run, may delete some, and deletes the rest   *)
(* with scheduler_stop; the tasks register a cleanup callback, exit or     *)
(* return at any time.  Nothing in the table is locked.                    *)
(*                                                                         *)
(* A pthread_t is only good for as long as its thread lives: a later       *)
(* thread may get the same one.  What pthread_cancel does with one that is *)
(* not, is undefined; with the C library it returns an error or the        *)
(* program dies.                                                           *)
(*                                                                         *)
(* Calls that fail without changing anything are no steps.  What the       *)
(* routines do otherwise, their arguments and priorities are left out.     *)
(***************************************************************************)
EXTENDS Integers

CONSTANTS
    MAX_NUM_TASKS,
    Handle, NoThread        \* pthread_t, and the zero of a table entry

sizeInBytes(x) == x \div 8 + 1

\* The identifiers that the bitset taskIDs has, of MAX_NUM_TASKS entries.
Tid == 0 .. sizeInBytes(MAX_NUM_TASKS) - 1
NoTid == -1

ASSUME TasksAssumption == MAX_NUM_TASKS \in Nat \ {0}
ASSUME HandleAssumption == NoThread \notin Handle

VARIABLES
    taskIDs,                \* the members that are set
    callback,               \* sysTask[].cleanup_callback: whose is it?
    thread,                 \* sysTask[].thread
    main, i,                \* where main() is, and the task it is at
    pc, self,               \* where a task is, and what get_self_tid told it
    cancelled,              \* the tasks for whose threads a cancellation is pending
    registered,             \* history: those that registered their callback in time
    called                  \* history: those whose callback was called

tableVars == <<taskIDs, callback, thread>>
mainVars == <<main, i>>
taskVars == <<pc, self>>
historyVars == <<registered, called>>
vars == <<tableVars, mainVars, taskVars, cancelled, historyVars>>

MainState ==
    {"create", "dispatch", "running", "delete", "deleteCallback", "deleteBit",
     "stop", "stopCallback", "stopBit", "stopped", "died"}

LiveState == {"run", "register", "exit", "exitCallback"}
EndState == {"exited", "returned", "killed"}

Live(t) == pc[t] \in LiveState
Ended(t) == pc[t] \in EndState

TypeOK ==
    /\ taskIDs \subseteq Tid
    /\ callback \in [Tid -> Tid \cup {NoTid}]
    /\ thread \in [Tid -> Handle \cup {NoThread}]
    /\ main \in MainState /\ i \in 0 .. MAX_NUM_TASKS
    /\ main \in {"delete", "deleteCallback", "deleteBit", "stopCallback", "stopBit"} =>
         i \in taskIDs
    /\ pc \in [Tid -> {"none"} \cup LiveState \cup EndState]
    /\ self \in [Tid -> Tid \cup {NoTid}]
    /\ cancelled \subseteq Tid /\ registered \subseteq Tid /\ called \subseteq Tid

\* scheduler_init
Init ==
    /\ taskIDs = {}
    /\ callback = [t \in Tid |-> NoTid] /\ thread = [t \in Tid |-> NoThread]
    /\ main = "create" /\ i = 0
    /\ pc = [t \in Tid |-> "none"] /\ self = [t \in Tid |-> NoTid]
    /\ cancelled = {} /\ registered = {} /\ called = {}

-----------------------------------------------------------------------------
\* main()

\* assignNewTID takes the first identifier that is free.
IsFirst(t, S) == t \in S /\ \A u \in S : t <= u

\* Mutant: looks for one in the whole table.
TaskCreateOfTable ==
    /\ main = "create"
    /\ \E t \in 0 .. MAX_NUM_TASKS - 1 :
         IsFirst(t, (0 .. MAX_NUM_TASKS - 1) \ taskIDs) /\ taskIDs' = taskIDs \cup {t}
    /\ UNCHANGED <<callback, thread, mainVars, taskVars, cancelled, historyVars>>

TaskCreate ==
    /\ main = "create"
    /\ \E t \in Tid : IsFirst(t, Tid \ taskIDs) /\ taskIDs' = taskIDs \cup {t}
    /\ UNCHANGED <<callback, thread, mainVars, taskVars, cancelled, historyVars>>

SchedulerRun ==
    /\ main = "create" /\ main' = "dispatch" /\ i' = 0
    /\ UNCHANGED <<tableVars, taskVars, cancelled, historyVars>>

\* The loops of scheduler_run and scheduler_stop go to the next task there is.
Ahead == {t \in taskIDs : t >= i}

\* pthread_create: any handle that no living thread has.
Unused == {h \in Handle : \A t \in Tid : Live(t) => thread[t] # h}

DispatchTask ==
    /\ main = "dispatch"
    /\ \E t \in Tid, h \in Unused :
         /\ IsFirst(t, Ahead) /\ i' = t + 1
         /\ thread' = [thread EXCEPT ![t] = h]
         /\ pc' = [pc EXCEPT ![t] = "run"]
    /\ UNCHANGED <<taskIDs, callback, main, self, cancelled, historyVars>>

\* What a failing pthread_create leaves in the entry is undefined.  The
\* identifier stays taken.
DispatchFails ==
    /\ main = "dispatch"
    /\ \E t \in Tid, h \in Unused \cup {NoThread} :
         /\ IsFirst(t, Ahead) /\ i' = t + 1
         /\ thread' = [thread EXCEPT ![t] = h]
    /\ UNCHANGED <<taskIDs, callback, main, taskVars, cancelled, historyVars>>

RunReturns ==
    /\ main = "dispatch" /\ Ahead = {}
    /\ main' = "running" /\ i' = 0
    /\ UNCHANGED <<tableVars, taskVars, cancelled, historyVars>>

TaskDelete(t) ==
    /\ main = "running" /\ t \in taskIDs
    /\ main' = "delete" /\ i' = t
    /\ UNCHANGED <<tableVars, taskVars, cancelled, historyVars>>

SchedulerStop ==
    /\ main = "running" /\ main' = "stop" /\ i' = 0
    /\ UNCHANGED <<tableVars, taskVars, cancelled, historyVars>>

\* The task that task_delete is called for.
Target(t) ==
    \/ main = "delete" /\ t = i
    \/ main = "stop" /\ IsFirst(t, Ahead)

\* The tasks whose thread a pthread_cancel for the entry of t reaches.
Reached(t) == {u \in Tid : Live(u) /\ thread[u] = thread[t]}

\* Mutant: the identifier is given back without a look at the thread.
DeleteCancelNobody ==
    /\ \E t \in Tid : Target(t) /\ i' = t
    /\ main' = IF main = "delete" THEN "deleteCallback" ELSE "stopCallback"
    /\ UNCHANGED <<tableVars, taskVars, cancelled, historyVars>>

\* Mutant: cancels the thread of the next entry.
DeleteCancelNext ==
    /\ \E t \in Tid :
         /\ Target(t) /\ i' = t /\ Reached(t) # {}
         /\ cancelled' = cancelled \cup
              UNION {Reached(u) : u \in {v \in Tid : v = t + 1}}
    /\ main' = IF main = "delete" THEN "deleteCallback" ELSE "stopCallback"
    /\ UNCHANGED <<tableVars, taskVars, historyVars>>

DeleteCancel ==
    /\ \E t \in Tid :
         /\ Target(t) /\ i' = t /\ Reached(t) # {}
         /\ cancelled' = cancelled \cup Reached(t)
    /\ main' = IF main = "delete" THEN "deleteCallback" ELSE "stopCallback"
    /\ UNCHANGED <<tableVars, taskVars, historyVars>>

\* Nobody to cancel: task_delete fails, and the identifier stays taken.
DeleteFails ==
    /\ \E t \in Tid :
         /\ Target(t) /\ Reached(t) = {}
         /\ i' = IF main = "delete" THEN 0 ELSE t + 1
    /\ main' = IF main = "delete" THEN "running" ELSE "stop"
    /\ UNCHANGED <<tableVars, taskVars, cancelled, historyVars>>

DeleteDies ==
    /\ \E t \in Tid : Target(t) /\ Reached(t) = {}
    /\ main' = "died"
    /\ pc' = [t \in Tid |-> IF Live(t) THEN "killed" ELSE pc[t]]
    /\ UNCHANGED <<tableVars, i, self, cancelled, historyVars>>

Call(t) == called' = called \cup ({callback[t]} \ {NoTid})

DeleteCallback ==
    /\ main \in {"deleteCallback", "stopCallback"}
    /\ main' = IF main = "deleteCallback" THEN "deleteBit" ELSE "stopBit"
    /\ Call(i)
    /\ UNCHANGED <<tableVars, i, taskVars, cancelled, registered>>

DeleteBit ==
    /\ main \in {"deleteBit", "stopBit"}
    /\ taskIDs' = taskIDs \ {i}
    /\ IF main = "deleteBit" THEN main' = "running" /\ i' = 0
                             ELSE main' = "stop" /\ i' = i + 1
    /\ UNCHANGED <<callback, thread, taskVars, cancelled, historyVars>>

StopReturns ==
    /\ main = "stop" /\ Ahead = {}
    /\ main' = "stopped" /\ i' = 0
    /\ UNCHANGED <<tableVars, taskVars, cancelled, historyVars>>

-----------------------------------------------------------------------------
\* The tasks.

\* get_self_tid: the first entry with the caller's handle.
Matches(t) == {u \in taskIDs : thread[u] = thread[t]}
GetSelfTid(t, s) ==
    IF Matches(t) = {} THEN s = NoTid ELSE IsFirst(s, Matches(t))

\* task_register_cleanup_callback and task_exit find out who they are.
FindSelf(t, to) ==
    /\ pc[t] = "run"
    /\ \E s \in Tid \cup {NoTid} :
         /\ GetSelfTid(t, s) /\ s # NoTid
         /\ self' = [self EXCEPT ![t] = s]
    /\ pc' = [pc EXCEPT ![t] = to]
    /\ UNCHANGED <<tableVars, mainVars, cancelled, historyVars>>

RegisterCleanupCallback(t) ==
    /\ pc[t] = "register" /\ pc' = [pc EXCEPT ![t] = "run"]
    /\ callback' = [callback EXCEPT ![self[t]] = t]
    /\ registered' = registered \cup ({t} \ cancelled)
    /\ self' = [self EXCEPT ![t] = NoTid]
    /\ UNCHANGED <<taskIDs, thread, mainVars, cancelled, called>>

\* Mutant: the thread ends before the callback.
ExitAtOnce(t) ==
    /\ pc[t] = "exit" /\ pc' = [pc EXCEPT ![t] = "exited"]
    /\ UNCHANGED <<tableVars, mainVars, self, cancelled, historyVars>>

TaskExit(t) ==
    /\ pc[t] = "exit" /\ pc' = [pc EXCEPT ![t] = "exitCallback"]
    /\ Call(self[t])
    /\ UNCHANGED <<tableVars, mainVars, self, cancelled, registered>>

\* The thread ends: pthread_exit, the routine returns, or a cancellation.
End(t, how) ==
    /\ pc' = [pc EXCEPT ![t] = how]
    /\ self' = [self EXCEPT ![t] = NoTid]
    /\ cancelled' = cancelled \ {t}
    /\ UNCHANGED <<tableVars, mainVars, historyVars>>

ThreadExits(t) == pc[t] = "exitCallback" /\ End(t, "exited")
RoutineReturns(t) == pc[t] = "run" /\ End(t, "returned")
CancellationPoint(t) == Live(t) /\ t \in cancelled /\ End(t, "killed")

Task(t) ==
    \/ FindSelf(t, "register") \/ FindSelf(t, "exit")
    \/ RegisterCleanupCallback(t) \/ TaskExit(t)
    \/ ThreadExits(t) \/ RoutineReturns(t) \/ CancellationPoint(t)

-----------------------------------------------------------------------------
Stopping ==
    DeleteCancel \/ DeleteFails \/ DeleteDies \/ DeleteCallback \/ DeleteBit
      \/ StopReturns

\* main() stays in a loop when all is done.
Idle == main \in {"stopped", "died"} /\ (\A t \in Tid : ~ Live(t)) /\ UNCHANGED vars

Next ==
    \/ TaskCreate \/ SchedulerRun \/ DispatchTask \/ DispatchFails \/ RunReturns
    \/ SchedulerStop \/ Stopping \/ Idle
    \/ \E t \in Tid : TaskDelete(t) \/ Task(t)

Spec == Init /\ [][Next]_vars

\* main() goes on, and a task that was cancelled comes to a cancellation point.
FairSpec ==
    /\ Spec
    /\ WF_vars(Stopping) /\ \A t \in Tid : WF_vars(CancellationPoint(t))

-----------------------------------------------------------------------------
\* Has another entry the handle of t?
Shared(t) == \E u \in Tid \ {t} : thread[u] = thread[t]

\* Living threads have handles, each one its own.
HandlesAreDistinct ==
    \A t \in Tid : Live(t) =>
      /\ thread[t] \in Handle
      /\ \A u \in Tid : Live(u) /\ thread[u] = thread[t] => u = t

\* An identifier is given back only when the thread was cancelled or ended.
CancelledBeforeFreed ==
    /\ \A t \in Tid : Live(t) /\ t \notin cancelled => t \in taskIDs
    /\ main \in {"deleteCallback", "deleteBit", "stopCallback", "stopBit"} =>
         (Live(i) => i \in cancelled)

\* What scheduler_run has not come to yet, nobody has touched.
NotDispatched ==
    main \in {"create", "dispatch"} =>
      \A t \in Tid : main = "create" \/ t >= i =>
        thread[t] = NoThread /\ pc[t] = "none" /\ t \notin registered

\* What scheduler_stop has passed is cancelled or ended.
Stopped ==
    main \in {"stop", "stopCallback", "stopBit"} =>
      \A t \in Tid : t < i /\ Live(t) => t \in cancelled

\* A task knows itself, or one with the same handle.
SelfIsKnown ==
    \A t \in Tid :
      /\ Live(t) /\ pc[t] # "run" =>
           self[t] \in Tid /\ thread[self[t]] = thread[t]
      /\ t \in registered => thread[t] \in Handle

\* The callback of a task is in its entry, and is called unless the task returns.
CallbackIsKept ==
    \A t \in registered : callback[t] = t \/ Shared(t)

CallbackIsOwed ==
    main # "died" =>
      \A t \in registered :
        \/ t \in called \/ pc[t] = "returned" \/ Shared(t)
        \/ main \in {"deleteCallback", "stopCallback"} /\ i = t
        \/ Live(t) /\ t \notin cancelled /\ pc[t] # "exitCallback"

\* When scheduler_stop has returned no task runs on without a cancellation,
\* whatever calls of task_delete failed, and whoever has whose handle.
NoSurvivor ==
    main = "stopped" => \A t \in Tid : Live(t) => t \in cancelled

\* task_delete of a task whose thread has not ended by itself cancels no other.
DeleteHitsItsTask ==
    [][\A t \in Tid, u \in cancelled' \ cancelled :
         Target(t) => u = t \/ Ended(t) \/ pc[t] = "none"]_vars

\* The callback of a task that did not simply return was called when
\* scheduler_stop has returned, if the task has a handle of its own: by the task
\* in task_exit, or by task_delete, whoever was first.
CleanupNotForgotten ==
    main = "stopped" =>
      \A t \in registered : t \in called \/ pc[t] = "returned" \/ Shared(t)

IInv ==
    /\ TypeOK /\ HandlesAreDistinct /\ CancelledBeforeFreed /\ NotDispatched
    /\ Stopped /\ NoSurvivor /\ SelfIsKnown /\ CallbackIsKept /\ CallbackIsOwed

\* After scheduler_stop was called all tasks come to an end.
StopEndsTasks == main = "stop" ~> \A t \in Tid : ~ Live(t)
=============================================================================
