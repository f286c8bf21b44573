-------------------------- MODULE SchedulerProofs ---------------------------
(***************************************************************************)
(* Proofs about Scheduler, for a table of any size and any set of handles: *)
(* nobody survives scheduler_stop, task_delete cancels the thread of its   *)
(* task, and callbacks are not forgotten.                                  *)
(***************************************************************************)
EXTENDS Scheduler, TLAPS

\* The identifiers of the bitset are entries of the table.
LEMMA TidIsEntry == Tid \subseteq 0 .. MAX_NUM_TASKS - 1 /\ NoTid \notin Tid
  BY TasksAssumption DEF Tid, sizeInBytes, NoTid

LEMMA InitIInv == Init => IInv
<1> SUFFICES ASSUME Init PROVE IInv
  OBVIOUS
<1>1. TypeOK
  BY TasksAssumption DEF Init, TypeOK, MainState
<1>2. \A t \in Tid : ~ Live(t) /\ thread[t] = NoThread /\ pc[t] = "none"
  BY DEF Init, Live, LiveState
<1>3. main = "create" /\ registered = {}
  BY DEF Init
<1>4. QED
  BY <1>1, <1>2, <1>3
     DEF IInv, HandlesAreDistinct, CancelledBeforeFreed, NotDispatched, Stopped,
         NoSurvivor, SelfIsKnown, CallbackIsKept, CallbackIsOwed

LEMMA StutterIInv == IInv /\ UNCHANGED vars => IInv'
  BY DEF vars, tableVars, mainVars, taskVars, historyVars, IInv, TypeOK,
         HandlesAreDistinct, CancelledBeforeFreed, NotDispatched, Stopped, NoSurvivor,
         SelfIsKnown, CallbackIsKept, CallbackIsOwed, Live, Shared, Ahead

LEMMA TaskCreateIInv ==
  ASSUME IInv, TaskCreate
  PROVE  IInv'
<1> USE TidIsEntry, TasksAssumption, HandleAssumption
        DEF TaskCreate, IsFirst, tableVars, mainVars, taskVars, historyVars
<1>1. TypeOK'
  BY DEF IInv, TypeOK
<1>2. HandlesAreDistinct'
  BY DEF IInv, TypeOK, HandlesAreDistinct, Live, LiveState, EndState
<1>3. CancelledBeforeFreed'
  BY DEF IInv, TypeOK, CancelledBeforeFreed, Live, LiveState, EndState
<1>4. NotDispatched'
  BY DEF IInv, NotDispatched
<1>5. Stopped'
  BY DEF IInv, Stopped
<1>6. NoSurvivor'
  BY DEF IInv, NoSurvivor
<1>7. SelfIsKnown'
  BY DEF IInv, TypeOK, SelfIsKnown, Live, LiveState, EndState
<1>8. CallbackIsKept'
  BY DEF IInv, TypeOK, CallbackIsKept, SelfIsKnown, NotDispatched, Shared, Live, LiveState
<1>9. CallbackIsOwed'
  BY DEF IInv, TypeOK, CallbackIsOwed, CallbackIsKept, SelfIsKnown, NotDispatched,
         Shared, Live, LiveState, EndState
<1>10. QED
  BY <1>1, <1>2, <1>3, <1>4, <1>5, <1>6, <1>7, <1>8, <1>9 DEF IInv

LEMMA SchedulerRunIInv ==
  ASSUME IInv, SchedulerRun
  PROVE  IInv'
<1> USE TidIsEntry, TasksAssumption, HandleAssumption
        DEF SchedulerRun, tableVars, mainVars, taskVars, historyVars
<1>1. TypeOK'
  BY DEF IInv, TypeOK, MainState
<1>2. HandlesAreDistinct'
  BY DEF IInv, TypeOK, HandlesAreDistinct, Live, LiveState, EndState
<1>3. CancelledBeforeFreed'
  BY DEF IInv, TypeOK, CancelledBeforeFreed, Live, LiveState, EndState
<1>4. NotDispatched'
  BY DEF IInv, NotDispatched
<1>5. Stopped'
  BY DEF IInv, Stopped
<1>6. NoSurvivor'
  BY DEF IInv, NoSurvivor
<1>7. SelfIsKnown'
  BY DEF IInv, TypeOK, SelfIsKnown, Live, LiveState, EndState
<1>8. CallbackIsKept'
  BY DEF IInv, TypeOK, CallbackIsKept, SelfIsKnown, NotDispatched, Shared, Live, LiveState
<1>9. CallbackIsOwed'
  BY DEF IInv, TypeOK, CallbackIsOwed, CallbackIsKept, SelfIsKnown, NotDispatched,
         Shared, Live, LiveState, EndState
<1>10. QED
  BY <1>1, <1>2, <1>3, <1>4, <1>5, <1>6, <1>7, <1>8, <1>9 DEF IInv

LEMMA DispatchTaskIInv ==
  ASSUME IInv, DispatchTask
  PROVE  IInv'
<1> USE TidIsEntry, TasksAssumption, HandleAssumption
        DEF DispatchTask, Ahead, IsFirst, Unused, tableVars, mainVars, taskVars, historyVars
<1>0. PICK t \in Tid, h \in Unused :
        /\ t \in taskIDs /\ t >= i /\ i' = t + 1
        /\ thread' = [thread EXCEPT ![t] = h]
        /\ pc' = [pc EXCEPT ![t] = "run"]
  OBVIOUS
<1>a. main = "dispatch" /\ thread[t] = NoThread /\ pc[t] = "none" /\ t \notin registered
  BY <1>0 DEF IInv, TypeOK, NotDispatched
<1>b. \A u \in Tid : /\ thread'[u] = IF u = t THEN h ELSE thread[u]
                     /\ pc'[u] = IF u = t THEN "run" ELSE pc[u]
  BY <1>0, <1>a DEF IInv, TypeOK
<1>c. \A u \in Tid : thread[u] \in Handle => (Shared(u) => Shared(u)')
  <2> SUFFICES ASSUME NEW u \in Tid, thread[u] \in Handle, Shared(u) PROVE Shared(u)'
    OBVIOUS
  <2>1. PICK v \in Tid \ {u} : thread[v] = thread[u]
    BY DEF Shared
  <2>2. u # t /\ v # t
    BY <2>1, <1>a
  <2>3. QED BY <2>1, <2>2, <1>b DEF Shared
<1>1. TypeOK'
  BY DEF IInv, TypeOK, LiveState, EndState
<1>2. HandlesAreDistinct'
  BY <1>0, <1>a, <1>b DEF IInv, HandlesAreDistinct, Live, LiveState
<1>3. CancelledBeforeFreed'
  BY <1>0, <1>a, <1>b DEF IInv, CancelledBeforeFreed, Live, LiveState
<1>4. NotDispatched'
  <2>1. t \in Int /\ i \in Int /\ \A u \in Tid : u \in Int
    BY DEF IInv, TypeOK
  <2>2. ASSUME NEW u \in Tid, u >= t + 1
        PROVE  u # t /\ thread[u] = NoThread /\ pc[u] = "none" /\ u \notin registered
    BY <1>0, <1>a, <2>1, <2>2 DEF IInv, NotDispatched
  <2>3. QED BY <1>0, <1>a, <1>b, <2>2 DEF NotDispatched
<1>5. Stopped'
  BY <1>a DEF Stopped
<1>6. NoSurvivor'
  BY <1>a DEF NoSurvivor
<1>7. SelfIsKnown'
  <2> SUFFICES ASSUME NEW u \in Tid
               PROVE  /\ Live(u)' /\ pc'[u] # "run" =>
                           self'[u] \in Tid /\ thread'[self'[u]] = thread'[u]
                      /\ u \in registered' => thread'[u] \in Handle
    BY DEF SelfIsKnown
  <2>1. u \in registered' => thread'[u] \in Handle
    BY <1>a, <1>b DEF IInv, SelfIsKnown
  <2>2. ASSUME Live(u)', pc'[u] # "run"
        PROVE  self'[u] \in Tid /\ thread'[self'[u]] = thread'[u]
    <3>1. u # t /\ Live(u) /\ pc[u] # "run"
      BY <2>2, <1>b DEF Live, LiveState
    <3>2. self[u] \in Tid /\ thread[self[u]] = thread[u] /\ thread[u] \in Handle
      BY <3>1 DEF IInv, SelfIsKnown, HandlesAreDistinct
    <3>3. self[u] # t
      BY <3>2, <1>a
    <3>4. QED BY <3>1, <3>2, <3>3, <1>b
  <2>3. QED BY <2>1, <2>2
<1>8. CallbackIsKept'
  BY <1>c DEF IInv, TypeOK, SelfIsKnown, CallbackIsKept
<1>9. CallbackIsOwed'
  <2> SUFFICES ASSUME NEW u \in registered
               PROVE  \/ u \in called \/ pc'[u] = "returned" \/ Shared(u)'
                      \/ Live(u)' /\ u \notin cancelled /\ pc'[u] # "exitCallback"
    BY <1>a DEF CallbackIsOwed
  <2>1. u \in Tid /\ u # t /\ thread[u] \in Handle
    BY <1>a DEF IInv, TypeOK, SelfIsKnown
  <2>2. pc'[u] = pc[u]
    BY <2>1, <1>b
  <2>3. QED
    BY <1>a, <1>c, <2>1, <2>2 DEF IInv, CallbackIsOwed, Live
<1>10. QED
  BY <1>1, <1>2, <1>3, <1>4, <1>5, <1>6, <1>7, <1>8, <1>9 DEF IInv

LEMMA DispatchFailsIInv ==
  ASSUME IInv, DispatchFails
  PROVE  IInv'
<1> USE TidIsEntry, TasksAssumption, HandleAssumption
        DEF DispatchFails, Ahead, IsFirst, Unused, tableVars, mainVars, taskVars, historyVars
<1>0. PICK t \in Tid, h \in Unused \cup {NoThread} :
        /\ t \in taskIDs /\ t >= i /\ i' = t + 1
        /\ thread' = [thread EXCEPT ![t] = h]
  OBVIOUS
<1>a. main = "dispatch" /\ thread[t] = NoThread /\ pc[t] = "none" /\ t \notin registered
  BY <1>0 DEF IInv, TypeOK, NotDispatched
<1>b. \A u \in Tid : /\ thread'[u] = IF u = t THEN h ELSE thread[u]
                     /\ pc'[u] = IF u = t THEN "none" ELSE pc[u]
  BY <1>0, <1>a DEF IInv, TypeOK
<1>c. \A u \in Tid : thread[u] \in Handle => (Shared(u) => Shared(u)')
  <2> SUFFICES ASSUME NEW u \in Tid, thread[u] \in Handle, Shared(u) PROVE Shared(u)'
    OBVIOUS
  <2>1. PICK v \in Tid \ {u} : thread[v] = thread[u]
    BY DEF Shared
  <2>2. u # t /\ v # t
    BY <2>1, <1>a
  <2>3. QED BY <2>1, <2>2, <1>b DEF Shared
<1>1. TypeOK'
  BY DEF IInv, TypeOK
<1>2. HandlesAreDistinct'
  BY <1>0, <1>a, <1>b DEF IInv, HandlesAreDistinct, Live, LiveState
<1>3. CancelledBeforeFreed'
  BY <1>0, <1>a, <1>b DEF IInv, CancelledBeforeFreed, Live, LiveState
<1>4. NotDispatched'
  <2>1. t \in Int /\ i \in Int /\ \A u \in Tid : u \in Int
    BY DEF IInv, TypeOK
  <2>2. ASSUME NEW u \in Tid, u >= t + 1
        PROVE  u # t /\ thread[u] = NoThread /\ pc[u] = "none" /\ u \notin registered
    BY <1>0, <1>a, <2>1, <2>2 DEF IInv, NotDispatched
  <2>3. QED BY <1>0, <1>a, <1>b, <2>2 DEF NotDispatched
<1>5. Stopped'
  BY <1>a DEF Stopped
<1>6. NoSurvivor'
  BY <1>a DEF NoSurvivor
<1>7. SelfIsKnown'
  <2> SUFFICES ASSUME NEW u \in Tid
               PROVE  /\ Live(u)' /\ pc'[u] # "run" =>
                           self'[u] \in Tid /\ thread'[self'[u]] = thread'[u]
                      /\ u \in registered' => thread'[u] \in Handle
    BY DEF SelfIsKnown
  <2>1. u \in registered' => thread'[u] \in Handle
    BY <1>a, <1>b DEF IInv, SelfIsKnown
  <2>2. ASSUME Live(u)', pc'[u] # "run"
        PROVE  self'[u] \in Tid /\ thread'[self'[u]] = thread'[u]
    <3>1. u # t /\ Live(u) /\ pc[u] # "run"
      BY <2>2, <1>b DEF Live, LiveState
    <3>2. self[u] \in Tid /\ thread[self[u]] = thread[u] /\ thread[u] \in Handle
      BY <3>1 DEF IInv, SelfIsKnown, HandlesAreDistinct
    <3>3. self[u] # t
      BY <3>2, <1>a
    <3>4. QED BY <3>1, <3>2, <3>3, <1>b
  <2>3. QED BY <2>1, <2>2
<1>8. CallbackIsKept'
  BY <1>c DEF IInv, TypeOK, SelfIsKnown, CallbackIsKept
<1>9. CallbackIsOwed'
  <2> SUFFICES ASSUME NEW u \in registered
               PROVE  \/ u \in called \/ pc'[u] = "returned" \/ Shared(u)'
                      \/ Live(u)' /\ u \notin cancelled /\ pc'[u] # "exitCallback"
    BY <1>a DEF CallbackIsOwed
  <2>1. u \in Tid /\ u # t /\ thread[u] \in Handle
    BY <1>a DEF IInv, TypeOK, SelfIsKnown
  <2>2. pc'[u] = pc[u]
    BY <2>1, <1>b
  <2>3. QED
    BY <1>a, <1>c, <2>1, <2>2 DEF IInv, CallbackIsOwed, Live
<1>10. QED
  BY <1>1, <1>2, <1>3, <1>4, <1>5, <1>6, <1>7, <1>8, <1>9 DEF IInv

LEMMA RunReturnsIInv ==
  ASSUME IInv, RunReturns
  PROVE  IInv'
<1> USE TidIsEntry, TasksAssumption, HandleAssumption
        DEF RunReturns, Ahead, tableVars, mainVars, taskVars, historyVars
<1>1. TypeOK'
  BY DEF IInv, TypeOK, MainState
<1>2. HandlesAreDistinct'
  BY DEF IInv, TypeOK, HandlesAreDistinct, Live, LiveState, EndState
<1>3. CancelledBeforeFreed'
  BY DEF IInv, TypeOK, CancelledBeforeFreed, Live, LiveState, EndState
<1>4. NotDispatched'
  BY DEF IInv, NotDispatched
<1>5. Stopped'
  BY DEF IInv, Stopped
<1>6. NoSurvivor'
  BY DEF IInv, NoSurvivor
<1>7. SelfIsKnown'
  BY DEF IInv, TypeOK, SelfIsKnown, Live, LiveState, EndState
<1>8. CallbackIsKept'
  BY DEF IInv, TypeOK, CallbackIsKept, SelfIsKnown, NotDispatched, Shared, Live, LiveState
<1>9. CallbackIsOwed'
  BY DEF IInv, TypeOK, CallbackIsOwed, CallbackIsKept, SelfIsKnown, NotDispatched,
         Shared, Live, LiveState, EndState
<1>10. QED
  BY <1>1, <1>2, <1>3, <1>4, <1>5, <1>6, <1>7, <1>8, <1>9 DEF IInv

LEMMA TaskDeleteIInv ==
  ASSUME IInv, NEW t \in Tid, TaskDelete(t)
  PROVE  IInv'
<1> USE TidIsEntry, TasksAssumption, HandleAssumption
        DEF TaskDelete, tableVars, mainVars, taskVars, historyVars
<1>1. TypeOK'
  BY DEF IInv, TypeOK, MainState
<1>2. HandlesAreDistinct'
  BY DEF IInv, TypeOK, HandlesAreDistinct, Live, LiveState, EndState
<1>3. CancelledBeforeFreed'
  BY DEF IInv, TypeOK, CancelledBeforeFreed, Live, LiveState, EndState
<1>4. NotDispatched'
  BY DEF IInv, NotDispatched
<1>5. Stopped'
  BY DEF IInv, Stopped
<1>6. NoSurvivor'
  BY DEF IInv, NoSurvivor
<1>7. SelfIsKnown'
  BY DEF IInv, TypeOK, SelfIsKnown, Live, LiveState, EndState
<1>8. CallbackIsKept'
  BY DEF IInv, TypeOK, CallbackIsKept, SelfIsKnown, NotDispatched, Shared, Live, LiveState
<1>9. CallbackIsOwed'
  BY DEF IInv, TypeOK, CallbackIsOwed, CallbackIsKept, SelfIsKnown, NotDispatched,
         Shared, Live, LiveState, EndState
<1>10. QED
  BY <1>1, <1>2, <1>3, <1>4, <1>5, <1>6, <1>7, <1>8, <1>9 DEF IInv

LEMMA SchedulerStopIInv ==
  ASSUME IInv, SchedulerStop
  PROVE  IInv'
<1> USE TidIsEntry, TasksAssumption, HandleAssumption
        DEF SchedulerStop, tableVars, mainVars, taskVars, historyVars
<1>1. TypeOK'
  BY DEF IInv, TypeOK, MainState
<1>2. HandlesAreDistinct'
  BY DEF IInv, TypeOK, HandlesAreDistinct, Live, LiveState, EndState
<1>3. CancelledBeforeFreed'
  BY DEF IInv, TypeOK, CancelledBeforeFreed, Live, LiveState, EndState
<1>4. NotDispatched'
  BY DEF IInv, NotDispatched
<1>5. Stopped'
  BY DEF IInv, Stopped
<1>6. NoSurvivor'
  BY DEF IInv, NoSurvivor
<1>7. SelfIsKnown'
  BY DEF IInv, TypeOK, SelfIsKnown, Live, LiveState, EndState
<1>8. CallbackIsKept'
  BY DEF IInv, TypeOK, CallbackIsKept, SelfIsKnown, NotDispatched, Shared, Live, LiveState
<1>9. CallbackIsOwed'
  BY DEF IInv, TypeOK, CallbackIsOwed, CallbackIsKept, SelfIsKnown, NotDispatched,
         Shared, Live, LiveState, EndState
<1>10. QED
  BY <1>1, <1>2, <1>3, <1>4, <1>5, <1>6, <1>7, <1>8, <1>9 DEF IInv

LEMMA DeleteCancelIInv ==
  ASSUME IInv, DeleteCancel
  PROVE  IInv'
<1> USE TidIsEntry, TasksAssumption, HandleAssumption
        DEF DeleteCancel, Target, Reached, Ahead, IsFirst, tableVars, mainVars, taskVars,
            historyVars
<1>0. PICK t \in Tid : Target(t) /\ i' = t /\ Reached(t) # {} /\ cancelled' = cancelled \cup Reached(t)
  OBVIOUS
<1>a. t \in taskIDs /\ (main = "stop" => \A u \in taskIDs : u >= i => t <= u)
  BY <1>0 DEF IInv, TypeOK, Target, IsFirst, Ahead
<1>b. main = "stop" => \A u \in Tid : u < t /\ Live(u) => u \in cancelled
  <2> SUFFICES ASSUME main = "stop", NEW u \in Tid, u < t, Live(u) PROVE u \in cancelled
    OBVIOUS
  <2>1. CASE u < i
    BY <2>1 DEF IInv, Stopped
  <2>2. CASE ~ (u < i)
    <3>1. i \in Int /\ u \in Int /\ t \in Int
      BY DEF IInv, TypeOK
    <3>2. u \notin taskIDs
      BY <1>a, <2>2, <3>1
    <3>3. QED BY <3>2 DEF IInv, CancelledBeforeFreed
  <2>3. QED BY <2>1, <2>2
<1>1. TypeOK'
  <2>1. Reached(t) \subseteq Tid /\ t \in 0 .. MAX_NUM_TASKS
    OBVIOUS
  <2>2. main' \in {"deleteCallback", "stopCallback"}
    OBVIOUS
  <2> HIDE DEF Reached, Target
  <2>3. QED BY <1>0, <1>a, <2>1, <2>2 DEF IInv, TypeOK, MainState
<1>2. HandlesAreDistinct'
  BY DEF IInv, TypeOK, HandlesAreDistinct, Live, LiveState, EndState
<1>3. CancelledBeforeFreed'
  BY DEF IInv, TypeOK, CancelledBeforeFreed, Live, LiveState, EndState
<1>4. NotDispatched'
  BY DEF IInv, NotDispatched
<1>5. Stopped'
  BY <1>0, <1>b DEF Stopped, Live
<1>6. NoSurvivor'
  BY DEF IInv, NoSurvivor
<1>7. SelfIsKnown'
  BY DEF IInv, TypeOK, SelfIsKnown, Live, LiveState, EndState
<1>8. CallbackIsKept'
  BY DEF IInv, TypeOK, CallbackIsKept, SelfIsKnown, NotDispatched, Shared, Live, LiveState
<1>9. CallbackIsOwed'
  BY DEF IInv, TypeOK, CallbackIsOwed, CallbackIsKept, SelfIsKnown, NotDispatched,
         Shared, Live, LiveState, EndState
<1>10. QED
  BY <1>1, <1>2, <1>3, <1>4, <1>5, <1>6, <1>7, <1>8, <1>9 DEF IInv

LEMMA DeleteFailsIInv ==
  ASSUME IInv, DeleteFails
  PROVE  IInv'
<1> USE TidIsEntry, TasksAssumption, HandleAssumption
        DEF DeleteFails, Target, Reached, Ahead, IsFirst, tableVars, mainVars, taskVars,
            historyVars
<1>0. PICK t \in Tid : Target(t) /\ Reached(t) = {}
        /\ i' = IF main = "delete" THEN 0 ELSE t + 1
  OBVIOUS
<1>a. t \in taskIDs /\ (main = "stop" => \A u \in taskIDs : u >= i => t <= u)
  BY <1>0 DEF IInv, TypeOK, Target, IsFirst, Ahead
<1>b. main = "stop" => \A u \in Tid : u < t /\ Live(u) => u \in cancelled
  <2> SUFFICES ASSUME main = "stop", NEW u \in Tid, u < t, Live(u) PROVE u \in cancelled
    OBVIOUS
  <2>1. CASE u < i
    BY <2>1 DEF IInv, Stopped
  <2>2. CASE ~ (u < i)
    <3>1. i \in Int /\ u \in Int /\ t \in Int
      BY DEF IInv, TypeOK
    <3>2. u \notin taskIDs
      BY <1>a, <2>2, <3>1
    <3>3. QED BY <3>2 DEF IInv, CancelledBeforeFreed
  <2>3. QED BY <2>1, <2>2
<1>1. TypeOK'
  BY DEF IInv, TypeOK, MainState
<1>2. HandlesAreDistinct'
  BY DEF IInv, TypeOK, HandlesAreDistinct, Live, LiveState, EndState
<1>3. CancelledBeforeFreed'
  BY DEF IInv, TypeOK, CancelledBeforeFreed, Live, LiveState, EndState
<1>4. NotDispatched'
  BY DEF IInv, NotDispatched
<1>5. Stopped'
  <2>1. main' = "stop" => main = "stop" /\ i' = t + 1
    BY <1>0 DEF Target
  <2>2. ~ Live(t)
    BY <1>0
  <2>3. \A u \in Tid : u < t + 1 => u < t \/ u = t
    BY DEF IInv, TypeOK
  <2>4. QED BY <1>b, <2>1, <2>2, <2>3 DEF Stopped, Live
<1>6. NoSurvivor'
  BY DEF IInv, NoSurvivor
<1>7. SelfIsKnown'
  BY DEF IInv, TypeOK, SelfIsKnown, Live, LiveState, EndState
<1>8. CallbackIsKept'
  BY DEF IInv, TypeOK, CallbackIsKept, SelfIsKnown, NotDispatched, Shared, Live, LiveState
<1>9. CallbackIsOwed'
  BY DEF IInv, TypeOK, CallbackIsOwed, CallbackIsKept, SelfIsKnown, NotDispatched,
         Shared, Live, LiveState, EndState
<1>10. QED
  BY <1>1, <1>2, <1>3, <1>4, <1>5, <1>6, <1>7, <1>8, <1>9 DEF IInv

LEMMA DeleteDiesIInv ==
  ASSUME IInv, DeleteDies
  PROVE  IInv'
<1> USE TidIsEntry, TasksAssumption, HandleAssumption
        DEF DeleteDies, Target, Reached, Ahead, IsFirst, tableVars, mainVars, taskVars,
            historyVars
<1>1. TypeOK'
  BY DEF IInv, TypeOK, MainState, LiveState, EndState
<1>2. HandlesAreDistinct'
  BY DEF IInv, TypeOK, HandlesAreDistinct, Live, LiveState, EndState
<1>3. CancelledBeforeFreed'
  BY DEF IInv, TypeOK, CancelledBeforeFreed, Live, LiveState, EndState
<1>4. NotDispatched'
  BY DEF IInv, NotDispatched
<1>5. Stopped'
  BY DEF IInv, Stopped
<1>6. NoSurvivor'
  BY DEF IInv, NoSurvivor
<1>7. SelfIsKnown'
  BY DEF IInv, TypeOK, SelfIsKnown, Live, LiveState, EndState
<1>8. CallbackIsKept'
  BY DEF IInv, TypeOK, CallbackIsKept, SelfIsKnown, NotDispatched, Shared, Live, LiveState
<1>9. CallbackIsOwed'
  BY DEF IInv, CallbackIsOwed
<1>10. QED
  BY <1>1, <1>2, <1>3, <1>4, <1>5, <1>6, <1>7, <1>8, <1>9 DEF IInv

LEMMA DeleteCallbackIInv ==
  ASSUME IInv, DeleteCallback
  PROVE  IInv'
<1> USE TidIsEntry, TasksAssumption, HandleAssumption
        DEF DeleteCallback, Call, tableVars, mainVars, taskVars, historyVars
<1>1. TypeOK'
  BY DEF IInv, TypeOK, MainState
<1>2. HandlesAreDistinct'
  BY DEF IInv, TypeOK, HandlesAreDistinct, Live, LiveState, EndState
<1>3. CancelledBeforeFreed'
  BY DEF IInv, TypeOK, CancelledBeforeFreed, Live, LiveState, EndState
<1>4. NotDispatched'
  BY DEF IInv, NotDispatched
<1>5. Stopped'
  BY DEF IInv, TypeOK, Stopped, Live, LiveState, EndState
<1>6. NoSurvivor'
  BY DEF IInv, NoSurvivor
<1>7. SelfIsKnown'
  BY DEF IInv, TypeOK, SelfIsKnown, Live, LiveState, EndState
<1>8. CallbackIsKept'
  BY DEF IInv, TypeOK, CallbackIsKept, SelfIsKnown, NotDispatched, Shared, Live, LiveState
<1>9. CallbackIsOwed'
  BY DEF IInv, TypeOK, CallbackIsOwed, CallbackIsKept, SelfIsKnown, NotDispatched,
         Shared, Live, LiveState, EndState
<1>10. QED
  BY <1>1, <1>2, <1>3, <1>4, <1>5, <1>6, <1>7, <1>8, <1>9 DEF IInv

LEMMA DeleteBitIInv ==
  ASSUME IInv, DeleteBit
  PROVE  IInv'
<1> USE TidIsEntry, TasksAssumption, HandleAssumption
        DEF DeleteBit, tableVars, mainVars, taskVars, historyVars
<1>1. TypeOK'
  BY DEF IInv, TypeOK, MainState
<1>2. HandlesAreDistinct'
  BY DEF IInv, TypeOK, HandlesAreDistinct, Live, LiveState, EndState
<1>3. CancelledBeforeFreed'
  BY DEF IInv, TypeOK, CancelledBeforeFreed, Live, LiveState, EndState
<1>4. NotDispatched'
  BY DEF IInv, NotDispatched
<1>5. Stopped'
  BY DEF IInv, TypeOK, Stopped, CancelledBeforeFreed, Live, LiveState, EndState
<1>6. NoSurvivor'
  BY DEF IInv, NoSurvivor
<1>7. SelfIsKnown'
  BY DEF IInv, TypeOK, SelfIsKnown, Live, LiveState, EndState
<1>8. CallbackIsKept'
  BY DEF IInv, TypeOK, CallbackIsKept, SelfIsKnown, NotDispatched, Shared, Live, LiveState
<1>9. CallbackIsOwed'
  BY DEF IInv, TypeOK, CallbackIsOwed, CallbackIsKept, SelfIsKnown, NotDispatched,
         Shared, Live, LiveState, EndState
<1>10. QED
  BY <1>1, <1>2, <1>3, <1>4, <1>5, <1>6, <1>7, <1>8, <1>9 DEF IInv

LEMMA StopReturnsIInv ==
  ASSUME IInv, StopReturns
  PROVE  IInv'
<1> USE TidIsEntry, TasksAssumption, HandleAssumption
        DEF StopReturns, Ahead, tableVars, mainVars, taskVars, historyVars
<1>1. TypeOK'
  BY DEF IInv, TypeOK, MainState
<1>2. HandlesAreDistinct'
  BY DEF IInv, TypeOK, HandlesAreDistinct, Live, LiveState, EndState
<1>3. CancelledBeforeFreed'
  BY DEF IInv, TypeOK, CancelledBeforeFreed, Live, LiveState, EndState
<1>4. NotDispatched'
  BY DEF IInv, NotDispatched
<1>5. Stopped'
  BY DEF IInv, Stopped
<1>6. NoSurvivor'
  BY DEF IInv, TypeOK, NoSurvivor, Stopped, CancelledBeforeFreed, Live, LiveState, EndState
<1>7. SelfIsKnown'
  BY DEF IInv, TypeOK, SelfIsKnown, Live, LiveState, EndState
<1>8. CallbackIsKept'
  BY DEF IInv, TypeOK, CallbackIsKept, SelfIsKnown, NotDispatched, Shared, Live, LiveState
<1>9. CallbackIsOwed'
  BY DEF IInv, TypeOK, CallbackIsOwed, CallbackIsKept, SelfIsKnown, NotDispatched,
         Shared, Live, LiveState, EndState
<1>10. QED
  BY <1>1, <1>2, <1>3, <1>4, <1>5, <1>6, <1>7, <1>8, <1>9 DEF IInv

LEMMA FindSelfIInv ==
  ASSUME IInv, NEW t \in Tid, NEW to \in {"register", "exit"}, FindSelf(t, to)
  PROVE  IInv'
<1> USE TidIsEntry, TasksAssumption, HandleAssumption
        DEF FindSelf, GetSelfTid, Matches, IsFirst, tableVars, mainVars, taskVars,
            historyVars
<1>1. TypeOK'
  BY DEF IInv, TypeOK, LiveState, EndState
<1>2. HandlesAreDistinct'
  BY DEF IInv, TypeOK, HandlesAreDistinct, Live, LiveState, EndState
<1>3. CancelledBeforeFreed'
  BY DEF IInv, TypeOK, CancelledBeforeFreed, Live, LiveState, EndState
<1>4. NotDispatched'
  BY DEF IInv, NotDispatched
<1>5. Stopped'
  BY DEF IInv, TypeOK, Stopped, Live, LiveState, EndState
<1>6. NoSurvivor'
  BY DEF IInv, TypeOK, NoSurvivor, Live, LiveState, EndState
<1>7. SelfIsKnown'
  BY DEF IInv, TypeOK, SelfIsKnown, Live, LiveState, EndState
<1>8. CallbackIsKept'
  BY DEF IInv, TypeOK, CallbackIsKept, SelfIsKnown, NotDispatched, Shared, Live, LiveState
<1>9. CallbackIsOwed'
  BY DEF IInv, TypeOK, CallbackIsOwed, CallbackIsKept, SelfIsKnown, NotDispatched,
         Shared, Live, LiveState, EndState
<1>10. QED
  BY <1>1, <1>2, <1>3, <1>4, <1>5, <1>6, <1>7, <1>8, <1>9 DEF IInv

LEMMA RegisterCleanupCallbackIInv ==
  ASSUME IInv, NEW t \in Tid, RegisterCleanupCallback(t)
  PROVE  IInv'
<1> USE TidIsEntry, TasksAssumption, HandleAssumption
        DEF RegisterCleanupCallback, tableVars, mainVars, taskVars, historyVars
<1>1. TypeOK'
  BY DEF IInv, TypeOK, LiveState, EndState
<1>2. HandlesAreDistinct'
  BY DEF IInv, TypeOK, HandlesAreDistinct, Live, LiveState, EndState
<1>3. CancelledBeforeFreed'
  BY DEF IInv, TypeOK, CancelledBeforeFreed, Live, LiveState, EndState
<1>4. NotDispatched'
  BY DEF IInv, NotDispatched
<1>5. Stopped'
  BY DEF IInv, TypeOK, Stopped, Live, LiveState, EndState
<1>6. NoSurvivor'
  BY DEF IInv, TypeOK, NoSurvivor, Live, LiveState, EndState
<1>7. SelfIsKnown'
  BY DEF IInv, TypeOK, SelfIsKnown, HandlesAreDistinct, Live, LiveState, EndState
<1>8. CallbackIsKept'
  BY DEF IInv, TypeOK, CallbackIsKept, SelfIsKnown, NotDispatched, Shared, Live, LiveState
<1>9. CallbackIsOwed'
  BY DEF IInv, TypeOK, CallbackIsOwed, CallbackIsKept, SelfIsKnown, NotDispatched,
         Shared, Live, LiveState, EndState
<1>10. QED
  BY <1>1, <1>2, <1>3, <1>4, <1>5, <1>6, <1>7, <1>8, <1>9 DEF IInv

LEMMA TaskExitIInv ==
  ASSUME IInv, NEW t \in Tid, TaskExit(t)
  PROVE  IInv'
<1> USE TidIsEntry, TasksAssumption, HandleAssumption
        DEF TaskExit, Call, tableVars, mainVars, taskVars, historyVars
<1>0. self[t] \in Tid /\ thread[self[t]] = thread[t]
  BY DEF IInv, SelfIsKnown, Live, LiveState
<1>a. t \in registered => Shared(t) \/ t \in called'
  <2>1. CASE self[t] = t
    BY <2>1 DEF IInv, CallbackIsKept
  <2>2. CASE self[t] # t
    BY <1>0, <2>2 DEF Shared
  <2>3. QED BY <2>1, <2>2
<1>1. TypeOK'
  BY <1>0 DEF IInv, TypeOK, MainState, LiveState, EndState
<1>2. HandlesAreDistinct'
  BY DEF IInv, TypeOK, HandlesAreDistinct, Live, LiveState, EndState
<1>3. CancelledBeforeFreed'
  BY DEF IInv, TypeOK, CancelledBeforeFreed, Live, LiveState, EndState
<1>4. NotDispatched'
  BY DEF IInv, NotDispatched
<1>5. Stopped'
  BY DEF IInv, TypeOK, Stopped, Live, LiveState, EndState
<1>6. NoSurvivor'
  BY DEF IInv, TypeOK, NoSurvivor, Live, LiveState, EndState
<1>7. SelfIsKnown'
  BY DEF IInv, TypeOK, SelfIsKnown, Live, LiveState, EndState
<1>8. CallbackIsKept'
  BY DEF IInv, TypeOK, CallbackIsKept, SelfIsKnown, NotDispatched, Shared, Live, LiveState
<1>9. CallbackIsOwed'
  BY <1>a DEF IInv, TypeOK, CallbackIsOwed, Shared, Live, LiveState
<1>10. QED
  BY <1>1, <1>2, <1>3, <1>4, <1>5, <1>6, <1>7, <1>8, <1>9 DEF IInv

LEMMA ThreadExitsIInv ==
  ASSUME IInv, NEW t \in Tid, ThreadExits(t)
  PROVE  IInv'
<1> USE TidIsEntry, TasksAssumption, HandleAssumption
        DEF ThreadExits, End, tableVars, mainVars, taskVars, historyVars
<1>1. TypeOK'
  BY DEF IInv, TypeOK, LiveState, EndState
<1>2. HandlesAreDistinct'
  BY DEF IInv, TypeOK, HandlesAreDistinct, Live, LiveState, EndState
<1>3. CancelledBeforeFreed'
  BY DEF IInv, TypeOK, CancelledBeforeFreed, Live, LiveState, EndState
<1>4. NotDispatched'
  BY DEF IInv, NotDispatched
<1>5. Stopped'
  BY DEF IInv, TypeOK, Stopped, Live, LiveState, EndState
<1>6. NoSurvivor'
  BY DEF IInv, TypeOK, NoSurvivor, Live, LiveState, EndState
<1>7. SelfIsKnown'
  BY DEF IInv, TypeOK, SelfIsKnown, Live, LiveState, EndState
<1>8. CallbackIsKept'
  BY DEF IInv, TypeOK, CallbackIsKept, SelfIsKnown, NotDispatched, Shared, Live, LiveState
<1>9. CallbackIsOwed'
  BY DEF IInv, TypeOK, CallbackIsOwed, CallbackIsKept, SelfIsKnown, NotDispatched,
         Shared, Live, LiveState, EndState
<1>10. QED
  BY <1>1, <1>2, <1>3, <1>4, <1>5, <1>6, <1>7, <1>8, <1>9 DEF IInv

LEMMA RoutineReturnsIInv ==
  ASSUME IInv, NEW t \in Tid, RoutineReturns(t)
  PROVE  IInv'
<1> USE TidIsEntry, TasksAssumption, HandleAssumption
        DEF RoutineReturns, End, tableVars, mainVars, taskVars, historyVars
<1>1. TypeOK'
  BY DEF IInv, TypeOK, LiveState, EndState
<1>2. HandlesAreDistinct'
  BY DEF IInv, TypeOK, HandlesAreDistinct, Live, LiveState, EndState
<1>3. CancelledBeforeFreed'
  BY DEF IInv, TypeOK, CancelledBeforeFreed, Live, LiveState, EndState
<1>4. NotDispatched'
  BY DEF IInv, NotDispatched
<1>5. Stopped'
  BY DEF IInv, TypeOK, Stopped, Live, LiveState, EndState
<1>6. NoSurvivor'
  BY DEF IInv, TypeOK, NoSurvivor, Live, LiveState, EndState
<1>7. SelfIsKnown'
  BY DEF IInv, TypeOK, SelfIsKnown, Live, LiveState, EndState
<1>8. CallbackIsKept'
  BY DEF IInv, TypeOK, CallbackIsKept, SelfIsKnown, NotDispatched, Shared, Live, LiveState
<1>9. CallbackIsOwed'
  BY DEF IInv, TypeOK, CallbackIsOwed, CallbackIsKept, SelfIsKnown, NotDispatched,
         Shared, Live, LiveState, EndState
<1>10. QED
  BY <1>1, <1>2, <1>3, <1>4, <1>5, <1>6, <1>7, <1>8, <1>9 DEF IInv

LEMMA CancellationPointIInv ==
  ASSUME IInv, NEW t \in Tid, CancellationPoint(t)
  PROVE  IInv'
<1> USE TidIsEntry, TasksAssumption, HandleAssumption
        DEF CancellationPoint, End, tableVars, mainVars, taskVars, historyVars
<1>1. TypeOK'
  BY DEF IInv, TypeOK, LiveState, EndState
<1>2. HandlesAreDistinct'
  BY DEF IInv, TypeOK, HandlesAreDistinct, Live, LiveState, EndState
<1>3. CancelledBeforeFreed'
  BY DEF IInv, TypeOK, CancelledBeforeFreed, Live, LiveState, EndState
<1>4. NotDispatched'
  BY DEF IInv, TypeOK, NotDispatched, Live, LiveState
<1>5. Stopped'
  BY DEF IInv, TypeOK, Stopped, Live, LiveState, EndState
<1>6. NoSurvivor'
  BY DEF IInv, TypeOK, NoSurvivor, Live, LiveState, EndState
<1>7. SelfIsKnown'
  BY DEF IInv, TypeOK, SelfIsKnown, Live, LiveState, EndState
<1>8. CallbackIsKept'
  BY DEF IInv, TypeOK, CallbackIsKept, SelfIsKnown, NotDispatched, Shared, Live, LiveState
<1>9. CallbackIsOwed'
  BY DEF IInv, TypeOK, CallbackIsOwed, CallbackIsKept, SelfIsKnown, NotDispatched,
         Shared, Live, LiveState, EndState
<1>10. QED
  BY <1>1, <1>2, <1>3, <1>4, <1>5, <1>6, <1>7, <1>8, <1>9 DEF IInv

LEMMA NextIInv == IInv /\ [Next]_vars => IInv'
<1> SUFFICES ASSUME IInv, [Next]_vars PROVE IInv'
  OBVIOUS
<1>1. ASSUME NEW t \in Tid, TaskDelete(t) \/ Task(t) PROVE IInv'
  BY <1>1, TaskDeleteIInv, FindSelfIInv, RegisterCleanupCallbackIInv, TaskExitIInv,
     ThreadExitsIInv, RoutineReturnsIInv, CancellationPointIInv DEF Task
<1>2. CASE Stopping
  BY <1>2, DeleteCancelIInv, DeleteFailsIInv, DeleteDiesIInv, DeleteCallbackIInv,
     DeleteBitIInv, StopReturnsIInv DEF Stopping
<1>3. CASE UNCHANGED vars \/ Idle
  BY <1>3, StutterIInv DEF Idle
<1>4. QED
  BY <1>1, <1>2, <1>3, TaskCreateIInv, SchedulerRunIInv, DispatchTaskIInv,
     DispatchFailsIInv, RunReturnsIInv, SchedulerStopIInv DEF Next

\* The inductive invariant: whose handle, callback and bit an entry of the table
\* holds, and who is still going to cancel and call, at every place of main().
THEOREM SchedulerInvariant == Spec => []IInv
  BY InitIInv, NextIInv, PTL DEF Spec

\* The table keeps its types: no identifier is given out that the bitset does
\* not have, for a table of any size.
THEOREM SchedulerTypeCorrect == Spec => []TypeOK
<1>1. IInv => TypeOK BY DEF IInv
<1>2. QED BY <1>1, SchedulerInvariant, PTL

\* Nobody survives scheduler_stop.
THEOREM NobodySurvives == Spec => []NoSurvivor
<1>1. IInv => NoSurvivor BY DEF IInv
<1>2. QED BY <1>1, SchedulerInvariant, PTL

\* A registered callback was called when scheduler_stop returns.
THEOREM CleanupCalled == Spec => []CleanupNotForgotten
<1>1. IInv => CleanupNotForgotten
  BY DEF IInv, TypeOK, NoSurvivor, CallbackIsOwed, CleanupNotForgotten
<1>2. QED BY <1>1, SchedulerInvariant, PTL

LEMMA StepHitsItsTask ==
  ASSUME IInv, Next, NEW t \in Tid, NEW u \in cancelled' \ cancelled, Target(t)
  PROVE  u = t \/ Ended(t) \/ pc[t] = "none"
<1>1. DeleteCancel
  BY DEF Next, Stopping, Task, Idle, TaskCreate, SchedulerRun, DispatchTask, DispatchFails,
         RunReturns, TaskDelete, SchedulerStop, DeleteFails, DeleteDies, DeleteCallback,
         DeleteBit, StopReturns, FindSelf, RegisterCleanupCallback, TaskExit, ThreadExits,
         RoutineReturns, CancellationPoint, End, vars
<1>2. PICK v \in Tid : Target(v) /\ cancelled' = cancelled \cup Reached(v)
  BY <1>1 DEF DeleteCancel
<1>3. v = t
  BY <1>2, TidIsEntry DEF Target, IsFirst, Ahead
<1>4. u \in Tid /\ Live(u) /\ thread[u] = thread[t]
  BY <1>2, <1>3 DEF Reached
<1>5. Live(t) => u = t
  BY <1>4 DEF IInv, HandlesAreDistinct
<1>6. QED
  BY <1>5 DEF IInv, TypeOK, Live, Ended

\* task_delete cancels the thread of its task, if that has not ended by itself.
THEOREM DeleteHits == Spec => DeleteHitsItsTask
<1>1. IInv /\ [Next]_vars =>
        [\A t \in Tid, u \in cancelled' \ cancelled :
           Target(t) => u = t \/ Ended(t) \/ pc[t] = "none"]_vars
  BY StepHitsItsTask
<1>2. QED BY <1>1, SchedulerInvariant, PTL DEF Spec, DeleteHitsItsTask
=============================================================================
