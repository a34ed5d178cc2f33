-------------------------- MODULE SchedulerProofs --------------------------
(***************************************************************************)
(* For any number of tasks and any loop_ms.                                *)
(***************************************************************************)
EXTENDS Scheduler, TLAPS

-----------------------------------------------------------------------------
(* Lemmas on the operators of Task.                                        *)

(* start() leaves a task that is not stopped; stop() leaves a stopped task *)
(* alone; both leave allowWifiReconnect alone.                             *)
LEMMA StartTask ==
    ASSUME NEW list \in TaskList, NEW i \in Task
    PROVE  /\ start(list, i) \in TaskList
           /\ start(list, i)[i].state # "STOPPED"
           /\ start(list, i)[i].allowWifiReconnect = list[i].allowWifiReconnect
  BY DEF start, TaskList, TaskRecord, State

(* stop() leaves the flag alone, and never stops a task by itself.         *)
LEMMA StopTask ==
    ASSUME NEW list \in TaskList, NEW i \in Task
    PROVE  /\ stop(list, i) \in TaskList
           /\ stop(list, i)[i].state = "STOPPED" <=> list[i].state = "STOPPED"
           /\ stop(list, i)[i].allowWifiReconnect = list[i].allowWifiReconnect
<1>1. LoopMs[i] \in Nat /\ "STOPPING" \in State /\ list[i] \in TaskRecord
  BY TasksAssumption DEF State, TaskList
<1>. QED
  BY <1>1 DEF stop, TaskList, TaskRecord

(* Other tasks can neither take a task to STOPPED with start() and stop()  *)
(* nor change its allowWifiReconnect.                                      *)
LEMMA TouchedTask ==
    ASSUME NEW list \in TaskList, NEW i \in Task, NEW t \in Touched(list, i)
    PROVE  /\ t \in TaskRecord
           /\ t.state = "STOPPED" => list[i].state = "STOPPED"
           /\ t.allowWifiReconnect = list[i].allowWifiReconnect
<1>1. /\ start(list, i) \in TaskList
      /\ stop(list, i) \in TaskList
      /\ start(stop(list, i), i) \in TaskList
      /\ stop(start(list, i), i) \in TaskList
      /\ start(stop(start(list, i), i), i) \in TaskList
  BY StartTask, StopTask
<1>2. \A l \in TaskList : l[i] \in TaskRecord
  BY DEF TaskList
<1>3. \A l \in TaskList : /\ start(l, i)[i].state # "STOPPED"
                         /\ start(l, i)[i].allowWifiReconnect = l[i].allowWifiReconnect
  BY StartTask
<1>4. \A l \in TaskList : /\ stop(l, i)[i].state = "STOPPED" <=> l[i].state = "STOPPED"
                         /\ stop(l, i)[i].allowWifiReconnect = l[i].allowWifiReconnect
  BY StopTask
<1>5. CASE t = list[i]
  BY <1>2, <1>5
<1>6. CASE t = start(list, i)[i]
  BY <1>1, <1>2, <1>3, <1>6
<1>7. CASE t = stop(list, i)[i]
  BY <1>1, <1>2, <1>4, <1>7
<1>8. CASE t = start(stop(list, i), i)[i]
  BY <1>1, <1>2, <1>3, <1>4, <1>8
<1>9. CASE t = stop(start(list, i), i)[i]
  BY <1>1, <1>2, <1>3, <1>4, <1>9
<1>10. CASE t = start(stop(start(list, i), i), i)[i]
  BY <1>1, <1>2, <1>3, <1>4, <1>10
<1>. QED
  BY <1>5, <1>6, <1>7, <1>8, <1>9, <1>10 DEF Touched

(* allowWifiReconnect is the only field allow() writes, and state the only *)
(* one that hardStart() and hardStop() write.                              *)
LEMMA AllowTask ==
    ASSUME NEW list \in TaskList, NEW i \in Task, NEW b \in BOOLEAN
    PROVE  /\ allow(list, i, b) \in TaskList
           /\ allow(list, i, b)[i].allowWifiReconnect = b
           /\ allow(list, i, b)[i].state = list[i].state
  BY DEF allow, TaskList, TaskRecord

(* hardStart() and hardStop() write the state only.                        *)
LEMMA HardTask ==
    ASSUME NEW list \in TaskList, NEW i \in Task
    PROVE  /\ hardStart(list, i) \in TaskList
           /\ hardStart(list, i)[i].state = "RUNNING"
           /\ hardStop(list, i) \in TaskList
           /\ hardStop(list, i)[i].allowWifiReconnect = list[i].allowWifiReconnect
  BY DEF hardStart, hardStop, TaskList, TaskRecord, State

(* The update and the flagging of a pass neither stop a task nor restart   *)
(* one, and leave allowWifiReconnect alone.                                *)
LEMMA PassTask ==
    ASSUME NEW list \in TaskList
    PROVE  LET after == scheduler_updateTasks(scheduler_flagTasksToWaiting(list))
           IN  /\ after \in TaskList
               /\ \A i \in Task :
                     /\ (after[i].state = "STOPPED") <=> (list[i].state = "STOPPED")
                     /\ after[i].allowWifiReconnect = list[i].allowWifiReconnect
<1> USE TasksAssumption
<1> DEFINE flagged == scheduler_flagTasksToWaiting(list)
<1>1. flagged \in TaskList
  BY DEF scheduler_flagTasksToWaiting, FlagTask, TaskList, TaskRecord, State
<1>2. \A j \in Task : /\ (flagged[j].state = "STOPPED") <=> (list[j].state = "STOPPED")
                      /\ flagged[j].allowWifiReconnect = list[j].allowWifiReconnect
  BY DEF scheduler_flagTasksToWaiting, FlagTask, TaskList, TaskRecord, State
<1> HIDE DEF flagged
<1>3. ASSUME NEW t \in TaskRecord, NEW period \in Nat
      PROVE  /\ UpdateTask(t, period) \in TaskRecord
             /\ (UpdateTask(t, period).state = "STOPPED") <=> (t.state = "STOPPED")
             /\ UpdateTask(t, period).allowWifiReconnect = t.allowWifiReconnect
  <2>1. period \in Nat /\ "RUNNING" \in State
    BY DEF State
  <2>2. t.timer - 1 >= 1 => [t EXCEPT !.timer = t.timer - 1] \in TaskRecord
    BY DEF TaskRecord
  <2>3. [t EXCEPT !.state = "RUNNING"] \in TaskRecord
    BY <2>1 DEF TaskRecord
  <2>4. [t EXCEPT !.state = "RUNNING", !.timer = period] \in TaskRecord
    BY <2>1 DEF TaskRecord
  <2>5. UpdateTask(t, period) \in TaskRecord
    BY <2>2, <2>3, <2>4 DEF UpdateTask
  <2>6. /\ (UpdateTask(t, period).state = "STOPPED") <=> (t.state = "STOPPED")
        /\ UpdateTask(t, period).allowWifiReconnect = t.allowWifiReconnect
    BY DEF UpdateTask, TaskRecord, State
  <2>. QED
    BY <2>5, <2>6
<1>. QED
  BY <1>1, <1>2, <1>3 DEF scheduler_updateTasks, flagged, TaskList

-----------------------------------------------------------------------------
(* The states of the scheduler.                                            *)
LEMMA TypeInit == Init => TypeOK
<1> SUFFICES ASSUME Init
             PROVE  TypeOK
  OBVIOUS
<1> DEFINE Fresh == [state : {"STARTING", "STOPPED"}, timer : {0}, allowWifiReconnect : {TRUE}]
<1>1. ASSUME NEW r \in Fresh
      PROVE  r \in TaskRecord
  <2>1. r.state \in State
    BY DEF State
  <2>2. r.timer \in Nat
    OBVIOUS
  <2>3. r.allowWifiReconnect \in BOOLEAN
    OBVIOUS
  <2>. QED
    BY <2>1, <2>2, <2>3 DEF TaskRecord
<1>2. task_list \in [Task -> Fresh]
  BY DEF Init
<1> HIDE DEF Fresh
<1>3. task_list \in TaskList
  BY <1>1, <1>2 DEF TaskList
<1>. QED
  BY <1>3, TasksAssumption DEF Init, TypeOK

(* A call leaves every task a task, whoever it touched.                    *)
LEMMA LeavesType ==
    ASSUME task_list \in TaskList, NEW i \in Task, NEW Own,
           \A t \in Own : t \in TaskRecord,
           Leaves(i, Own)
    PROVE  task_list' \in TaskList
<1>1. \A j \in Task : task_list'[j] \in TaskRecord
  BY TouchedTask DEF Leaves
<1>. QED
  BY <1>1 DEF Leaves, TaskList

(* What each of the three calls makes of its own task: only deinit takes   *)
(* it to STOPPED, and deinit has given allowWifiReconnect back.            *)
LEMMA OwnTask ==
    ASSUME task_list \in TaskList, NEW i \in Task, NEW t
    PROVE  /\ t \in AfterInit(i) \cup AfterRunnable(i) =>
                 t \in TaskRecord /\ (t.state = "STOPPED" => task_list[i].state = "STOPPED")
           /\ t \in AfterDeinit(i) => t \in TaskRecord /\ t.allowWifiReconnect = TRUE
<1>0. \A list \in TaskList : list[i] \in TaskRecord
  BY DEF TaskList
<1>1. ASSUME t \in AfterInit(i)
      PROVE  t \in TaskRecord /\ (t.state = "STOPPED" => task_list[i].state = "STOPPED")
  <2>1. PICK b \in BOOLEAN :
           t \in {allow(task_list, i, b)[i], hardStart(allow(task_list, i, b), i)[i]}
    BY <1>1 DEF AfterInit
  <2>. QED
    BY <1>0, <2>1, AllowTask, HardTask
<1>2. ASSUME t \in AfterRunnable(i)
      PROVE  t \in TaskRecord /\ (t.state = "STOPPED" => task_list[i].state = "STOPPED")
  <2>1. PICK b \in BOOLEAN : t \in Touched(allow(task_list, i, b), i)
    BY <1>2 DEF AfterRunnable
  <2>. QED
    BY <2>1, AllowTask, TouchedTask
<1>3. ASSUME t \in AfterDeinit(i)
      PROVE  t \in TaskRecord /\ t.allowWifiReconnect = TRUE
  <2>1. /\ allow(task_list, i, TRUE) \in TaskList
        /\ allow(task_list, i, TRUE)[i].allowWifiReconnect = TRUE
    BY AllowTask
  <2>. QED
    BY <1>0, <1>3, <2>1, HardTask, ZenonT(60) DEF AfterDeinit
<1>. QED
  BY <1>1, <1>2, <1>3

(* Every step keeps the types.                                             *)
LEMMA TypeStep == TypeOK /\ [Next]_vars => TypeOK'
<1> SUFFICES ASSUME TypeOK, [Next]_vars
             PROVE  TypeOK'
  OBVIOUS
<1> USE DEF TypeOK
<1>1. CASE UNCHANGED vars
  BY <1>1 DEF vars
<1>2. CASE NextPass
  BY <1>2, PassTask, TasksAssumption DEF NextPass
<1>3. ASSUME NEW i \in Task, init(i) \/ runnable(i) \/ deinit(i)
      PROVE  TypeOK'
  <2>1. task_list' \in TaskList
    <3>1. CASE init(i)
      BY <3>1, OwnTask, LeavesType DEF init
    <3>2. CASE runnable(i)
      BY <3>2, OwnTask, LeavesType DEF runnable
    <3>3. CASE deinit(i)
      BY <3>3, OwnTask, LeavesType DEF deinit
    <3>. QED
      BY <1>3, <3>1, <3>2, <3>3
  <2>. QED
    BY <1>3, <2>1, TasksAssumption DEF init, runnable, deinit, Calls, Task
<1>. QED
  BY <1>1, <1>2, <1>3 DEF Next

(* Every task is always in one of the six states of task_state, and        *)
(* scheduler_runTasks is always at one of its tasks.                       *)
THEOREM TypeCorrect == Spec => []TypeOK
  BY TypeInit, TypeStep, PTL DEF Spec

(* Every step that keeps to the contract leaves a stopped task's flag set. *)
LEMMA StoppedIsSafeStep ==
    TypeOK /\ StoppedIsSafe /\ [Next]_vars => StoppedIsSafe'
<1> SUFFICES ASSUME TypeOK, StoppedIsSafe, [Next]_vars,
                    NEW j \in Task, task_list'[j].state = "STOPPED"
             PROVE  task_list'[j].allowWifiReconnect = TRUE
  BY DEF StoppedIsSafe
<1> USE DEF TypeOK, StoppedIsSafe
<1>1. CASE UNCHANGED vars
  BY <1>1 DEF vars
<1>2. CASE NextPass
  BY <1>2, PassTask DEF NextPass
<1>3. ASSUME NEW i \in Task, NEW Own, Leaves(i, Own), i # j
      PROVE  task_list'[j].allowWifiReconnect = TRUE
  BY <1>3, TouchedTask DEF Leaves
<1>4. ASSUME init(j) \/ runnable(j)
      PROVE  task_list'[j].allowWifiReconnect = TRUE
  <2>1. task_list[j].state \in {"STARTING", "RUNNING"}
    BY <1>4 DEF init, runnable, Calls, Due, Checks
  <2>2. task_list'[j] \in AfterInit(j) \cup AfterRunnable(j)
    BY <1>4 DEF init, runnable, Leaves
  <2>. QED
    BY <2>1, <2>2, OwnTask
<1>5. ASSUME deinit(j)
      PROVE  task_list'[j].allowWifiReconnect = TRUE
  BY <1>5, OwnTask DEF deinit, Leaves
<1>. QED
  BY <1>1, <1>2, <1>3, <1>4, <1>5 DEF Next, init, runnable, deinit

(* Whatever the tasks start and stop, and whatever their own handlers do   *)
(* with allowWifiReconnect, a task that has stopped never keeps the wifi   *)
(* from reconnecting: the only way to STOPPED is deinit.                   *)
THEOREM StoppedTasksAreSafe == Spec => []StoppedIsSafe
<1>1. Init => StoppedIsSafe
  BY DEF Init, StoppedIsSafe
<1>. QED
  BY <1>1, TypeCorrect, StoppedIsSafeStep, PTL DEF Spec

=============================================================================
