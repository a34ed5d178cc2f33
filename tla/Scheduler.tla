----------------------------- MODULE Scheduler -----------------------------
(***************************************************************************)
(* The cooperative scheduler (lib/system/scheduler.h) with tasks that are  *)
(* only known by the contract of _task_cfg.h:                              *)
(*   - every task may start() and stop() any task, any number of times;    *)
(*   - hardStart() and hardStop() are called by a task for itself only;    *)
(*   - init and runnable may clear the task's own allowWifiReconnect, and  *)
(*     deinit sets it again.                                               *)
(* The dispatcher of every task has the same shape (STARTING: init, then   *)
(* hardStart; RUNNING: runnable; STOPPING: deinit, then hardStop), except  *)
(* that fillITK_init may leave its task in STARTING.                       *)
(*                                                                         *)
(* Nothing runs concurrently on the board: a step is one call of a fptr,   *)
(* or the end of a pass and the update that begins the next one.           *)
(***************************************************************************)
EXTENDS Tasks

VARIABLES
    task_list,
    turn,       \* the task whose if-statements scheduler_runTasks is at ...
    check       \* ... and the last of them that has been evaluated, 0..3

vars == <<task_list, turn, check>>

Checks_noDeinit == <<"STARTING", "RUNNING", "READY">>

(* The three if-statements of scheduler_runTasks, in their order.          *)
Checks == <<"STARTING", "RUNNING", "STOPPING">>

Later(i, c) == turn < i \/ (turn = i /\ check < c)

Due(i, c) == task_list[i].state = Checks[c] /\ Later(i, c)

(* The next if-statement whose condition holds is the c-th one of task i.  *)
(* The tests in between have no effect, so they are not steps.             *)
Calls(i, c) ==
    /\ Due(i, c)
    /\ \A j \in Task, d \in 1 .. 3 : Due(j, d) => (i < j \/ (i = j /\ c <= d))
    /\ turn' = i
    /\ check' = c

PassOver == \A i \in Task, c \in 1 .. 3 : ~Due(i, c)

(* The end of scheduler_run and the beginning of the next one.             *)
NextPass ==
    /\ PassOver
    /\ task_list' = scheduler_updateTasks(scheduler_flagTasksToWaiting(task_list))
    /\ turn' = 0
    /\ check' = 0

(* What any sequence of start() and stop() can make of a task.             *)
Touched(list, i) ==
    { list[i], start(list, i)[i], stop(list, i)[i],
      start(stop(list, i), i)[i], stop(start(list, i), i)[i],
      start(stop(start(list, i), i), i)[i] }

(* A call of task i's fptr leaves i itself as one of Own and any other     *)
(* task as start() and stop() can leave it.                                *)
Leaves(i, Own) ==
    /\ task_list' \in [Task -> Own \cup UNION {Touched(task_list, j) : j \in Task \ {i}}]
    /\ task_list'[i] \in Own
    /\ \A j \in Task \ {i} : task_list'[j] \in Touched(task_list, j)

Init ==
    /\ task_list \in [Task -> [state : {"STARTING", "STOPPED"},
                               timer : {0}, allowWifiReconnect : {TRUE}]]
    /\ turn = MAX_TASKS
    /\ check = 0

AfterInit(i) ==
    UNION { {allow(task_list, i, b)[i], hardStart(allow(task_list, i, b), i)[i]} :
              b \in BOOLEAN }

AfterRunnable(i) ==
    UNION { Touched(allow(task_list, i, b), i) : b \in BOOLEAN }

AfterDeinit_unsafe(i) ==
    { hardStop(task_list, i)[i] }

AfterDeinit(i) ==
    { hardStop(allow(task_list, i, TRUE), i)[i] }

init(i) == Calls(i, 1) /\ Leaves(i, AfterInit(i))

runnable(i) == Calls(i, 2) /\ Leaves(i, AfterRunnable(i))

deinit(i) == Calls(i, 3) /\ Leaves(i, AfterDeinit(i))

Next == NextPass \/ \E i \in Task : init(i) \/ runnable(i) \/ deinit(i)

Spec == Init /\ [][Next]_vars

FairSpec == Spec /\ WF_vars(Next)

-----------------------------------------------------------------------------
TypeOK ==
    /\ task_list \in TaskList
    /\ turn \in 0 .. MAX_TASKS
    /\ check \in 0 .. 3

(* A task that has stopped has given back what its init took: wifi_retry   *)
(* (wifi.h:362) may reconnect, and nobody is left who would switch off     *)
(* what the task had switched on (_task_cfg.h:67, 78).                     *)
StoppedIsSafe == \A i \in Task :
    task_list[i].state = "STOPPED" => task_list[i].allowWifiReconnect = TRUE

=============================================================================
