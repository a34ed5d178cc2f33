------------------------------- MODULE Tasks -------------------------------
(***************************************************************************)
(* The class Task (lib/tasks/_task_cfg.h, _task_cfg.cpp) and the two       *)
(* functions of the scheduler that change task_list without calling a     *)
(* task (lib/system/scheduler.h), as operators on the whole task_list.     *)
(*                                                                         *)
(* A task is numbered by its task_enum.  loop_ms, named for milliseconds,  *)
(* is compared with a timer that is decremented once per pass: it counts   *)
(* passes of the main loop.                                                *)
(***************************************************************************)
EXTENDS Integers

CONSTANTS
    MAX_TASKS,  \* number of entries of task_list
    LoopMs      \* loop_ms of every task, 0 for a task that runs every pass

Task == 0 .. MAX_TASKS - 1

ASSUME TasksAssumption ==
    /\ MAX_TASKS \in Nat
    /\ LoopMs \in [Task -> Nat]

State == {"STARTING", "RUNNING", "READY", "WAITING", "STOPPING", "STOPPED"}

(* The fields of a Task that change.  fptr and loop_ms never do.           *)
TaskRecord == [state : State, timer : Nat, allowWifiReconnect : BOOLEAN]

TaskList == [Task -> TaskRecord]

active(list, i) == list[i].state \in {"STARTING", "RUNNING", "READY", "WAITING"}

start(list, i) ==
    IF list[i].state \in {"STOPPED", "STOPPING"}
    THEN [list EXCEPT ![i].state = "STARTING"]
    ELSE list

(* Operators named f_... here and in the other modules are wrong versions  *)
(* of f, to see that the properties tell them apart.                       *)
stop_noReload(list, i) ==
    IF list[i].state # "STOPPED" THEN [list EXCEPT ![i].state = "STOPPING"] ELSE list

stop(list, i) ==
    IF list[i].state # "STOPPED"
    THEN [list EXCEPT ![i].state = "STOPPING", ![i].timer = LoopMs[i]]
    ELSE list

hardStart(list, i) == [list EXCEPT ![i].state = "RUNNING"]

hardStop(list, i) == [list EXCEPT ![i].state = "STOPPED"]

allow(list, i, b) == [list EXCEPT ![i].allowWifiReconnect = b]

UpdateTask_noReload(t, period) ==
    IF t.state = "WAITING" /\ t.timer - 1 >= 1
    THEN [t EXCEPT !.timer = t.timer - 1]
    ELSE IF t.state = "WAITING"
    THEN [t EXCEPT !.state = "RUNNING", !.timer = t.timer - 1]
    ELSE t

UpdateTask_late(t, period) ==
    IF t.state = "WAITING" /\ t.timer - 1 >= 0
    THEN [t EXCEPT !.timer = t.timer - 1]
    ELSE IF t.state = "WAITING"
    THEN [t EXCEPT !.state = "RUNNING", !.timer = period]
    ELSE t

(* A record of the task under one pass of scheduler_updateTasks.           *)
UpdateTask(t, period) ==
    IF t.state = "WAITING" /\ t.timer - 1 >= 1
    THEN [t EXCEPT !.timer = t.timer - 1]
    ELSE IF t.state = "WAITING"
    THEN [t EXCEPT !.state = "RUNNING", !.timer = period]
    ELSE IF t.state = "READY"
    THEN [t EXCEPT !.state = "RUNNING"]
    ELSE t

(* READY is passed through within one iteration of the loop: the second if *)
(* of the body sees the state the first one has just set.                  *)
scheduler_updateTasks(list) == [i \in Task |-> UpdateTask(list[i], LoopMs[i])]

FlagTask(t, period) ==
    IF t.state = "RUNNING" /\ period # 0
    THEN [t EXCEPT !.state = "WAITING"]
    ELSE t

scheduler_flagTasksToWaiting(list) == [i \in Task |-> FlagTask(list[i], LoopMs[i])]

=============================================================================
