------------------------------- MODULE Period -------------------------------
(***************************************************************************)
(* The period the scheduler gives to a task.  Two history variables say    *)
(* how long ago the task's fptr was called and whether its timer still     *)
(* has its static value 0 (the constructor assigns to its parameter of the *)
(* same name, so the member is only zeroed as a global); the scheduler     *)
(* itself has nothing but timer, which is decremented while the task waits *)
(* and reloaded by the update that ends the wait and by stop().            *)
(***************************************************************************)
EXTENDS Scheduler

VARIABLES
    since,      \* passes since the last init or runnable of each task
    fresh       \* the tasks whose timer has never been reloaded and used

pvars == <<task_list, turn, check, since, fresh>>

PInit ==
    /\ Init
    /\ since = [i \in Task |-> 0]
    /\ fresh = Task

(* The count of an inactive task means nothing and is kept at 0.           *)
PNextPass ==
    /\ NextPass
    /\ since' = [i \in Task |->
                    IF task_list[i].state \in {"RUNNING", "WAITING"}
                    THEN since[i] + 1 ELSE 0]
    /\ UNCHANGED fresh

(* The first call after a wait uses up the short first period; so does a   *)
(* stop(), which reloads the timer.                                        *)
PCall(i) ==
    /\ init(i) \/ runnable(i) \/ deinit(i)
    /\ since' = [since EXCEPT ![i] = 0]
    /\ fresh' = { j \in fresh :
                    /\ ~ (j = i /\ since[i] > 0)
                    /\ task_list'[j].timer = task_list[j].timer }

PNext == PNextPass \/ \E i \in Task : PCall(i)

PSpec == PInit /\ [][PNext]_pvars

PFairSpec == PSpec /\ WF_pvars(PNext)

-----------------------------------------------------------------------------
(* Passes from one runnable of a task to the next.                         *)
Interval(i) == IF LoopMs[i] = 0 THEN 1 ELSE LoopMs[i]

PTypeOK == TypeOK /\ since \in [Task -> Nat] /\ fresh \in SUBSET Task

(* No periodic task is ever late: while a task is active, whatever the     *)
(* other tasks start and stop in between, its runnable is called at most   *)
(* loop_ms passes after the previous call (every pass when loop_ms is 0).  *)
NeverOverdue == \A i \in Task :
    task_list[i].state \in {"RUNNING", "WAITING"} => since[i] <= Interval(i)

(* Nor is one early: a runnable is called in the turn of its init, or      *)
(* exactly loop_ms passes after the call before it; only the first wait of *)
(* a task that has never been stopped lasts a single pass.                 *)
RunsOnTime ==
    [][\A i \in Task : runnable(i) =>
          since[i] \in {0, Interval(i)} \/ (since[i] = 1 /\ i \in fresh)]_pvars

(* stop() takes effect: a task in STOPPING is stopped, or started afresh   *)
(* by another task, under no more than the fairness of the main loop.      *)
StopTakesEffect == \A i \in Task :
    task_list[i].state = "STOPPING" ~> task_list[i].state \in {"STOPPED", "STARTING"}

=============================================================================
