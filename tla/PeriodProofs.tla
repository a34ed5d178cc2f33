---------------------------- MODULE PeriodProofs ----------------------------
(***************************************************************************)
(* The period theorems, for any number of tasks and any loop_ms.  Neither  *)
(* NeverOverdue nor RunsOnTime is inductive: both follow from how timer    *)
(* and since move together (Paced).                                        *)
(***************************************************************************)
EXTENDS Period, SchedulerProofs

(* A waiting task's timer and its age add up to loop_ms; any other task's  *)
(* timer is loaded, or still fresh and the task of age 0; a running task   *)
(* whose turn is to come is on time, and one whose turn has passed has     *)
(* just been called.                                                       *)
PacedTask(i) ==
    LET t == task_list[i] IN
    /\ t.state # "READY"
    /\ t.state = "WAITING" => t.timer >= 1 /\ since[i] + t.timer = LoopMs[i]
    /\ t.state # "WAITING" =>
          t.timer = LoopMs[i] \/ (t.timer = 0 /\ since[i] = 0 /\ i \in fresh)
    /\ t.state = "RUNNING" /\ Later(i, 2) =>
          since[i] \in {0, Interval(i)} \/ (since[i] = 1 /\ i \in fresh)
    /\ t.state = "RUNNING" /\ ~Later(i, 2) => since[i] = 0

Paced == \A i \in Task : PacedTask(i)

PInv == PTypeOK /\ Paced

-----------------------------------------------------------------------------
(* Another task's start() and stop() leave a task as it was, or in one of  *)
(* the two states that wait for its dispatcher; a task that was waiting    *)
(* then has its timer reloaded.                                            *)
LEMMA TouchedTimer ==
    ASSUME NEW list \in TaskList, NEW i \in Task, NEW t \in Touched(list, i)
    PROVE  \/ t = list[i]
           \/ /\ t.state \in {"STARTING", "STOPPING"}
              /\ \/ t.timer = LoopMs[i]
                 \/ t.timer = list[i].timer /\ list[i].state # "WAITING"
<1> DEFINE Ok(l) == \/ l[i] = list[i]
                    \/ /\ l[i].state \in {"STARTING", "STOPPING"}
                       /\ \/ l[i].timer = LoopMs[i]
                          \/ l[i].timer = list[i].timer /\ list[i].state # "WAITING"
<1>1. ASSUME NEW l \in TaskList, Ok(l)
      PROVE  /\ start(l, i) \in TaskList
             /\ Ok(start(l, i))
  <2>1. start(l, i) \in TaskList
    BY StartTask
  <2>2. CASE l[i].state \in {"STOPPED", "STOPPING"}
    <3>1. /\ start(l, i)[i].state = "STARTING"
          /\ start(l, i)[i].timer = l[i].timer
      BY <2>2 DEF start, TaskList, TaskRecord
    <3>. QED
      BY <1>1, <2>1, <2>2, <3>1
  <2>3. CASE l[i].state \notin {"STOPPED", "STOPPING"}
    BY <1>1, <2>1, <2>3 DEF start
  <2>. QED
    BY <2>2, <2>3
<1>2. ASSUME NEW l \in TaskList, Ok(l)
      PROVE  /\ stop(l, i) \in TaskList
             /\ Ok(stop(l, i))
  <2>1. stop(l, i) \in TaskList
    BY StopTask
  <2>2. CASE l[i].state # "STOPPED"
    <3>1. /\ stop(l, i)[i].state = "STOPPING"
          /\ stop(l, i)[i].timer = LoopMs[i]
      BY <2>2 DEF stop, TaskList, TaskRecord
    <3>. QED
      BY <2>1, <3>1
  <2>3. CASE l[i].state = "STOPPED"
    BY <1>2, <2>1, <2>3 DEF stop
  <2>. QED
    BY <2>2, <2>3
<1>3. Ok(list)
  OBVIOUS
<1> HIDE DEF Ok
<1>4. /\ Ok(start(list, i))
      /\ Ok(stop(list, i))
      /\ Ok(start(stop(list, i), i))
      /\ Ok(stop(start(list, i), i))
      /\ Ok(start(stop(start(list, i), i), i))
  BY <1>1, <1>2, <1>3
<1>5. PICK l : t = l[i] /\ Ok(l)
  BY <1>3, <1>4 DEF Touched
<1>. QED
  BY <1>5 DEF Ok

(* The fields of the task whose fptr is called.                            *)
LEMMA OwnTimer ==
    ASSUME task_list \in TaskList, NEW i \in Task, NEW t
    PROVE  /\ t \in AfterInit(i) =>
                 /\ t.state \in {"RUNNING", task_list[i].state}
                 /\ t.timer = task_list[i].timer
           /\ t \in AfterRunnable(i) =>
                 \/ t.state = task_list[i].state /\ t.timer = task_list[i].timer
                 \/ /\ t.state \in {"STARTING", "STOPPING"}
                    /\ \/ t.timer = LoopMs[i]
                       \/ t.timer = task_list[i].timer /\ task_list[i].state # "WAITING"
           /\ t \in AfterDeinit(i) =>
                 t.state = "STOPPED" /\ t.timer = task_list[i].timer
<1>1. ASSUME NEW b \in BOOLEAN
      PROVE  /\ allow(task_list, i, b) \in TaskList
             /\ allow(task_list, i, b)[i].state = task_list[i].state
             /\ allow(task_list, i, b)[i].timer = task_list[i].timer
  BY <1>1 DEF allow, TaskList, TaskRecord
<1>2. ASSUME NEW list \in TaskList
      PROVE  /\ hardStart(list, i)[i].state = "RUNNING"
             /\ hardStart(list, i)[i].timer = list[i].timer
             /\ hardStop(list, i)[i].state = "STOPPED"
             /\ hardStop(list, i)[i].timer = list[i].timer
  BY <1>2 DEF hardStart, hardStop, TaskList, TaskRecord
<1>3. ASSUME t \in AfterInit(i)
      PROVE  /\ t.state \in {"RUNNING", task_list[i].state}
             /\ t.timer = task_list[i].timer
  <2>1. PICK b \in BOOLEAN :
           t \in {allow(task_list, i, b)[i], hardStart(allow(task_list, i, b), i)[i]}
    BY <1>3 DEF AfterInit
  <2>. QED
    BY <2>1, <1>1, <1>2
<1>4. ASSUME t \in AfterRunnable(i)
      PROVE  \/ t.state = task_list[i].state /\ t.timer = task_list[i].timer
             \/ /\ t.state \in {"STARTING", "STOPPING"}
                /\ \/ t.timer = LoopMs[i]
                   \/ t.timer = task_list[i].timer /\ task_list[i].state # "WAITING"
  <2>1. PICK b \in BOOLEAN : t \in Touched(allow(task_list, i, b), i)
    BY <1>4 DEF AfterRunnable
  <2>. QED
    BY <2>1, <1>1, TouchedTimer
<1>5. ASSUME t \in AfterDeinit(i)
      PROVE  t.state = "STOPPED" /\ t.timer = task_list[i].timer
  <2>1. t = hardStop(allow(task_list, i, TRUE), i)[i]
    BY <1>5 DEF AfterDeinit
  <2>. QED
    BY <2>1, <1>1, <1>2
<1>. QED
  BY <1>3, <1>4, <1>5

(* One pass of flagging and updating, for one task.                        *)
LEMMA PassTimer ==
    ASSUME NEW list \in TaskList, NEW i \in Task
    PROVE  LET a == scheduler_updateTasks(scheduler_flagTasksToWaiting(list))[i]
               t == list[i]
               waits == t.state = "WAITING" \/ (t.state = "RUNNING" /\ LoopMs[i] # 0)
           IN  /\ waits /\ t.timer - 1 >= 1 =>
                     a.state = "WAITING" /\ a.timer = t.timer - 1
               /\ waits /\ t.timer - 1 < 1 =>
                     a.state = "RUNNING" /\ a.timer = LoopMs[i]
               /\ ~waits /\ t.state # "READY" =>
                     a.state = t.state /\ a.timer = t.timer
<1> DEFINE f == FlagTask(list[i], LoopMs[i])
           a == scheduler_updateTasks(scheduler_flagTasksToWaiting(list))[i]
<1>1. a = UpdateTask(f, LoopMs[i])
  BY DEF scheduler_updateTasks, scheduler_flagTasksToWaiting
<1>2. list[i] \in TaskRecord
  BY DEF TaskList
<1>3. /\ f \in TaskRecord
      /\ f.timer = list[i].timer
      /\ f.state = IF list[i].state = "RUNNING" /\ LoopMs[i] # 0
                   THEN "WAITING" ELSE list[i].state
  BY <1>2 DEF FlagTask, TaskRecord, State
<1> HIDE DEF f, a
<1>4. /\ f.state = "WAITING" /\ f.timer - 1 >= 1 =>
            a.state = "WAITING" /\ a.timer = f.timer - 1
      /\ f.state = "WAITING" /\ f.timer - 1 < 1 =>
            a.state = "RUNNING" /\ a.timer = LoopMs[i]
      /\ f.state \notin {"WAITING", "READY"} => a = f
  BY <1>1, <1>3 DEF UpdateTask, TaskRecord
<1>. QED
  BY <1>2, <1>3, <1>4 DEF f, a, TaskRecord

-----------------------------------------------------------------------------
(* A fresh task has timer 0 and age 0.                                     *)
LEMMA PacedInit == PInit => Paced
<1> SUFFICES ASSUME PInit, NEW i \in Task
             PROVE  PacedTask(i)
  BY DEF Paced
<1>1. /\ task_list[i].state \in {"STARTING", "STOPPED"}
      /\ task_list[i].timer = 0
      /\ since[i] = 0
      /\ i \in fresh
  BY DEF PInit, Init
<1>. QED
  BY <1>1 DEF PacedTask

(* At the end of a pass every running task has had its turn; at the        *)
(* beginning of the next, every task has its turn to come.                 *)
LEMMA PacedPass ==
    ASSUME PTypeOK, Paced, PNextPass
    PROVE  Paced'
<1> SUFFICES ASSUME NEW i \in Task
             PROVE  PacedTask(i)'
  BY DEF Paced
<1> DEFINE t == task_list[i]
           waits == t.state = "WAITING" \/ (t.state = "RUNNING" /\ LoopMs[i] # 0)
<1>1. /\ t \in TaskRecord
      /\ LoopMs[i] \in Nat
      /\ since[i] \in Nat
  BY TasksAssumption DEF PTypeOK, TypeOK, TaskList
<1>2. /\ turn' = 0 /\ check' = 0
      /\ fresh' = fresh
      /\ since'[i] = IF t.state \in {"RUNNING", "WAITING"} THEN since[i] + 1 ELSE 0
  BY DEF PNextPass, NextPass
<1>3. Later(i, 2)'
  BY <1>2 DEF Later, Task
<1>4. t.state = "RUNNING" => ~Later(i, 2)
  BY DEF PNextPass, NextPass, PassOver, Due, Checks
<1>5. /\ waits /\ t.timer - 1 >= 1 =>
            task_list'[i].state = "WAITING" /\ task_list'[i].timer = t.timer - 1
      /\ waits /\ t.timer - 1 < 1 =>
            task_list'[i].state = "RUNNING" /\ task_list'[i].timer = LoopMs[i]
      /\ ~waits /\ t.state # "READY" =>
            task_list'[i].state = t.state /\ task_list'[i].timer = t.timer
  BY PassTimer DEF PTypeOK, TypeOK, PNextPass, NextPass
<1>6. PacedTask(i)
  BY DEF Paced
<1>7. CASE waits /\ t.timer - 1 >= 1
  BY <1>1, <1>2, <1>4, <1>5, <1>6, <1>7 DEF PacedTask, TaskRecord
<1>8. CASE waits /\ t.timer - 1 < 1
  BY <1>1, <1>2, <1>3, <1>4, <1>5, <1>6, <1>8 DEF PacedTask, TaskRecord, Interval
<1>9. CASE ~waits
  BY <1>1, <1>2, <1>3, <1>4, <1>5, <1>6, <1>9 DEF PacedTask, TaskRecord, Interval
<1>. QED
  BY <1>1, <1>7, <1>8, <1>9 DEF TaskRecord

(* The next if-statement to hold is called: no running task is passed over.*)
LEMMA NoneSkipped ==
    ASSUME TypeOK, NEW j \in Task, NEW c \in 1 .. 3, Calls(j, c),
           NEW i \in Task, i # j, task_list[i].state = "RUNNING"
    PROVE  Later(i, 2)' <=> Later(i, 2)
<1>1. turn' = j /\ check' = c
  BY DEF Calls
<1>2. Later(j, c)
  BY DEF Calls, Due
<1>3. Later(i, 2) => j < i
  <2>1. Later(i, 2) => Due(i, 2)
    BY DEF Due, Checks
  <2>2. Due(i, 2) => j < i \/ (i = j /\ c <= 2)
    BY DEF Calls
  <2>. QED
    BY <2>1, <2>2
<1>. QED
  BY <1>1, <1>2, <1>3, TasksAssumption DEF Later, TypeOK, Task

(* A call of a task's fptr keeps every task paced.                         *)
LEMMA PacedCall ==
    ASSUME PTypeOK, Paced, NEW j \in Task, PCall(j)
    PROVE  Paced'
<1> SUFFICES ASSUME NEW i \in Task
             PROVE  PacedTask(i)'
  BY DEF Paced
<1> DEFINE t == task_list[i]
<1>1. /\ t \in TaskRecord
      /\ LoopMs[i] \in Nat
      /\ since[i] \in Nat
      /\ turn \in Int /\ check \in Int
  BY TasksAssumption DEF PTypeOK, TypeOK, TaskList
<1>2. PacedTask(i)
  BY DEF Paced
<1>3. \E Own : \E c \in 1 .. 3 : Calls(j, c) /\ Leaves(j, Own)
  BY DEF PCall, init, runnable, deinit
<1>4. CASE i # j
  <2>1. /\ since'[i] = since[i]
        /\ i \in fresh /\ task_list'[i].timer = t.timer => i \in fresh'
    BY <1>4 DEF PCall, PTypeOK
  <2>2. \/ task_list'[i] = t
        \/ /\ task_list'[i].state \in {"STARTING", "STOPPING"}
           /\ \/ task_list'[i].timer = LoopMs[i]
              \/ task_list'[i].timer = t.timer /\ t.state # "WAITING"
    BY <1>3, <1>4, TouchedTimer DEF Leaves, PTypeOK, TypeOK
  <2>3. t.state = "RUNNING" => (Later(i, 2)' <=> Later(i, 2))
    BY <1>3, <1>4, NoneSkipped DEF PTypeOK
  <2>4. CASE task_list'[i] = t
    BY <1>2, <2>1, <2>3, <2>4 DEF PacedTask
  <2>5. CASE task_list'[i] # t
    BY <1>2, <2>1, <2>2, <2>5 DEF PacedTask
  <2>. QED
    BY <2>4, <2>5
<1>5. CASE i = j
  <2>1. since'[i] = 0
    BY <1>5 DEF PCall, PTypeOK
  <2>2. since[i] = 0 /\ i \in fresh /\ task_list'[i].timer = t.timer => i \in fresh'
    BY <1>5 DEF PCall
  <2>3. /\ t.state \in {"STARTING", "RUNNING", "STOPPING"}
        /\ \/ task_list'[i].timer = t.timer
           \/ task_list'[i].timer = LoopMs[i]
        /\ task_list'[i].state \in {"STARTING", "RUNNING", "STOPPING", "STOPPED"}
    <3>1. task_list \in TaskList
      BY DEF PTypeOK, TypeOK
    <3>2. CASE init(i)
      BY <3>1, <3>2, OwnTimer DEF init, Calls, Due, Checks, Leaves
    <3>3. CASE runnable(i)
      BY <3>1, <3>3, OwnTimer DEF runnable, Calls, Due, Checks, Leaves
    <3>4. CASE deinit(i)
      BY <3>1, <3>4, OwnTimer DEF deinit, Calls, Due, Checks, Leaves
    <3>. QED
      BY <1>5, <3>2, <3>3, <3>4 DEF PCall
  <2>. QED
    BY <1>1, <1>2, <2>1, <2>2, <2>3 DEF PacedTask
<1>. QED
  BY <1>4, <1>5

(* Every step keeps the invariant.                                         *)
LEMMA PInvStep == PInv /\ [PNext]_pvars => PInv'
<1> SUFFICES ASSUME PInv, [PNext]_pvars
             PROVE  PInv'
  OBVIOUS
<1>1. CASE UNCHANGED pvars
  BY <1>1 DEF PInv, PTypeOK, TypeOK, Paced, PacedTask, Later, pvars
<1>2. CASE PNextPass
  <2>1. TypeOK'
    BY <1>2, TypeStep DEF PInv, PTypeOK, PNextPass, Next
  <2>2. since' \in [Task -> Nat] /\ fresh' \in SUBSET Task
    BY <1>2 DEF PInv, PTypeOK, PNextPass
  <2>3. Paced'
    BY <1>2, PacedPass DEF PInv
  <2>. QED
    BY <2>1, <2>2, <2>3 DEF PInv, PTypeOK
<1>3. ASSUME NEW j \in Task, PCall(j)
      PROVE  PInv'
  <2>1. TypeOK'
    BY <1>3, TypeStep DEF PInv, PTypeOK, PCall, Next
  <2>2. since' \in [Task -> Nat] /\ fresh' \in SUBSET Task
    BY <1>3 DEF PInv, PTypeOK, PCall
  <2>3. Paced'
    BY <1>3, PacedCall DEF PInv
  <2>. QED
    BY <2>1, <2>2, <2>3 DEF PInv, PTypeOK
<1>. QED
  BY <1>1, <1>2, <1>3 DEF PNext

(* So it holds in every state.                                             *)
LEMMA PInvAlways == PSpec => []PInv
<1>1. PInit => PInv
  <2>1. PInit => TypeOK
    BY TypeInit DEF PInit
  <2>2. PInit => since \in [Task -> Nat] /\ fresh \in SUBSET Task
    BY DEF PInit
  <2>. QED
    BY <2>1, <2>2, PacedInit DEF PInv, PTypeOK
<1>. QED
  BY <1>1, PInvStep, PTL DEF PSpec

(* The list keeps its types with the ghosts of this model beside it, and   *)
(* the ages of the tasks never go below 0.                                 *)
THEOREM PTypeCorrect == PSpec => []PTypeOK
<1>1. PInv => PTypeOK
  BY DEF PInv
<1>. QED
  BY <1>1, PInvAlways, PTL

(* An active task runs again within loop_ms passes, whatever the others    *)
(* do: the age of a waiting task is what is gone from its timer.           *)
THEOREM NeverOverdueAlways == PSpec => []NeverOverdue
<1>1. PInv => NeverOverdue
  <2> SUFFICES ASSUME PInv, NEW i \in Task,
                      task_list[i].state \in {"RUNNING", "WAITING"}
               PROVE  since[i] <= Interval(i)
    BY DEF NeverOverdue
  <2>1. /\ PacedTask(i)
        /\ LoopMs[i] \in Nat /\ since[i] \in Nat
        /\ task_list[i].timer \in Int
    BY TasksAssumption DEF PInv, Paced, PTypeOK, TypeOK, TaskList, TaskRecord
  <2>. QED
    BY <2>1 DEF PacedTask, Interval
<1>. QED
  BY <1>1, PInvAlways, PTL

(* A runnable is called at loop_ms passes from the call before it, never   *)
(* sooner: no sequence of start() and stop() shortens a period, except the *)
(* first one of a task whose timer has not been loaded yet.                *)
THEOREM RunsOnTimeAlways == PSpec => RunsOnTime
<1>1. PInv /\ [PNext]_pvars =>
        [\A i \in Task : runnable(i) =>
            since[i] \in {0, Interval(i)} \/ (since[i] = 1 /\ i \in fresh)]_pvars
  <2> SUFFICES ASSUME PInv, NEW i \in Task, runnable(i)
               PROVE  since[i] \in {0, Interval(i)} \/ (since[i] = 1 /\ i \in fresh)
    OBVIOUS
  <2>1. task_list[i].state = "RUNNING" /\ Later(i, 2)
    BY DEF runnable, Calls, Due, Checks
  <2>. QED
    BY <2>1 DEF PInv, Paced, PacedTask
<1>. QED
  BY <1>1, PInvAlways, PTL DEF PSpec, RunsOnTime

=============================================================================
