----------------------------- MODULE RigProofs -----------------------------
(***************************************************************************)
(* The theorems of the rig, for any periods of the tasks, any times and    *)
(* bounds, and any inputs and faults but those that a theorem names.       *)
(*                                                                         *)
(* The argument.  Each task's calls are edits of task_list (Edits) and     *)
(* have an effect on the states of the tasks (Effect); with these two the  *)
(* rig implements Scheduler, and a property of a few variables is proved   *)
(* from the few calls that write them (Frame, TurnsOn, OnlyDeinitStops,    *)
(* KeepsGuard).  RigInv is the invariant that holds whatever fails and     *)
(* whatever the operator does; the properties that need a hypothesis add   *)
(* what they need to it: Excludes, FeedClaimed, Dry, Monitored, Pump,      *)
(* HandedOn.                                                               *)
(***************************************************************************)
EXTENDS Rig, TLAPS

-----------------------------------------------------------------------------
(* The constants of the rig as Scheduler sees them.                        *)
LEMMA TenTasks == MAX_TASKS = 10 /\ Sched!Task = 0 .. 9
  BY DEF MAX_TASKS, Sched!Task

(* The tasks of task_list are tasks of Scheduler.                          *)
LEMMA RigTasks == Sched!TasksAssumption
<1>1. \A i \in 0 .. 9 : LoopMs[i] \in Nat
  BY RigAssumption DEF LoopMs, MAX_TASKS
<1>. QED
  BY <1>1, RigAssumption DEF Sched!TasksAssumption, Sched!Task, LoopMs, MAX_TASKS

(* What start(), stop() and the other methods write into the record of     *)
(* the task that they are called for.                                      *)
Started(t) ==
    IF t.state \in {"STOPPED", "STOPPING"} THEN [t EXCEPT !.state = "STARTING"] ELSE t

Stopping(i, t) ==
    IF t.state # "STOPPED"
    THEN [t EXCEPT !.state = "STOPPING", !.timer = LoopMs[i]] ELSE t

Held(t, s) == [t EXCEPT !.state = s]

Yielding(t) == [t EXCEPT !.allowWifiReconnect = TRUE]

Guarding(t) == [t EXCEPT !.allowWifiReconnect = FALSE]

(* allow() in its two uses.                                                *)
yield(list, i) == allow(list, i, TRUE)

guard(list, i) == allow(list, i, FALSE)

(* Each of them writes one record.                                         *)
LEMMA StartList ==
    ASSUME NEW list \in Sched!TaskList, NEW i \in 0 .. 9
    PROVE  /\ start(list, i) \in Sched!TaskList
           /\ \A j \in 0 .. 9 :
                 start(list, i)[j] = IF j = i THEN Started(list[j]) ELSE list[j]
  BY TenTasks DEF start, Sched!start, Started, Sched!TaskList, Sched!TaskRecord, Sched!State

(* stop() for one task.                                                    *)
LEMMA StopList ==
    ASSUME NEW list \in Sched!TaskList, NEW i \in 0 .. 9
    PROVE  /\ stop(list, i) \in Sched!TaskList
           /\ \A j \in 0 .. 9 :
                 stop(list, i)[j] = IF j = i THEN Stopping(j, list[j]) ELSE list[j]
<1>1. LoopMs[i] \in Nat
  BY RigTasks, TenTasks DEF Sched!TasksAssumption
<1>. QED
  BY <1>1, TenTasks
     DEF stop, Sched!stop, Stopping, Sched!TaskList, Sched!TaskRecord, Sched!State

(* hardStart() and hardStop() for one task.                                *)
LEMMA HardList ==
    ASSUME NEW list \in Sched!TaskList, NEW i \in 0 .. 9
    PROVE  /\ hardStart(list, i) \in Sched!TaskList
           /\ \A j \in 0 .. 9 :
                 hardStart(list, i)[j] = IF j = i THEN Held(list[j], "RUNNING") ELSE list[j]
           /\ hardStop(list, i) \in Sched!TaskList
           /\ \A j \in 0 .. 9 :
                 hardStop(list, i)[j] = IF j = i THEN Held(list[j], "STOPPED") ELSE list[j]
  BY TenTasks DEF hardStart, Sched!hardStart, hardStop, Sched!hardStop, Held,
     Sched!TaskList, Sched!TaskRecord, Sched!State

(* yield() and guard() for one task.                                       *)
LEMMA AllowList ==
    ASSUME NEW list \in Sched!TaskList, NEW i \in 0 .. 9
    PROVE  /\ yield(list, i) \in Sched!TaskList
           /\ guard(list, i) \in Sched!TaskList
           /\ \A j \in 0 .. 9 :
                 /\ yield(list, i)[j] = IF j = i THEN Yielding(list[j]) ELSE list[j]
                 /\ guard(list, i)[j] = IF j = i THEN Guarding(list[j]) ELSE list[j]
  BY TenTasks DEF yield, guard, allow, Sched!allow, Yielding, Guarding,
     Sched!TaskList, Sched!TaskRecord

(* The fields of the records that they write.                              *)
LEMMA RecordFields ==
    ASSUME NEW t \in Sched!TaskRecord, NEW i \in 0 .. 9
    PROVE  /\ Started(t) \in Sched!TaskRecord
           /\ Started(t).state =
                 IF t.state \in {"STOPPED", "STOPPING"} THEN "STARTING" ELSE t.state
           /\ Started(t).allowWifiReconnect = t.allowWifiReconnect
           /\ Stopping(i, t) \in Sched!TaskRecord
           /\ Stopping(i, t).state = IF t.state = "STOPPED" THEN "STOPPED" ELSE "STOPPING"
           /\ Stopping(i, t).allowWifiReconnect = t.allowWifiReconnect
<1>1. LoopMs[i] \in Nat
  BY RigTasks, TenTasks DEF Sched!TasksAssumption
<1>. QED
  BY <1>1 DEF Started, Stopping, Sched!TaskRecord, Sched!State

(* The fields of the records that hardStart(), hardStop() and allow()      *)
(* write.                                                                  *)
LEMMA WrittenFields ==
    ASSUME NEW t \in Sched!TaskRecord
    PROVE  /\ \A s \in Sched!State :
                 /\ Held(t, s) \in Sched!TaskRecord
                 /\ Held(t, s).state = s
                 /\ Held(t, s).allowWifiReconnect = t.allowWifiReconnect
           /\ Yielding(t) \in Sched!TaskRecord
           /\ Yielding(t).state = t.state
           /\ Yielding(t).allowWifiReconnect = TRUE
           /\ Guarding(t) \in Sched!TaskRecord
           /\ Guarding(t).state = t.state
           /\ Guarding(t).allowWifiReconnect = FALSE
           /\ t \in {Yielding(t), Guarding(t)}
  BY DEF Held, Yielding, Guarding, Sched!TaskRecord, Sched!State

(* The dispatcher's three calls are those of Scheduler.                    *)
LEMMA CallsOf ==
    ASSUME NEW i
    PROVE  /\ Calls(i, "STARTING") <=> hang = "none" /\ Sched!Calls(i, 1)
           /\ Calls(i, "RUNNING") <=> hang = "none" /\ Sched!Calls(i, 2)
           /\ Calls(i, "STOPPING") <=> hang = "none" /\ Sched!Calls(i, 3)
<1>1. /\ (CHOOSE c \in 1 .. 3 : Sched!Checks[c] = "STARTING") = 1
      /\ (CHOOSE c \in 1 .. 3 : Sched!Checks[c] = "RUNNING") = 2
      /\ (CHOOSE c \in 1 .. 3 : Sched!Checks[c] = "STOPPING") = 3
  BY DEF Sched!Checks
<1>. QED
  BY <1>1 DEF Calls

-----------------------------------------------------------------------------
(* What a call of task i's fptr writes into task_list: the record of i     *)
(* becomes one of Own; of the other tasks those in Others may be started,  *)
(* and DRAINING also stopped.                                              *)
Edits(i, Own, Others) ==
    /\ task_list' \in Sched!TaskList
    /\ task_list'[i] \in Own
    /\ \A j \in 0 .. 9 : j # i =>
          \/ task_list'[j] = task_list[j]
          \/ j \in Others /\ j # DRAINING /\ task_list'[j] = Started(task_list[j])
          \/ j \in Others /\ j = DRAINING /\ task_list'[j] \in Sched!Touched(task_list, j)

(* One start() and one stop() are among what Scheduler lets a task do.     *)
LEMMA TouchedOnce ==
    ASSUME NEW list \in Sched!TaskList, NEW j \in 0 .. 9
    PROVE  /\ list[j] \in Sched!Touched(list, j)
           /\ Started(list[j]) \in Sched!Touched(list, j)
           /\ Stopping(j, list[j]) \in Sched!Touched(list, j)
<1>1. start(list, j)[j] = Started(list[j]) /\ stop(list, j)[j] = Stopping(j, list[j])
  BY StartList, StopList
<1>. QED
  BY <1>1 DEF Sched!Touched, start, stop

(* Whatever starts and stops a task gets, it is not stopped by them, and   *)
(* keeps its flag.                                                         *)
LEMMA TouchedFields ==
    ASSUME NEW list \in Sched!TaskList, NEW j \in 0 .. 9, NEW t \in Sched!Touched(list, j)
    PROVE  /\ t \in Sched!TaskRecord
           /\ t.state = "STOPPED" => list[j].state = "STOPPED"
           /\ t.allowWifiReconnect = list[j].allowWifiReconnect
<1> DEFINE Good(r) == /\ r \in Sched!TaskRecord
                      /\ r.state = "STOPPED" => list[j].state = "STOPPED"
                      /\ r.allowWifiReconnect = list[j].allowWifiReconnect
<1>1. ASSUME NEW l \in Sched!TaskList, Good(l[j])
      PROVE  /\ start(l, j) \in Sched!TaskList /\ Good(start(l, j)[j])
             /\ stop(l, j) \in Sched!TaskList /\ Good(stop(l, j)[j])
  <2>1. /\ start(l, j) \in Sched!TaskList /\ start(l, j)[j] = Started(l[j])
        /\ stop(l, j) \in Sched!TaskList /\ stop(l, j)[j] = Stopping(j, l[j])
    BY StartList, StopList
  <2>2. l[j] \in Sched!TaskRecord
    BY <1>1
  <2>. QED
    BY <1>1, <2>1, <2>2, RecordFields
<1>2. Good(list[j])
  BY TenTasks DEF Sched!TaskList
<1> HIDE DEF Good
<1>3. /\ Good(start(list, j)[j]) /\ Good(stop(list, j)[j])
      /\ Good(start(stop(list, j), j)[j]) /\ Good(stop(start(list, j), j)[j])
      /\ Good(start(stop(start(list, j), j), j)[j])
  BY <1>1, <1>2
<1>4. Good(t)
  BY <1>2, <1>3 DEF Sched!Touched, start, stop
<1>. QED
  BY <1>4 DEF Good

(* errorState() touches DRAINING only, and only for an error that drains.  *)
LEMMA ErrorList ==
    ASSUME NEW e, NEW list \in Sched!TaskList
    PROVE  /\ AfterError(e, list) \in Sched!TaskList
           /\ \A j \in 0 .. 9 :
                 AfterError(e, list)[j] =
                    IF j = DRAINING /\ e \in DrainErrors THEN Started(list[j]) ELSE list[j]
  BY StartList DEF AfterError, DRAINING

(* The end of a priming.                                                   *)
LEMMA PumpingList ==
    ASSUME NEW list \in Sched!TaskList
    PROVE  /\ AfterPumping(list) \in Sched!TaskList
           /\ \A j \in 0 .. 9 :
                 AfterPumping(list)[j] =
                    IF j = PRIMING THEN Stopping(j, list[j])
                    ELSE IF j \in {FILLITK, SAMPLING} THEN Started(list[j])
                    ELSE list[j]
  BY StartList, StopList DEF AfterPumping, PRIMING, FILLITK, SAMPLING

(* The last two calls of a deinit, and those of an init that guards.       *)
LEMMA GivesBack ==
    ASSUME NEW list \in Sched!TaskList, NEW i \in 0 .. 9
    PROVE  /\ hardStop(yield(list, i), i) \in Sched!TaskList
           /\ \A j \in 0 .. 9 : hardStop(yield(list, i), i)[j] =
                 IF j = i THEN Held(Yielding(list[j]), "STOPPED") ELSE list[j]
           /\ hardStart(guard(list, i), i) \in Sched!TaskList
           /\ \A j \in 0 .. 9 : hardStart(guard(list, i), i)[j] =
                 IF j = i THEN Held(Guarding(list[j]), "RUNNING") ELSE list[j]
<1>1. ASSUME NEW l \in Sched!TaskList
      PROVE  /\ hardStop(l, i) \in Sched!TaskList
             /\ \A j \in 0 .. 9 :
                   hardStop(l, i)[j] = IF j = i THEN Held(l[j], "STOPPED") ELSE l[j]
             /\ hardStart(l, i) \in Sched!TaskList
             /\ \A j \in 0 .. 9 :
                   hardStart(l, i)[j] = IF j = i THEN Held(l[j], "RUNNING") ELSE l[j]
  BY HardList
<1>. QED
  BY <1>1, AllowList

-----------------------------------------------------------------------------
(* The tasks as PRIMING's head leaves them.                                *)
LEMMA HeadList ==
    ASSUME task_list \in Sched!TaskList, NEW h \in AfterHead
    PROVE  /\ h[2] \in Sched!TaskList
           /\ \/ h[2] = task_list /\ h[1] = error
              \/ /\ PumpingOver
                 /\ h[2][PRIMING] = Stopping(PRIMING, task_list[PRIMING])
                 /\ \A j \in {FILLITK, SAMPLING} : h[2][j] = Started(task_list[j])
                 /\ \/ h[2][DRAINING] = task_list[DRAINING] /\ h[1] = error
                    \/ h[2][DRAINING] = Started(task_list[DRAINING]) /\ h[1] \in PWMErrors
                 /\ \A j \in 0 .. 9 \ {PRIMING, FILLITK, SAMPLING, DRAINING} :
                       h[2][j] = task_list[j]
<1> USE DEF PRIMING, FILLITK, SAMPLING, DRAINING
<1>1. CASE h = <<error, task_list>>
  BY <1>1
<1>2. CASE PumpingOver /\ h = <<error, AfterPumping(task_list)>>
  <2>1. h[1] = error /\ h[2] = AfterPumping(task_list)
    BY <1>2
  <2>2. /\ AfterPumping(task_list) \in Sched!TaskList
        /\ \A j \in 0 .. 9 :
              AfterPumping(task_list)[j] =
                 IF j = PRIMING THEN Stopping(j, task_list[j])
                 ELSE IF j \in {FILLITK, SAMPLING} THEN Started(task_list[j])
                 ELSE task_list[j]
    BY PumpingList
  <2>. QED
    BY <1>2, <2>1, <2>2
<1>3. ASSUME PumpingOver, NEW e \in PWMErrors,
             h = <<e, AfterPumping(AfterError(e, task_list))>>
      PROVE  /\ h[2] \in Sched!TaskList
             /\ h[2][PRIMING] = Stopping(PRIMING, task_list[PRIMING])
             /\ \A j \in {FILLITK, SAMPLING} : h[2][j] = Started(task_list[j])
             /\ h[2][DRAINING] = Started(task_list[DRAINING]) /\ h[1] \in PWMErrors
             /\ \A j \in 0 .. 9 \ {PRIMING, FILLITK, SAMPLING, DRAINING} :
                   h[2][j] = task_list[j]
  <2>1. e \in DrainErrors
    BY DEF PWMErrors, DrainErrors
  <2> DEFINE list == AfterError(e, task_list)
  <2>2. /\ list \in Sched!TaskList
        /\ \A j \in 0 .. 9 :
              list[j] = IF j = DRAINING THEN Started(task_list[j]) ELSE task_list[j]
    BY <2>1, ErrorList
  <2>3. h[1] = e /\ h[2] = AfterPumping(list)
    BY <1>3
  <2> HIDE DEF list
  <2>4. /\ AfterPumping(list) \in Sched!TaskList
        /\ \A j \in 0 .. 9 :
              AfterPumping(list)[j] =
                 IF j = PRIMING THEN Stopping(j, list[j])
                 ELSE IF j \in {FILLITK, SAMPLING} THEN Started(list[j])
                 ELSE list[j]
    BY <2>2, PumpingList
  <2>. QED
    BY <2>2, <2>3, <2>4
<1>. QED
  BY <1>1, <1>2, <1>3 DEF AfterHead

(* What PRIMING writes into task_list (tasks/priming.h).                   *)
LEMMA PrimingEdits ==
    ASSUME task_list \in Sched!TaskList
    PROVE  LET t == task_list[PRIMING] IN
           /\ priming_init => Edits(PRIMING, {Held(t, "RUNNING")}, {})
           /\ priming_starts => Edits(PRIMING, {Guarding(t)}, {SENSORS, DRAINING})
           /\ priming_waits \/ priming_doses =>
                 Edits(PRIMING, {t, Stopping(PRIMING, t)}, {FILLITK, SAMPLING, DRAINING})
           /\ priming_stops => Edits(PRIMING, {Stopping(PRIMING, t)}, {})
           /\ priming_deinit => Edits(PRIMING, {Held(Yielding(t), "STOPPED")}, {})
<1> USE DEF PRIMING, FILLITK, SAMPLING, DRAINING, SENSORS
<1> DEFINE t == task_list[PRIMING]
<1>1. priming_init => Edits(PRIMING, {Held(t, "RUNNING")}, {})
  BY HardList DEF priming_init, Edits
<1>2. priming_starts => Edits(PRIMING, {Guarding(t)}, {SENSORS, DRAINING})
  <2> DEFINE watched == start(task_list, SENSORS)
             list == guard(watched, PRIMING)
  <2>1. /\ watched \in Sched!TaskList
        /\ \A j \in 0 .. 9 : watched[j] =
              IF j = SENSORS THEN Started(task_list[j]) ELSE task_list[j]
    BY StartList
  <2> HIDE DEF watched
  <2>2. /\ list \in Sched!TaskList
        /\ \A j \in 0 .. 9 : list[j] =
              IF j = SENSORS THEN Started(task_list[j])
              ELSE IF j = PRIMING THEN Guarding(task_list[j]) ELSE task_list[j]
    BY <2>1, AllowList
  <2>. HIDE DEF list
  <2>3. /\ stop(list, DRAINING) \in Sched!TaskList
        /\ \A j \in 0 .. 9 : stop(list, DRAINING)[j] =
              IF j = DRAINING THEN Stopping(j, list[j]) ELSE list[j]
    BY <2>2, StopList
  <2>4. priming_starts => task_list' = stop(list, DRAINING)
    BY DEF priming_starts, priming_startPriming, list, watched, guard, allow, Sched!allow
  <2>5. Stopping(DRAINING, task_list[DRAINING]) \in Sched!Touched(task_list, DRAINING)
    BY TouchedOnce
  <2>. QED
    BY <2>2, <2>3, <2>4, <2>5 DEF Edits
<1>3. ASSUME priming_waits \/ priming_doses
      PROVE  Edits(PRIMING, {t, Stopping(PRIMING, t)}, {FILLITK, SAMPLING, DRAINING})
  <2>1. PICK h \in AfterHead : task_list' = h[2]
    BY <1>3 DEF priming_waits, priming_doses, errorState, AfterError, DrainErrors
  <2>2. Started(task_list[DRAINING]) \in Sched!Touched(task_list, DRAINING)
    BY TouchedOnce
  <2>. QED
    BY <2>1, <2>2, HeadList DEF Edits
<1>4. priming_stops => Edits(PRIMING, {Stopping(PRIMING, t)}, {})
  BY StopList DEF priming_stops, Edits
<1>5. priming_deinit => Edits(PRIMING, {Held(Yielding(t), "STOPPED")}, {})
  <2>1. priming_deinit => task_list' = hardStop(yield(task_list, PRIMING), PRIMING)
    BY DEF priming_deinit, yield, allow, Sched!allow
  <2>. QED
    BY <2>1, GivesBack DEF Edits
<1>. QED
  BY <1>1, <1>2, <1>3, <1>4, <1>5

(* What FILLITK writes into task_list (tasks/fillITK.h).                   *)
LEMMA FillEdits ==
    ASSUME task_list \in Sched!TaskList
    PROVE  LET t == task_list[FILLITK] IN
           /\ fillITK_init =>
                 Edits(FILLITK, {t, Held(t, "RUNNING"), Held(Guarding(t), "RUNNING")}, {})
           /\ fillITK_runnable =>
                 Edits(FILLITK, {t, Stopping(FILLITK, t)}, {PRIMING, DRAINING})
           /\ fillITK_deinit => Edits(FILLITK, {Held(Yielding(t), "STOPPED")}, {})
<1> USE DEF PRIMING, FILLITK, DRAINING
<1> DEFINE t == task_list[FILLITK]
<1>1. fillITK_init =>
         Edits(FILLITK, {t, Held(t, "RUNNING"), Held(Guarding(t), "RUNNING")}, {})
  <2>1. fillITK_init =>
           task_list' \in {task_list, hardStart(task_list, FILLITK),
                          hardStart(guard(task_list, FILLITK), FILLITK)}
    BY DEF fillITK_init, Filling, guard, allow, Sched!allow
  <2>. QED
    BY <2>1, GivesBack, HardList DEF Edits
<1>2. ASSUME fillITK_runnable
      PROVE  Edits(FILLITK, {t, Stopping(FILLITK, t)}, {PRIMING, DRAINING})
  <2> DEFINE failing == AfterError("FAILTOFILL", task_list)
  <2>1. /\ failing \in Sched!TaskList
        /\ \A j \in 0 .. 9 :
              failing[j] = IF j = DRAINING THEN Started(task_list[j]) ELSE task_list[j]
    BY ErrorList DEF DrainErrors
  <2>2. PICK list \in {task_list, failing} :
           task_list' \in {task_list, stop(task_list, FILLITK), stop(list, FILLITK),
                           start(stop(list, FILLITK), PRIMING)}
    <3>1. PICK failed \in {FALSE} \cup {"FAILTOFILL" \in Faults} :
             task_list' \in {task_list, stop(task_list, FILLITK),
                 stop(IF failed THEN failing ELSE task_list, FILLITK),
                 start(stop(IF failed THEN failing ELSE task_list, FILLITK), PRIMING)}
      BY <1>2 DEF fillITK_runnable
    <3>. QED
      BY <3>1
  <2> HIDE DEF failing
  <2>3. /\ list \in Sched!TaskList
        /\ list[DRAINING] \in Sched!Touched(task_list, DRAINING)
        /\ \A j \in 0 .. 9 : j # DRAINING => list[j] = task_list[j]
    BY <2>1, <2>2, TouchedOnce
  <2>4. /\ stop(list, FILLITK) \in Sched!TaskList
        /\ \A j \in 0 .. 9 : stop(list, FILLITK)[j] =
              IF j = FILLITK THEN Stopping(j, list[j]) ELSE list[j]
    BY <2>3, StopList
  <2>5. /\ start(stop(list, FILLITK), PRIMING) \in Sched!TaskList
        /\ \A j \in 0 .. 9 : start(stop(list, FILLITK), PRIMING)[j] =
              IF j = PRIMING THEN Started(list[j])
              ELSE IF j = FILLITK THEN Stopping(j, list[j]) ELSE list[j]
    BY <2>4, StartList
  <2>6. /\ stop(task_list, FILLITK) \in Sched!TaskList
        /\ \A j \in 0 .. 9 : stop(task_list, FILLITK)[j] =
              IF j = FILLITK THEN Stopping(j, task_list[j]) ELSE task_list[j]
    BY StopList
  <2>. QED
    BY <2>2, <2>3, <2>4, <2>5, <2>6 DEF Edits
<1>3. fillITK_deinit => Edits(FILLITK, {Held(Yielding(t), "STOPPED")}, {})
  <2>1. fillITK_deinit => task_list' = hardStop(yield(task_list, FILLITK), FILLITK)
    BY DEF fillITK_deinit, yield, allow, Sched!allow
  <2>. QED
    BY <2>1, GivesBack DEF Edits
<1>. QED
  BY <1>1, <1>2, <1>3

(* What LEAKHANDLER writes into task_list (tasks/leakHandler.h).           *)
LEMMA LeakEdits ==
    ASSUME task_list \in Sched!TaskList
    PROVE  LET t == task_list[LEAKHANDLER] IN
           /\ leakHandler_init => Edits(LEAKHANDLER, {Held(t, "RUNNING")}, {})
           /\ leakHandler_runnable => Edits(LEAKHANDLER, {t, Stopping(LEAKHANDLER, t)}, {})
           /\ leakHandler_deinit => Edits(LEAKHANDLER, {Held(t, "STOPPED")}, {})
  BY StopList, HardList DEF leakHandler_init, leakHandler_runnable, leakHandler_deinit,
     errorState, AfterError, DrainErrors, Edits, LEAKHANDLER

(* The calls of SAMPLING that leave task_list alone.                       *)
sampling_silent ==
    \/ sampling_DRAINING
    \/ sampling_CLEARSAMPLERLINES
    \/ sampling_CLEARSAMPLERWASTE
    \/ sampling_skips
    \/ sampling_sampling
    \/ sampling_DRAINING1
    \/ sampling_drainsOn

(* The reset of the sampler is the one call that writes more than this.    *)
LEMMA SamplingEdits ==
    ASSUME task_list \in Sched!TaskList
    PROVE  LET t == task_list[SAMPLING] IN
           /\ sampling_init => Edits(SAMPLING, {Held(t, "RUNNING")}, {})
           /\ sampling_stops \/ sampling_DRAINING2 => Edits(SAMPLING, {Stopping(SAMPLING, t)}, {})
           /\ sampling_drainingPending => Edits(SAMPLING, {t, Guarding(t)}, {})
           /\ sampling_silent => Edits(SAMPLING, {t}, {})
           /\ sampling_deinit => Edits(SAMPLING, {Held(Yielding(t), "STOPPED")}, {})
<1> USE DEF SAMPLING, Edits
<1> DEFINE t == task_list[SAMPLING]
<1>1. sampling_init => Edits(SAMPLING, {Held(t, "RUNNING")}, {})
  BY HardList DEF sampling_init
<1>2. sampling_stops \/ sampling_DRAINING2 => Edits(SAMPLING, {Stopping(SAMPLING, t)}, {})
  BY StopList DEF sampling_stops, sampling_DRAINING2
<1>3. sampling_drainingPending => Edits(SAMPLING, {t, Guarding(t)}, {})
  <2>1. sampling_drainingPending => task_list' \in {task_list, guard(task_list, SAMPLING)}
    BY DEF sampling_drainingPending, guard, allow, Sched!allow
  <2>. QED
    BY <2>1, AllowList
<1>4. sampling_silent => task_list' = task_list
  BY DEF sampling_silent, sampling_DRAINING, sampling_CLEARSAMPLERLINES,
     sampling_CLEARSAMPLERWASTE, sampling_skips, sampling_sampling, sampling_DRAINING1,
     sampling_drainsOn
<1>5. sampling_deinit => Edits(SAMPLING, {Held(Yielding(t), "STOPPED")}, {})
  <2>1. sampling_deinit => task_list' = hardStop(yield(task_list, SAMPLING), SAMPLING)
    BY DEF sampling_deinit, yield, allow, Sched!allow
  <2>. QED
    BY <2>1, GivesBack DEF Edits
<1>. QED
  BY <1>1, <1>2, <1>3, <1>4, <1>5

(* What DRAINING writes into task_list (tasks/draining.h).                 *)
LEMMA DrainingEdits ==
    ASSUME task_list \in Sched!TaskList
    PROVE  LET t == task_list[DRAINING] IN
           /\ draining_init => Edits(DRAINING, {Held(Guarding(t), "RUNNING")}, {})
           /\ draining_runnable => Edits(DRAINING, {t, Stopping(DRAINING, t)}, {})
           /\ draining_deinit => Edits(DRAINING, {Held(Yielding(t), "STOPPED")}, {})
<1> USE DEF DRAINING, Edits
<1> DEFINE t == task_list[DRAINING]
<1>1. draining_init => Edits(DRAINING, {Held(Guarding(t), "RUNNING")}, {})
  <2>1. draining_init => task_list' = hardStart(guard(task_list, DRAINING), DRAINING)
    BY DEF draining_init, guard, allow, Sched!allow
  <2>. QED
    BY <2>1, GivesBack
<1>2. draining_runnable => Edits(DRAINING, {t, Stopping(DRAINING, t)}, {})
  <2>1. draining_runnable => task_list' \in {task_list, stop(task_list, DRAINING)}
    BY DEF draining_runnable
  <2>. QED
    BY <2>1, StopList
<1>3. draining_deinit => Edits(DRAINING, {Held(Yielding(t), "STOPPED")}, {})
  <2>1. draining_deinit => task_list' = hardStop(yield(task_list, DRAINING), DRAINING)
    BY DEF draining_deinit, yield, allow, Sched!allow
  <2>. QED
    BY <2>1, GivesBack
<1>. QED
  BY <1>1, <1>2, <1>3

(* What SENSORS writes into task_list (system/sensors.h).                  *)
LEMMA SensorsEdits ==
    ASSUME task_list \in Sched!TaskList
    PROVE  LET t == task_list[SENSORS] IN
           /\ sensors_init => Edits(SENSORS, {Held(t, "RUNNING")}, {})
           /\ sensors_runnable => Edits(SENSORS, {t, Stopping(SENSORS, t)}, {DRAINING})
           /\ sensors_stops => Edits(SENSORS, {Stopping(SENSORS, t)}, {})
           /\ sensors_deinit => Edits(SENSORS, {Held(t, "STOPPED")}, {})
<1> USE DEF DRAINING, SENSORS, Edits
<1> DEFINE t == task_list[SENSORS]
<1>1. sensors_init => Edits(SENSORS, {Held(t, "RUNNING")}, {})
  BY HardList DEF sensors_init
<1>2. ASSUME sensors_runnable
      PROVE  Edits(SENSORS, {t, Stopping(SENSORS, t)}, {DRAINING})
  <2>1. PICK e : task_list' \in {task_list, stop(task_list, SENSORS), AfterError(e, task_list),
                                 stop(AfterError(e, task_list), SENSORS)}
    BY <1>2 DEF sensors_runnable
  <2> DEFINE list == AfterError(e, task_list)
  <2>2. /\ list \in Sched!TaskList
        /\ list[DRAINING] \in {task_list[DRAINING], Started(task_list[DRAINING])}
        /\ \A j \in 0 .. 9 : j # DRAINING => list[j] = task_list[j]
    BY ErrorList
  <2>3. Started(task_list[DRAINING]) \in Sched!Touched(task_list, DRAINING)
    BY TouchedOnce
  <2>4. task_list' \in {task_list, stop(task_list, SENSORS), list, stop(list, SENSORS)}
    BY <2>1
  <2> HIDE DEF list
  <2>. QED
    BY <2>2, <2>3, <2>4, StopList
<1>3. sensors_stops => Edits(SENSORS, {Stopping(SENSORS, t)}, {})
  BY StopList DEF sensors_stops
<1>4. sensors_deinit => Edits(SENSORS, {Held(t, "STOPPED")}, {})
  BY HardList DEF sensors_deinit
<1>. QED
  BY <1>1, <1>2, <1>3, <1>4

(* A task that only the operator's or the water's input can touch.         *)
Polled == {i \in {FILLITK, LEAKHANDLER, DRAINING} :
             /\ i = DRAINING => "drain" \in Inputs
             /\ i = LEAKHANDLER => leak.wet}

Commanded == {i \in {FILLITK, SAMPLING, PRIMING, SENSORS, DRAINING} :
                /\ i = DRAINING => "drain" \in Inputs
                /\ i = SAMPLING => "sample" \in Inputs}

(* What BTNHANDLER, SHIFTREGISTERHANDLER and IDLE write into task_list.    *)
LEMMA PanelEdits ==
    ASSUME task_list \in Sched!TaskList
    PROVE  /\ btnHandler_init => Edits(BTNHANDLER, {Held(task_list[BTNHANDLER], "RUNNING")}, {})
           /\ btnHandler_runnable => Edits(BTNHANDLER, {task_list[BTNHANDLER]}, Polled)
           /\ shiftRegisterHandler_init =>
                 Edits(SHIFTREGISTERHANDLER, {Held(task_list[SHIFTREGISTERHANDLER], "RUNNING")}, {})
           /\ shiftRegisterHandler_runnable =>
                 Edits(SHIFTREGISTERHANDLER, {task_list[SHIFTREGISTERHANDLER]}, {})
           /\ idle_init => Edits(IDLE, {Held(task_list[IDLE], "RUNNING")}, {})
           /\ idle_runnable => Edits(IDLE, {task_list[IDLE]}, {})
<1> USE DEF BTNHANDLER, SHIFTREGISTERHANDLER, IDLE, Edits
<1>1. ASSUME btnHandler_runnable
      PROVE  Edits(BTNHANDLER, {task_list[BTNHANDLER]}, Polled)
  <2>1. PICK started :
           /\ started \subseteq Polled
           /\ task_list' = [i \in DOMAIN task_list |->
                 IF i \in started THEN start(task_list, i)[i] ELSE task_list[i]]
    <3>1. PICK clicked \in {FALSE, "start" \in Inputs}, drain \in {FALSE, "drain" \in Inputs} :
             task_list' = [i \in DOMAIN task_list |->
                IF i \in (IF clicked THEN {FILLITK} ELSE {}) \cup
                         (IF leak.wet THEN {LEAKHANDLER} ELSE {}) \cup
                         (IF drain THEN {DRAINING} ELSE {})
                THEN start(task_list, i)[i] ELSE task_list[i]]
      BY <1>1 DEF btnHandler_runnable
    <3>2. (IF clicked THEN {FILLITK} ELSE {}) \cup (IF leak.wet THEN {LEAKHANDLER} ELSE {})
             \cup (IF drain THEN {DRAINING} ELSE {}) \subseteq Polled
      <4>1. drain => "drain" \in Inputs
        OBVIOUS
      <4>2. /\ FILLITK \in Polled
            /\ leak.wet => LEAKHANDLER \in Polled
            /\ "drain" \in Inputs => DRAINING \in Polled
        BY DEF Polled, FILLITK, LEAKHANDLER, DRAINING
      <4>. QED
        BY <4>1, <4>2
    <3>. QED
      BY <3>1, <3>2
  <2>2. \A j \in 0 .. 9 : /\ start(task_list, j)[j] = Started(task_list[j])
                          /\ start(task_list, j)[j] \in Sched!TaskRecord
    BY StartList, TenTasks DEF Sched!TaskList
  <2>3. DOMAIN task_list = 0 .. 9 /\ \A j \in 0 .. 9 : task_list[j] \in Sched!TaskRecord
    BY TenTasks DEF Sched!TaskList
  <2>4. BTNHANDLER \notin Polled
    BY DEF Polled, FILLITK, LEAKHANDLER, DRAINING
  <2>5. \A j \in 0 .. 9 : Started(task_list[j]) \in Sched!Touched(task_list, j)
    BY TouchedOnce
  <2>6. task_list' \in Sched!TaskList
    BY <2>1, <2>2, <2>3, TenTasks DEF Sched!TaskList
  <2>. QED
    BY <2>1, <2>2, <2>3, <2>4, <2>5, <2>6
<1>2. shiftRegisterHandler_runnable \/ idle_runnable => task_list' = task_list
  BY DEF shiftRegisterHandler_runnable, idle_runnable, errorState, AfterError, DrainErrors
<1>3. \A i \in 0 .. 9 : task_list' = hardStart(task_list, i) =>
         Edits(i, {Held(task_list[i], "RUNNING")}, {})
  BY HardList
<1>. QED
  BY <1>1, <1>2, <1>3 DEF btnHandler_init, shiftRegisterHandler_init, idle_init

(* WIFI's calls that hear no message.                                      *)
wifi_deaf == wifi_pending \/ wifi_broker \/ wifi_loses

(* What a command of the UI writes into task_list (wifi_messageReceived).  *)
LEMMA MessageEdits ==
    ASSUME task_list \in Sched!TaskList, wifi_messageReceived
    PROVE  Edits(WIFI, {task_list[WIFI]}, Commanded)
<1> USE DEF FILLITK, SAMPLING, PRIMING, SENSORS, DRAINING, WIFI
<1>1. PICK sent \in SUBSET (Inputs \cap DOMAIN Commands),
           draining_ \in IF "drain" \in Inputs THEN Sched!Touched(task_list, DRAINING)
                         ELSE {task_list[DRAINING]} :
         task_list' = [i \in DOMAIN task_list |->
             IF \E m \in sent : Commands[m] = i THEN start(task_list, i)[i]
             ELSE IF i = DRAINING THEN draining_ ELSE task_list[i]]
  BY DEF wifi_messageReceived
<1>2. \A j \in 0 .. 9 : /\ start(task_list, j)[j] = Started(task_list[j])
                        /\ Started(task_list[j]) \in Sched!TaskRecord
  BY StartList, TenTasks DEF Sched!TaskList
<1>3. DOMAIN task_list = 0 .. 9 /\ \A j \in 0 .. 9 : task_list[j] \in Sched!TaskRecord
  BY TenTasks DEF Sched!TaskList
<1>4. \A m \in sent : Commands[m] \in Commanded \ {DRAINING}
  BY DEF Commands, Commanded
<1>5. draining_ \in Sched!TaskRecord /\ draining_ \in Sched!Touched(task_list, DRAINING)
  BY <1>3, TouchedOnce, TouchedFields
<1>6. /\ WIFI \notin Commanded
      /\ "drain" \in Inputs => DRAINING \in Commanded
  BY DEF Commanded
<1>7. task_list' \in Sched!TaskList
  BY <1>1, <1>2, <1>3, <1>5, TenTasks DEF Sched!TaskList
<1>8. "drain" \notin Inputs => draining_ = task_list[DRAINING]
  OBVIOUS
<1>. QED
  BY <1>1, <1>2, <1>3, <1>4, <1>5, <1>6, <1>7, <1>8 DEF Edits

(* What WIFI writes into task_list; a message may come with any of its     *)
(* calls.                                                                  *)
LEMMA WifiEdits ==
    ASSUME task_list \in Sched!TaskList
    PROVE  /\ wifi_init => Edits(WIFI, {Held(task_list[WIFI], "RUNNING")}, {})
           /\ wifi_deaf => Edits(WIFI, {task_list[WIFI]}, {})
           /\ wifi_subscribes \/ wifi_loops => Edits(WIFI, {task_list[WIFI]}, Commanded)
<1>1. wifi_init => Edits(WIFI, {Held(task_list[WIFI], "RUNNING")}, {})
  BY HardList DEF wifi_init, WIFI, Edits
<1>2. wifi_deaf => task_list' = task_list
  BY DEF wifi_deaf, wifi_pending, wifi_broker, wifi_loses
<1>3. wifi_subscribes \/ wifi_loops => wifi_messageReceived
  BY DEF wifi_subscribes, wifi_loops
<1>. QED
  BY <1>1, <1>2, <1>3, MessageEdits DEF Edits

-----------------------------------------------------------------------------
(* The edits are what Scheduler's contract lets a call do.                 *)
LEMMA EditsLeave ==
    ASSUME NEW i \in 0 .. 9, NEW Own, NEW Others, NEW S,
           Edits(i, Own, Others), Own \subseteq S, task_list \in Sched!TaskList
    PROVE  Sched!Leaves(i, S)
<1>1. \A j \in 0 .. 9 : j # i => task_list'[j] \in Sched!Touched(task_list, j)
  BY TouchedOnce DEF Edits
<1>2. task_list' = [j \in 0 .. 9 |-> task_list'[j]] /\ task_list'[i] \in S
  BY TenTasks DEF Edits, Sched!TaskList
<1>3. \A j \in 0 .. 9 :
         task_list'[j] \in S \cup UNION {Sched!Touched(task_list, k) : k \in (0 .. 9) \ {i}}
  BY <1>1, <1>2
<1>. QED
  BY <1>1, <1>2, <1>3, TenTasks DEF Sched!Leaves

(* The records that the rig's calls write for their own task are among     *)
(* those of Scheduler's contract.                                          *)
LEMMA OwnLeaves ==
    ASSUME task_list \in Sched!TaskList, NEW i \in 0 .. 9
    PROVE  LET t == task_list[i] IN
           /\ {t, Held(t, "RUNNING"), Held(Guarding(t), "RUNNING")} \subseteq Sched!AfterInit(i)
           /\ {t, Stopping(i, t), Guarding(t)} \subseteq Sched!AfterRunnable(i)
           /\ Held(Yielding(t), "STOPPED") \in Sched!AfterDeinit(i)
           /\ t.allowWifiReconnect = TRUE => Held(t, "STOPPED") \in Sched!AfterDeinit(i)
<1> DEFINE t == task_list[i]
<1>1. t \in Sched!TaskRecord /\ i \in DOMAIN task_list
  BY TenTasks DEF Sched!TaskList
<1>2. ASSUME NEW b \in BOOLEAN
      PROVE  /\ Sched!allow(task_list, i, b)[i] = [t EXCEPT !.allowWifiReconnect = b]
             /\ Sched!hardStart(Sched!allow(task_list, i, b), i)[i] =
                   Held([t EXCEPT !.allowWifiReconnect = b], "RUNNING")
             /\ b = t.allowWifiReconnect => Sched!allow(task_list, i, b) = task_list
  BY <1>1, TenTasks
     DEF Sched!allow, Sched!hardStart, Held, Sched!TaskList, Sched!TaskRecord
<1>3. ASSUME NEW b \in BOOLEAN
      PROVE  /\ [t EXCEPT !.allowWifiReconnect = b] \in Sched!AfterInit(i)
             /\ Held([t EXCEPT !.allowWifiReconnect = b], "RUNNING") \in Sched!AfterInit(i)
             /\ [t EXCEPT !.allowWifiReconnect = b] \in Sched!AfterRunnable(i)
             /\ b = t.allowWifiReconnect => Sched!Touched(task_list, i) \subseteq Sched!AfterRunnable(i)
  <2>1. [t EXCEPT !.allowWifiReconnect = b] \in Sched!Touched(Sched!allow(task_list, i, b), i)
    BY <1>2 DEF Sched!Touched
  <2>. QED
    BY <1>2, <2>1 DEF Sched!AfterInit, Sched!AfterRunnable
<1>4. /\ [t EXCEPT !.allowWifiReconnect = t.allowWifiReconnect] = t
      /\ t.allowWifiReconnect \in BOOLEAN
  BY <1>1 DEF Sched!TaskRecord
<1>5. {t, Held(t, "RUNNING"), Held(Guarding(t), "RUNNING")} \subseteq Sched!AfterInit(i)
  BY <1>3, <1>4 DEF Guarding
<1>6. {t, Stopping(i, t)} \subseteq Sched!AfterRunnable(i)
  BY <1>3, <1>4, TouchedOnce
<1>7. Guarding(t) \in Sched!AfterRunnable(i)
  BY <1>3 DEF Guarding
<1>8. Held(Yielding(t), "STOPPED") \in Sched!AfterDeinit(i)
  BY <1>1, TenTasks DEF Sched!AfterDeinit, Sched!allow, Sched!hardStop, Held, Yielding,
     Sched!TaskList, Sched!TaskRecord
<1>9. t.allowWifiReconnect = TRUE => Yielding(t) = t
  BY <1>1 DEF Yielding, Sched!TaskRecord
<1>. QED
  BY <1>5, <1>6, <1>7, <1>8, <1>9

(* The tasks that never keep wifi_retry from reconnecting.                 *)
Harmless ==
    \A i \in (0 .. 9) \ {PRIMING, FILLITK, SAMPLING, DRAINING} :
        task_list[i].allowWifiReconnect = TRUE

(* The two halves of the one branch that goes beyond the contract: it      *)
(* calls hardStop() for a task other than SAMPLING.                        *)
resetting == sampling_resetSampler \/ sampling_resetDone

(* Calls with such edits are calls of Scheduler.                           *)
LEMMA CallsLeave ==
    ASSUME task_list \in Sched!TaskList, NEW i \in 0 .. 9, NEW Own, NEW Others,
           Edits(i, Own, Others)
    PROVE  LET t == task_list[i] IN
           /\ (/\ Calls(i, "STARTING")
               /\ Own \subseteq {t, Held(t, "RUNNING"), Held(Guarding(t), "RUNNING")})
              => Sched!init(i)
           /\ (/\ Calls(i, "RUNNING")
               /\ Own \subseteq {t, Stopping(i, t), Guarding(t)})
              => Sched!runnable(i)
           /\ (/\ Calls(i, "STOPPING")
               /\ \/ Own = {Held(Yielding(t), "STOPPED")}
                  \/ t.allowWifiReconnect = TRUE /\ Own = {Held(t, "STOPPED")})
              => Sched!deinit(i)
<1> DEFINE t == task_list[i]
<1>1. \A S : Own \subseteq S => Sched!Leaves(i, S)
  BY EditsLeave
<1>2. ASSUME Calls(i, "STARTING"),
             Own \subseteq {t, Held(t, "RUNNING"), Held(Guarding(t), "RUNNING")}
      PROVE  Sched!init(i)
  BY <1>1, <1>2, OwnLeaves, CallsOf DEF Sched!init
<1>3. ASSUME Calls(i, "RUNNING"), Own \subseteq {t, Stopping(i, t), Guarding(t)}
      PROVE  Sched!runnable(i)
  BY <1>1, <1>3, OwnLeaves, CallsOf DEF Sched!runnable
<1>4. ASSUME Calls(i, "STOPPING"),
             \/ Own = {Held(Yielding(t), "STOPPED")}
             \/ t.allowWifiReconnect = TRUE /\ Own = {Held(t, "STOPPED")}
      PROVE  Sched!deinit(i)
  BY <1>1, <1>4, OwnLeaves, CallsOf DEF Sched!deinit
<1>. QED
  BY <1>2, <1>3, <1>4

(* A step of the scheduler is a step of Scheduler.                         *)
SchedStep(i) == Sched!init(i) \/ Sched!runnable(i) \/ Sched!deinit(i)

(* PRIMING keeps the contract.                                             *)
LEMMA PrimingRefines == task_list \in Sched!TaskList /\ priming => SchedStep(PRIMING)
<1> SUFFICES ASSUME task_list \in Sched!TaskList, priming
             PROVE  SchedStep(PRIMING)
  OBVIOUS
<1>0. PRIMING \in 0 .. 9
  BY DEF PRIMING
<1>1. CASE priming_init
  BY <1>0, <1>1, PrimingEdits, CallsLeave DEF priming_init, SchedStep
<1>2. CASE priming_starts
  BY <1>0, <1>2, PrimingEdits, CallsLeave DEF priming_starts, SchedStep
<1>3. CASE priming_waits \/ priming_doses
  BY <1>0, <1>3, PrimingEdits, CallsLeave DEF priming_waits, priming_doses, SchedStep
<1>4. CASE priming_stops
  BY <1>0, <1>4, PrimingEdits, CallsLeave DEF priming_stops, SchedStep
<1>5. CASE priming_deinit
  BY <1>0, <1>5, PrimingEdits, CallsLeave DEF priming_deinit, SchedStep
<1>. QED
  BY <1>1, <1>2, <1>3, <1>4, <1>5 DEF priming

(* FILLITK keeps the contract.                                             *)
LEMMA FillRefines == task_list \in Sched!TaskList /\ fillITK => SchedStep(FILLITK)
<1> SUFFICES ASSUME task_list \in Sched!TaskList, fillITK
             PROVE  SchedStep(FILLITK)
  OBVIOUS
<1>0. FILLITK \in 0 .. 9
  BY DEF FILLITK
<1>1. CASE fillITK_init
  BY <1>0, <1>1, FillEdits, CallsLeave DEF fillITK_init, SchedStep
<1>2. CASE fillITK_runnable
  BY <1>0, <1>2, FillEdits, CallsLeave DEF fillITK_runnable, SchedStep
<1>3. CASE fillITK_deinit
  BY <1>0, <1>3, FillEdits, CallsLeave DEF fillITK_deinit, SchedStep
<1>. QED
  BY <1>1, <1>2, <1>3 DEF fillITK

(* LEAKHANDLER never guards, so its deinit need not yield.                 *)
LEMMA LeakRefines == task_list \in Sched!TaskList /\ Harmless /\ leakHandler => SchedStep(LEAKHANDLER)
<1> SUFFICES ASSUME task_list \in Sched!TaskList, Harmless, leakHandler
             PROVE  SchedStep(LEAKHANDLER)
  OBVIOUS
<1>0. LEAKHANDLER \in 0 .. 9
  BY DEF LEAKHANDLER
<1>1. CASE leakHandler_init
  BY <1>0, <1>1, LeakEdits, CallsLeave DEF leakHandler_init, SchedStep
<1>2. CASE leakHandler_runnable
  BY <1>0, <1>2, LeakEdits, CallsLeave DEF leakHandler_runnable, SchedStep
<1>3. CASE leakHandler_deinit
  <2>1. task_list[LEAKHANDLER].allowWifiReconnect = TRUE
    BY DEF Harmless, LEAKHANDLER, PRIMING, FILLITK, SAMPLING, DRAINING
  <2>. QED
    BY <1>0, <1>3, <2>1, LeakEdits, CallsLeave DEF leakHandler_deinit, SchedStep
<1>. QED
  BY <1>1, <1>2, <1>3 DEF leakHandler

(* All of SAMPLING but the reset.                                          *)
LEMMA SamplingRefines == task_list \in Sched!TaskList /\ sampling /\ ~resetting => SchedStep(SAMPLING)
<1> SUFFICES ASSUME task_list \in Sched!TaskList, sampling, ~resetting
             PROVE  SchedStep(SAMPLING)
  OBVIOUS
<1>0. SAMPLING \in 0 .. 9
  BY DEF SAMPLING
<1>1. CASE sampling_init
  BY <1>0, <1>1, SamplingEdits, CallsLeave DEF sampling_init, SchedStep
<1>2. CASE sampling_stops \/ sampling_DRAINING2
  BY <1>0, <1>2, SamplingEdits, CallsLeave DEF sampling_stops, sampling_DRAINING2, InState, SchedStep
<1>3. CASE sampling_drainingPending
  BY <1>0, <1>3, SamplingEdits, CallsLeave DEF sampling_drainingPending, InState, SchedStep
<1>4. CASE sampling_silent
  BY <1>0, <1>4, SamplingEdits, CallsLeave DEF sampling_silent, sampling_DRAINING,
     sampling_CLEARSAMPLERLINES, sampling_CLEARSAMPLERWASTE, sampling_skips, sampling_sampling,
     sampling_DRAINING1, sampling_drainsOn, InState, SchedStep
<1>5. CASE sampling_deinit
  BY <1>0, <1>5, SamplingEdits, CallsLeave DEF sampling_deinit, SchedStep
<1>. QED
  BY <1>1, <1>2, <1>3, <1>4, <1>5 DEF sampling, sampling_runnable, sampling_silent, resetting

(* DRAINING keeps the contract.                                            *)
LEMMA DrainingRefines == task_list \in Sched!TaskList /\ draining => SchedStep(DRAINING)
<1> SUFFICES ASSUME task_list \in Sched!TaskList, draining
             PROVE  SchedStep(DRAINING)
  OBVIOUS
<1>0. DRAINING \in 0 .. 9
  BY DEF DRAINING
<1>1. CASE draining_init
  BY <1>0, <1>1, DrainingEdits, CallsLeave DEF draining_init, SchedStep
<1>2. CASE draining_runnable
  BY <1>0, <1>2, DrainingEdits, CallsLeave DEF draining_runnable, SchedStep
<1>3. CASE draining_deinit
  BY <1>0, <1>3, DrainingEdits, CallsLeave DEF draining_deinit, SchedStep
<1>. QED
  BY <1>1, <1>2, <1>3 DEF draining

(* SENSORS never guards either.                                            *)
LEMMA SensorsRefines == task_list \in Sched!TaskList /\ Harmless /\ sensors => SchedStep(SENSORS)
<1> SUFFICES ASSUME task_list \in Sched!TaskList, Harmless, sensors
             PROVE  SchedStep(SENSORS)
  OBVIOUS
<1>0. SENSORS \in 0 .. 9
  BY DEF SENSORS
<1>1. CASE sensors_init
  BY <1>0, <1>1, SensorsEdits, CallsLeave DEF sensors_init, SchedStep
<1>2. CASE sensors_runnable \/ sensors_stops
  BY <1>0, <1>2, SensorsEdits, CallsLeave DEF sensors_runnable, sensors_stops, SchedStep
<1>3. CASE sensors_deinit
  <2>1. task_list[SENSORS].allowWifiReconnect = TRUE
    BY DEF Harmless, SENSORS, PRIMING, FILLITK, SAMPLING, DRAINING
  <2>. QED
    BY <1>0, <1>3, <2>1, SensorsEdits, CallsLeave DEF sensors_deinit, SchedStep
<1>. QED
  BY <1>1, <1>2, <1>3 DEF sensors

(* BTNHANDLER keeps the contract.                                          *)
LEMMA BtnRefines == task_list \in Sched!TaskList /\ btnHandler => SchedStep(BTNHANDLER)
<1> SUFFICES ASSUME task_list \in Sched!TaskList, btnHandler
             PROVE  SchedStep(BTNHANDLER)
  OBVIOUS
<1>0. BTNHANDLER \in 0 .. 9
  BY DEF BTNHANDLER
<1>1. CASE btnHandler_init
  BY <1>0, <1>1, PanelEdits, CallsLeave DEF btnHandler_init, SchedStep
<1>2. CASE btnHandler_runnable
  <2>1. Calls(BTNHANDLER, "RUNNING")
    BY <1>2 DEF btnHandler_runnable
  <2>. QED
    BY <1>0, <1>2, <2>1, PanelEdits, CallsLeave DEF SchedStep
<1>. QED
  BY <1>1, <1>2 DEF btnHandler

(* SHIFTREGISTERHANDLER keeps the contract.                                *)
LEMMA ShiftRefines == task_list \in Sched!TaskList /\ shiftRegisterHandler => SchedStep(SHIFTREGISTERHANDLER)
<1> SUFFICES ASSUME task_list \in Sched!TaskList, shiftRegisterHandler
             PROVE  SchedStep(SHIFTREGISTERHANDLER)
  OBVIOUS
<1>0. SHIFTREGISTERHANDLER \in 0 .. 9
  BY DEF SHIFTREGISTERHANDLER
<1>1. CASE shiftRegisterHandler_init
  BY <1>0, <1>1, PanelEdits, CallsLeave DEF shiftRegisterHandler_init, SchedStep
<1>2. CASE shiftRegisterHandler_runnable
  BY <1>0, <1>2, PanelEdits, CallsLeave DEF shiftRegisterHandler_runnable, SchedStep
<1>. QED
  BY <1>1, <1>2 DEF shiftRegisterHandler

(* IDLE keeps the contract.                                                *)
LEMMA IdleRefines == task_list \in Sched!TaskList /\ idle => SchedStep(IDLE)
<1> SUFFICES ASSUME task_list \in Sched!TaskList, idle
             PROVE  SchedStep(IDLE)
  OBVIOUS
<1>0. IDLE \in 0 .. 9
  BY DEF IDLE
<1>1. CASE idle_init
  BY <1>0, <1>1, PanelEdits, CallsLeave DEF idle_init, SchedStep
<1>2. CASE idle_runnable
  BY <1>0, <1>2, PanelEdits, CallsLeave DEF idle_runnable, SchedStep
<1>. QED
  BY <1>1, <1>2 DEF idle

(* WIFI keeps the contract, the commands that it obeys included.           *)
LEMMA WifiRefines == task_list \in Sched!TaskList /\ wifi => SchedStep(WIFI)
<1> SUFFICES ASSUME task_list \in Sched!TaskList, wifi
             PROVE  SchedStep(WIFI)
  OBVIOUS
<1>0. WIFI \in 0 .. 9
  BY DEF WIFI
<1>1. CASE wifi_init
  BY <1>0, <1>1, WifiEdits, CallsLeave DEF wifi_init, SchedStep
<1>2. CASE wifi_deaf
  BY <1>0, <1>2, WifiEdits, CallsLeave DEF wifi_deaf, wifi_pending, wifi_broker, wifi_loses, SchedStep
<1>3. CASE wifi_subscribes \/ wifi_loops
  BY <1>0, <1>3, WifiEdits, CallsLeave DEF wifi_subscribes, wifi_loops, SchedStep
<1>. QED
  BY <1>1, <1>2, <1>3 DEF wifi, wifi_deaf

-----------------------------------------------------------------------------
(* What is proved of Scheduler, with the rig's tasks for its constants.    *)
Contract == INSTANCE SchedulerProofs

(* The assumption of SchedulerProofs holds of the rig's tasks.             *)
LEMMA ContractTasks == Contract!TasksAssumption
  BY RigTasks DEF Contract!TasksAssumption, Sched!TasksAssumption, Contract!Task, Sched!Task

(* Sched and Contract are two instances of one module, with the same       *)
(* constants and variables.                                                *)
LEMMA SameTypes ==
    /\ Sched!TypeOK <=> Contract!TypeOK
    /\ Sched!TypeOK' <=> Contract!TypeOK'
    /\ Sched!StoppedIsSafe <=> Contract!StoppedIsSafe
    /\ Sched!StoppedIsSafe' <=> Contract!StoppedIsSafe'
  BY DEF Sched!TypeOK, Contract!TypeOK, Sched!TaskList, Contract!TaskList, Sched!TaskRecord,
     Contract!TaskRecord, Sched!State, Contract!State, Sched!Task, Contract!Task,
     Sched!StoppedIsSafe, Contract!StoppedIsSafe

(* So they have the same steps.                                            *)
LEMMA SameNext == [Sched!Next]_schedVars <=> [Contract!Next]_(Contract!vars)
  BY DEF schedVars, Contract!vars, Sched!Next, Contract!Next, Sched!NextPass, Contract!NextPass,
     Sched!PassOver, Contract!PassOver, Sched!Due, Contract!Due, Sched!Later, Contract!Later,
     Sched!Checks, Contract!Checks, Sched!Task, Contract!Task,
     Sched!scheduler_updateTasks, Contract!scheduler_updateTasks,
     Sched!scheduler_flagTasksToWaiting, Contract!scheduler_flagTasksToWaiting,
     Sched!UpdateTask, Contract!UpdateTask, Sched!FlagTask, Contract!FlagTask,
     Sched!init, Contract!init, Sched!runnable, Contract!runnable, Sched!deinit, Contract!deinit,
     Sched!Calls, Contract!Calls, Sched!Leaves, Contract!Leaves, Sched!Touched, Contract!Touched,
     Sched!AfterInit, Contract!AfterInit, Sched!AfterRunnable, Contract!AfterRunnable,
     Sched!AfterDeinit, Contract!AfterDeinit, Sched!start, Contract!start, Sched!stop, Contract!stop,
     Sched!hardStart, Contract!hardStart, Sched!hardStop, Contract!hardStop,
     Sched!allow, Contract!allow

(* The lemma TypeStep of SchedulerProofs, for the rig's task_list.         *)
LEMMA SchedTypeStep == Sched!TypeOK /\ [Sched!Next]_schedVars => Sched!TypeOK'
  BY SameTypes, SameNext, ContractTasks, Contract!TypeStep

(* The lemma StoppedIsSafeStep of SchedulerProofs, for the rig's           *)
(* task_list.                                                              *)
LEMMA SchedSafeStep ==
    Sched!TypeOK /\ Sched!StoppedIsSafe /\ [Sched!Next]_schedVars => Sched!StoppedIsSafe'
  BY SameTypes, SameNext, ContractTasks, Contract!StoppedIsSafeStep

(* Every step of the rig but the reset is one of Scheduler.                *)
LEMMA StepRefines ==
    ASSUME task_list \in Sched!TaskList, Harmless, [Next]_vars, ~resetting
    PROVE  [Sched!Next]_schedVars
<1>1. ASSUME NEW i \in 0 .. 9, SchedStep(i)
      PROVE  Sched!Next
  BY <1>1, TenTasks DEF SchedStep, Sched!Next
<1>2. CASE NextPass
  BY <1>2 DEF NextPass, Sched!Next
<1>3. CASE HangEnds \/ NetworkDrops \/ UNCHANGED vars
  BY <1>3 DEF HangEnds, NetworkDrops, vars, schedVars
<1>4. CASE scheduler_runTasks
  <2>1. PICK i \in 0 .. 9 : SchedStep(i)
    BY <1>4, PrimingRefines, FillRefines, LeakRefines, SamplingRefines, DrainingRefines,
       SensorsRefines, BtnRefines, ShiftRefines, IdleRefines, WifiRefines
       DEF scheduler_runTasks, PRIMING, FILLITK, LEAKHANDLER, SAMPLING, DRAINING, SENSORS,
       BTNHANDLER, SHIFTREGISTERHANDLER, IDLE, WIFI
  <2>. QED
    BY <1>1, <2>1
<1>. QED
  BY <1>2, <1>3, <1>4 DEF Next, loop

-----------------------------------------------------------------------------
(* What stays when task i's fptr has been called: the flags of the other   *)
(* tasks, and their states unless they were started, or stopped.           *)
LEMMA EditedFields ==
    ASSUME task_list \in Sched!TaskList, NEW i \in 0 .. 9, NEW Own, NEW Others,
           Edits(i, Own, Others), NEW j \in (0 .. 9) \ {i}
    PROVE  /\ task_list'[j].allowWifiReconnect = task_list[j].allowWifiReconnect
           /\ task_list'[j].state = "STOPPED" => task_list[j].state = "STOPPED"
           /\ \/ task_list'[j].state = task_list[j].state
              \/ j \in Others /\ task_list'[j].state = "STARTING"
                 /\ task_list[j].state \in {"STOPPED", "STOPPING"}
              \/ j = DRAINING /\ DRAINING \in Others
<1>1. task_list[j] \in Sched!TaskRecord /\ j \in 0 .. 9
  BY TenTasks DEF Sched!TaskList
<1>2. CASE task_list'[j] = task_list[j]
  BY <1>2
<1>3. CASE j \in Others /\ j # DRAINING /\ task_list'[j] = Started(task_list[j])
  BY <1>1, <1>3, RecordFields
<1>4. CASE j \in Others /\ j = DRAINING /\ task_list'[j] \in Sched!Touched(task_list, j)
  <2>1. /\ task_list'[j].state = "STOPPED" => task_list[j].state = "STOPPED"
        /\ task_list'[j].allowWifiReconnect = task_list[j].allowWifiReconnect
    BY <1>1, <1>4, TouchedFields
  <2>. QED
    BY <1>4, <2>1
<1>. QED
  BY <1>2, <1>3, <1>4 DEF Edits

(* The update between two passes moves a task between READY, RUNNING and   *)
(* WAITING only, and leaves one that runs every pass in RUNNING.           *)
LEMMA PassList ==
    ASSUME task_list \in Sched!TaskList, Sched!NextPass
    PROVE  /\ task_list' \in Sched!TaskList
           /\ \A j \in 0 .. 9 :
                 /\ task_list'[j].allowWifiReconnect = task_list[j].allowWifiReconnect
                 /\ \/ task_list'[j].state = task_list[j].state
                    \/ /\ task_list[j].state \in {"RUNNING", "READY", "WAITING"}
                       /\ task_list'[j].state \in {"RUNNING", "READY", "WAITING"}
                 /\ LoopMs[j] = 0 /\ task_list[j].state = "RUNNING"
                       => task_list'[j].state = "RUNNING"
<1> DEFINE f(j) == Sched!FlagTask(task_list[j], LoopMs[j])
           u(j) == Sched!UpdateTask(f(j), LoopMs[j])
<1>1. task_list' = [j \in 0 .. 9 |-> u(j)]
  BY TenTasks DEF Sched!NextPass, Sched!scheduler_updateTasks, Sched!scheduler_flagTasksToWaiting
<1>2. ASSUME NEW j \in 0 .. 9
      PROVE  /\ u(j) \in Sched!TaskRecord
             /\ u(j).allowWifiReconnect = task_list[j].allowWifiReconnect
             /\ \/ u(j).state = task_list[j].state
                \/ /\ task_list[j].state \in {"RUNNING", "READY", "WAITING"}
                   /\ u(j).state \in {"RUNNING", "READY", "WAITING"}
             /\ LoopMs[j] = 0 /\ task_list[j].state = "RUNNING" => u(j).state = "RUNNING"
  <2>1. task_list[j] \in Sched!TaskRecord /\ LoopMs[j] \in Nat
    BY RigTasks, TenTasks DEF Sched!TaskList, Sched!TasksAssumption
  <2>2. /\ f(j) \in Sched!TaskRecord
        /\ f(j).allowWifiReconnect = task_list[j].allowWifiReconnect
        /\ \/ f(j).state = task_list[j].state
           \/ task_list[j].state = "RUNNING" /\ f(j).state = "WAITING" /\ LoopMs[j] # 0
    BY <2>1 DEF Sched!FlagTask, Sched!TaskRecord, Sched!State
  <2>3. ASSUME NEW t \in Sched!TaskRecord, NEW p \in Nat
        PROVE  /\ Sched!UpdateTask(t, p) \in Sched!TaskRecord
               /\ Sched!UpdateTask(t, p).allowWifiReconnect = t.allowWifiReconnect
               /\ \/ Sched!UpdateTask(t, p).state = t.state
                  \/ /\ t.state \in {"READY", "WAITING"}
                     /\ Sched!UpdateTask(t, p).state = "RUNNING"
    <3>1. CASE t.state = "WAITING" /\ t.timer - 1 >= 1
      <4>1. Sched!UpdateTask(t, p) = [t EXCEPT !.timer = t.timer - 1]
        BY <3>1 DEF Sched!UpdateTask
      <4>. QED
        BY <3>1, <4>1 DEF Sched!TaskRecord, Sched!State
    <3>2. CASE t.state = "WAITING" /\ ~(t.timer - 1 >= 1)
      <4>1. Sched!UpdateTask(t, p) = [t EXCEPT !.state = "RUNNING", !.timer = p]
        BY <3>2 DEF Sched!UpdateTask
      <4>. QED
        BY <3>2, <4>1 DEF Sched!TaskRecord, Sched!State
    <3>3. CASE t.state # "WAITING"
      BY <3>3 DEF Sched!UpdateTask, Sched!TaskRecord, Sched!State
    <3>. QED
      BY <3>1, <3>2, <3>3
  <2> HIDE DEF f
  <2>. QED
    BY <2>1, <2>2, <2>3
<1> HIDE DEF u
<1>. QED
  BY <1>1, <1>2, TenTasks DEF Sched!TaskList

(* The two halves of the reset.                                            *)
LEMMA ResetList ==
    ASSUME task_list \in Sched!TaskList
    PROVE  /\ sampling_resetSampler =>
                 /\ task_list' \in Sched!TaskList
                 /\ task_list'[PRIMING] = Yielding(task_list[PRIMING])
                 /\ task_list'[FILLITK] = Held(task_list[FILLITK], "STOPPED")
                 /\ \A j \in (0 .. 9) \ {PRIMING, FILLITK} : task_list'[j] = task_list[j]
           /\ sampling_resetDone =>
                 /\ task_list' \in Sched!TaskList
                 /\ task_list'[FILLITK] = Started(task_list[FILLITK])
                 /\ \A j \in (0 .. 9) \ {FILLITK} : task_list'[j] = task_list[j]
<1> USE DEF PRIMING, FILLITK
<1> DEFINE list == yield(task_list, PRIMING)
<1>1. /\ list \in Sched!TaskList
      /\ \A j \in 0 .. 9 :
            list[j] = IF j = PRIMING THEN Yielding(task_list[j]) ELSE task_list[j]
  BY AllowList
<1>2. sampling_resetSampler => task_list' = hardStop(list, FILLITK)
  BY DEF sampling_resetSampler, yield, allow, Sched!allow
<1> HIDE DEF list
<1>3. sampling_resetDone => task_list' = start(task_list, FILLITK)
  BY DEF sampling_resetDone, errorState, AfterError, DrainErrors
<1>. QED
  BY <1>1, <1>2, <1>3, HardList, StartList

(* A call of task i's fptr leaves its record as one of Own.                *)
Writes(i, Own) == \E Others : Edits(i, Own, Others)

(* Every step of the rig but the reset is the end of a pass, one of the    *)
(* network, or a call; the calls of the tasks that Harmless is about do    *)
(* not write their flags.                                                  *)
LEMMA StepWrites ==
    ASSUME task_list \in Sched!TaskList, [Next]_vars, ~resetting
    PROVE  \/ Sched!NextPass
           \/ task_list' = task_list
           \/ \E i \in {PRIMING, FILLITK, SAMPLING, DRAINING} : \E Own : Writes(i, Own)
           \/ \E i \in (0 .. 9) \ {PRIMING, FILLITK, SAMPLING, DRAINING} :
                 LET t == task_list[i] IN
                 Writes(i, {t, Held(t, "RUNNING"), Held(t, "STOPPED"), Stopping(i, t)})
<1> DEFINE Few(i) == LET t == task_list[i] IN
                     {t, Held(t, "RUNNING"), Held(t, "STOPPED"), Stopping(i, t)}
<1>0. {LEAKHANDLER, SENSORS, BTNHANDLER, SHIFTREGISTERHANDLER, IDLE, WIFI} \subseteq 0 .. 9
  BY DEF LEAKHANDLER, SENSORS, BTNHANDLER, SHIFTREGISTERHANDLER, IDLE, WIFI
<1>1. ASSUME NEW i \in 0 .. 9, NEW Own, NEW Others, Edits(i, Own, Others), Own \subseteq Few(i)
      PROVE  Writes(i, Few(i))
  <2>1. Edits(i, Few(i), Others)
    BY <1>1 DEF Edits
  <2>. QED
    BY <2>1 DEF Writes
<1>2. CASE NextPass
  BY <1>2 DEF NextPass
<1>3. CASE HangEnds \/ NetworkDrops \/ UNCHANGED vars
  BY <1>3 DEF HangEnds, NetworkDrops, vars, schedVars
<1>4. priming => \E Own : Writes(PRIMING, Own)
  BY PrimingEdits DEF priming, Writes
<1>5. fillITK => \E Own : Writes(FILLITK, Own)
  BY FillEdits DEF fillITK, Writes
<1>6. sampling => \E Own : Writes(SAMPLING, Own)
  BY SamplingEdits DEF sampling, sampling_runnable, sampling_silent, resetting, Writes
<1>7. draining => \E Own : Writes(DRAINING, Own)
  BY DrainingEdits DEF draining, Writes
<1>8. leakHandler => Writes(LEAKHANDLER, Few(LEAKHANDLER))
  BY <1>1, <1>0, LeakEdits DEF leakHandler
<1>9. sensors => Writes(SENSORS, Few(SENSORS))
  BY <1>1, <1>0, SensorsEdits DEF sensors
<1>10. btnHandler => Writes(BTNHANDLER, Few(BTNHANDLER))
  BY <1>1, <1>0, PanelEdits DEF btnHandler
<1>11. shiftRegisterHandler => Writes(SHIFTREGISTERHANDLER, Few(SHIFTREGISTERHANDLER))
  BY <1>1, <1>0, PanelEdits DEF shiftRegisterHandler
<1>12. idle => Writes(IDLE, Few(IDLE))
  BY <1>1, <1>0, PanelEdits DEF idle
<1>13. wifi => Writes(WIFI, Few(WIFI))
  BY <1>1, <1>0, WifiEdits DEF wifi, wifi_deaf
<1>14. /\ {LEAKHANDLER, SENSORS, BTNHANDLER, SHIFTREGISTERHANDLER, IDLE, WIFI}
            = (0 .. 9) \ {PRIMING, FILLITK, SAMPLING, DRAINING}
  BY DEF PRIMING, FILLITK, LEAKHANDLER, SAMPLING, DRAINING, SENSORS,
     BTNHANDLER, SHIFTREGISTERHANDLER, IDLE, WIFI
<1> HIDE DEF Few
<1>15. scheduler_runTasks =>
          \/ \E i \in {PRIMING, FILLITK, SAMPLING, DRAINING} : \E Own : Writes(i, Own)
          \/ \E i \in (0 .. 9) \ {PRIMING, FILLITK, SAMPLING, DRAINING} : Writes(i, Few(i))
  BY <1>4, <1>5, <1>6, <1>7, <1>8, <1>9, <1>10, <1>11, <1>12, <1>13, <1>14
     DEF scheduler_runTasks
<1>. QED
  BY <1>2, <1>3, <1>15 DEF Next, loop, Few

(* The flags that Harmless is about are written by nobody.                 *)
LEMMA HarmlessStep ==
    ASSUME task_list \in Sched!TaskList, Harmless, [Next]_vars
    PROVE  Harmless'
<1> USE DEF PRIMING, FILLITK, SAMPLING, DRAINING
<1> DEFINE Tame == (0 .. 9) \ {PRIMING, FILLITK, SAMPLING, DRAINING}
<1>1. ASSUME NEW i \in 0 .. 9, NEW Own, Writes(i, Own),
             i \in Tame => \A t \in Own : t.allowWifiReconnect = TRUE
      PROVE  Harmless'
  <2>1. PICK Others : Edits(i, Own, Others)
    BY <1>1 DEF Writes
  <2>2. \A j \in (0 .. 9) \ {i} :
           task_list'[j].allowWifiReconnect = task_list[j].allowWifiReconnect
    BY <2>1, EditedFields
  <2>3. i \in Tame => task_list'[i].allowWifiReconnect = TRUE
    BY <1>1, <2>1 DEF Edits
  <2>. QED
    BY <2>2, <2>3 DEF Harmless
<1>2. ASSUME NEW i \in Tame, NEW t \in {task_list[i], Held(task_list[i], "RUNNING"),
             Held(task_list[i], "STOPPED"), Stopping(i, task_list[i])}
      PROVE  t.allowWifiReconnect = TRUE
  <2>1. task_list[i] \in Sched!TaskRecord /\ task_list[i].allowWifiReconnect = TRUE
    BY TenTasks DEF Harmless, Sched!TaskList
  <2>2. /\ Held(task_list[i], "RUNNING").allowWifiReconnect = TRUE
        /\ Held(task_list[i], "STOPPED").allowWifiReconnect = TRUE
    BY <2>1, WrittenFields DEF Sched!State
  <2>3. Stopping(i, task_list[i]).allowWifiReconnect = TRUE
    BY <2>1, RecordFields
  <2>. QED
    BY <2>1, <2>2, <2>3
<1>3. CASE resetting
  <2>1. \A j \in Tame : task_list'[j] = task_list[j]
    BY <1>3, ResetList DEF resetting
  <2>. QED
    BY <2>1 DEF Harmless
<1>4. CASE Sched!NextPass
  BY <1>4, PassList DEF Harmless
<1>5. CASE task_list' = task_list
  BY <1>5 DEF Harmless
<1>6. CASE \E i \in {PRIMING, FILLITK, SAMPLING, DRAINING} : \E Own : Writes(i, Own)
  BY <1>1, <1>6
<1>7. CASE \E i \in Tame : LET t == task_list[i] IN
              Writes(i, {t, Held(t, "RUNNING"), Held(t, "STOPPED"), Stopping(i, t)})
  <2>1. PICK i \in Tame : Writes(i, {task_list[i], Held(task_list[i], "RUNNING"),
                     Held(task_list[i], "STOPPED"), Stopping(i, task_list[i])})
    BY <1>7
  <2>. QED
    BY <1>1, <1>2, <2>1
<1>. QED
  BY <1>3, <1>4, <1>5, <1>6, <1>7, StepWrites

-----------------------------------------------------------------------------
(* Who writes what: the calls outside of which a variable keeps its value. *)
WritesRelay ==
    \/ priming_doses \/ priming_deinit
    \/ fillITK_init \/ fillITK_deinit
    \/ sampling_resetSampler \/ sampling_DRAINING \/ sampling_CLEARSAMPLERLINES
    \/ sampling_CLEARSAMPLERWASTE \/ sampling_skips \/ sampling_sampling
    \/ sampling_DRAINING2 \/ sampling_deinit
    \/ draining \/ shiftRegisterHandler_init

WritesError ==
    \/ priming_waits \/ priming_doses
    \/ fillITK_init \/ fillITK_runnable
    \/ leakHandler_runnable \/ leakHandler_deinit
    \/ sampling_init \/ sampling_resetDone \/ sampling_sampling
    \/ sensors_runnable \/ idle_runnable \/ wifi_subscribes \/ wifi_loops

WritesSamplingState ==
    \/ sampling_init \/ sampling_drainingPending \/ sampling_DRAINING
    \/ sampling_CLEARSAMPLERLINES \/ sampling_CLEARSAMPLERWASTE
    \/ sampling_skips \/ sampling_sampling \/ sampling_DRAINING1

Frame ==
    /\ relay' = relay \/ WritesRelay
    /\ error' = error \/ WritesError
    /\ sampling_state' = sampling_state \/ WritesSamplingState
    /\ samplling_sampleState' = samplling_sampleState \/ sampling_init \/ sampling_sampling
    /\ priming_state' = priming_state \/ priming_init \/ priming_starts \/ priming_doses
    /\ out' = out \/ shiftRegisterHandler
    /\ bottle' = bottle \/ priming_doses \/ sampling_DRAINING2 \/ draining_runnable
    /\ tank' = tank \/ btnHandler_runnable
    /\ leak' = leak \/ leakHandler_init \/ leakHandler_runnable \/ btnHandler_runnable
    /\ s_wifiState' = s_wifiState \/ wifi
    /\ net' = net \/ wifi \/ NetworkDrops
    /\ hang' = hang \/ HangEnds \/ resetting \/ sampling_sampling \/ wifi_pending \/ wifi_broker
    /\ UNCHANGED feed \/ priming_doses \/ priming_deinit \/ sampling_resetSampler
    /\ UNCHANGED priming_hasStarted \/ priming_starts \/ priming_deinit \/ sampling_resetSampler
    /\ UNCHANGED paused \/ idle_runnable \/ wifi_subscribes \/ wifi_loops

(* Every step keeps to Frame.                                              *)
LEMMA StepFrame == [Next]_vars => Frame
<1> USE DEF Frame, relayVars, primingVars, samplingVars, waterVars, wifiVars
<1>1. priming => Frame
  BY DEF priming, priming_init, priming_starts, priming_startPriming, priming_waits,
     priming_doses, priming_stops, priming_deinit, WritesRelay, WritesError
<1>2. fillITK => Frame
  BY DEF fillITK, fillITK_init, fillITK_runnable, fillITK_deinit, WritesRelay, WritesError
<1>3. leakHandler => Frame
  BY DEF leakHandler, leakHandler_init, leakHandler_runnable, leakHandler_deinit, WritesError
<1>4. sampling => Frame
  BY DEF sampling, sampling_runnable, sampling_init, sampling_stops, sampling_resetSampler, 
     sampling_resetDone, sampling_drainingPending, sampling_DRAINING, sampling_CLEARSAMPLERLINES,
     sampling_CLEARSAMPLERWASTE, sampling_skips, sampling_sampling, sampling_DRAINING1, 
     sampling_DRAINING2, sampling_drainsOn, sampling_deinit, WritesRelay, WritesError,
      WritesSamplingState, resetting
<1>5. draining => Frame
  BY DEF draining, draining_init, draining_runnable, draining_deinit, WritesRelay
<1>6. sensors => Frame
  BY DEF sensors, sensors_init, sensors_runnable, sensors_stops, sensors_deinit, WritesError
<1>7. btnHandler \/ shiftRegisterHandler \/ idle => Frame
  BY DEF btnHandler, btnHandler_init, btnHandler_runnable, shiftRegisterHandler,
     shiftRegisterHandler_init, shiftRegisterHandler_runnable, idle, idle_init, idle_runnable,
     WritesRelay, WritesError
<1>8. wifi => Frame
  BY DEF wifi, wifi_init, wifi_pending, wifi_broker, brokerConnectionAttempt,
         wifi_subscribes, wifi_loses, wifi_loops, WritesError
<1>9. NextPass \/ HangEnds \/ NetworkDrops \/ UNCHANGED vars => Frame
  BY DEF NextPass, HangEnds, NetworkDrops, vars
<1>. QED
  BY <1>1, <1>2, <1>3, <1>4, <1>5, <1>6, <1>7, <1>8, <1>9 DEF Next, loop, scheduler_runTasks

(* TypeOK without what it says of the scheduler.                           *)
RestTypeOK ==
    /\ error \in ErrorState /\ paused \in BOOLEAN /\ feed \in BOOLEAN
    /\ relay \subseteq Relay /\ out \subseteq Relay
    /\ priming_state \in {"WAITING", "IDLE", "DOSING"} /\ priming_hasStarted \in BOOLEAN
    /\ sampling_state \in {"drainingPending", "DRAINING", "CLEARSAMPLERLINES",
           "CLEARSAMPLERWASTE", "SAMPLING", "DRAINING1", "DRAINING2"}
    /\ samplling_sampleState \in 0 .. 4
    /\ leak \in [wet : BOOLEAN, armed : BOOLEAN]
    /\ tank \in {"empty", "mid", "full"} /\ bottle \in {"empty", "full"}
    /\ s_wifiState \in {"OFF", "WIFI_PENDING", "BROKER_PENDING", "CONNECTED"}
    /\ net \in [link : BOOLEAN, client : BOOLEAN]
    /\ hang \in {"none", "wifi", "broker", "reset", "E01"}

(* TypeOK is what Scheduler says of its variables and what is said of the  *)
(* others.                                                                 *)
LEMMA TypeParts ==
    /\ TypeOK <=> Sched!TypeOK /\ RestTypeOK
    /\ TypeOK' <=> Sched!TypeOK' /\ RestTypeOK'
  BY DEF TypeOK, RestTypeOK

(* The relays that a step of sampling_sampling may turn on and off.        *)
LEMMA SampleRelaysBounds ==
    ASSUME NEW n \in 0 .. 4, NEW done \in BOOLEAN
    PROVE  /\ SampleRelays(n, done) \subseteq relay \cup {"OUTPUTPUMP", "SAMPLEVALVE"}
           /\ relay \ {"WASTEVALVE", "SAMPLEVALVE", "WASTEPUMP"} \subseteq SampleRelays(n, done)
           /\ n = 4 => "OUTPUTPUMP" \in SampleRelays(n, done)
  BY DEF SampleRelays, PumpOn

(* Every variable of RestTypeOK keeps its type.                            *)
LEMMA RestTypeStep ==
    ASSUME RestTypeOK, task_list \in Sched!TaskList, [Next]_vars
    PROVE  RestTypeOK'
<1>0. Frame
  BY StepFrame
<1>1. error' \in ErrorState
  <2>0. {"NOT_RUNNING", "RUNNING", "FINISHED", "LEAK", "FAILTOFILL", "SAMPLERERROR", "TOOFAST",
         "TOOSLOW", "HIGHPRESSURE", "LOWCO2PRESSURE"} \subseteq ErrorState
    BY DEF ErrorState, DrainErrors
  <2>1. priming_waits \/ priming_doses => error' \in ErrorState
    <3>1. ASSUME NEW h \in AfterHead
          PROVE  h[1] \in ErrorState
      BY <2>0, HeadList DEF PWMErrors, RestTypeOK
    <3>. QED
      BY <2>0, <3>1 DEF priming_waits, priming_doses, errorState
  <2>2. sampling_init \/ sampling_resetDone \/ sampling_sampling => error' \in ErrorState
    BY <2>0 DEF sampling_init, sampling_resetDone, sampling_sampling, AfterSampler, errorState,
       RestTypeOK
  <2>3. fillITK_init \/ fillITK_runnable \/ leakHandler_runnable \/ leakHandler_deinit
           => error' \in ErrorState
    BY <2>0 DEF fillITK_init, Refreshed, fillITK_runnable, leakHandler_runnable,
       leakHandler_deinit, errorState, RestTypeOK
  <2>4. sensors_runnable \/ idle_runnable \/ wifi_subscribes \/ wifi_loops => error' \in ErrorState
    BY <2>0 DEF sensors_runnable, PressureErrors, idle_runnable, wifi_subscribes, wifi_loops,
       wifi_messageReceived, errorState, RestTypeOK
  <2>. QED
    BY <1>0, <2>1, <2>2, <2>3, <2>4 DEF Frame, WritesError, RestTypeOK
<1>2. relay' \subseteq Relay /\ out' \subseteq Relay
  <2>1. sampling_sampling => relay' \subseteq Relay
    <3>1. relay \cup {"OUTPUTPUMP", "SAMPLEVALVE"} \subseteq Relay
      BY DEF RestTypeOK, Relay
    <3>2. samplling_sampleState \in 0 .. 4
      BY DEF RestTypeOK
    <3>3. \A done \in BOOLEAN : SampleRelays(samplling_sampleState, done) \subseteq Relay
      BY <3>1, <3>2, SampleRelaysBounds
    <3>. QED
      BY <3>3 DEF sampling_sampling
  <2>2. priming_doses \/ priming_deinit \/ fillITK_init \/ fillITK_deinit
           => relay' \subseteq Relay
    BY DEF priming_doses, priming_deinit, fillITK_init, fillITK_deinit, relayVars, turnOn, turnOff, RestTypeOK, Relay
  <2>3. sampling_resetSampler \/ sampling_DRAINING \/ sampling_CLEARSAMPLERLINES \/
        sampling_CLEARSAMPLERWASTE \/ sampling_skips \/ sampling_DRAINING2 \/ sampling_deinit
           => relay' \subseteq Relay
    BY DEF sampling_resetSampler, sampling_DRAINING, sampling_CLEARSAMPLERLINES,
       sampling_CLEARSAMPLERWASTE, sampling_skips, sampling_DRAINING2, sampling_deinit,
       PumpOn, turnOn, turnOff, RestTypeOK, Relay
  <2>4. draining \/ shiftRegisterHandler_init => relay' \subseteq Relay
    BY DEF draining, draining_init, draining_runnable, draining_deinit, shiftRegisterHandler_init,
       turnOff, RestTypeOK, Relay
  <2>5. shiftRegisterHandler => out' \subseteq Relay
    BY DEF shiftRegisterHandler, shiftRegisterHandler_init, shiftRegisterHandler_runnable, RestTypeOK
  <2>6. relay \subseteq Relay /\ out \subseteq Relay
    BY DEF RestTypeOK
  <2>7. relay' = relay \/ WritesRelay
    BY <1>0 DEF Frame
  <2>8. out' = out \/ shiftRegisterHandler
    BY <1>0 DEF Frame
  <2>. QED
    BY <2>1, <2>2, <2>3, <2>4, <2>5, <2>6, <2>7, <2>8 DEF WritesRelay
<1>3. /\ priming_state' \in {"WAITING", "IDLE", "DOSING"}
      /\ priming_hasStarted' \in BOOLEAN /\ feed' \in BOOLEAN /\ paused' \in BOOLEAN
  <2>1. priming_hasStarted' \in BOOLEAN /\ feed' \in BOOLEAN
    BY <1>0 DEF Frame, priming_starts, priming_startPriming, priming_deinit, priming_doses,
       sampling_resetSampler, RestTypeOK
  <2>2. paused' \in BOOLEAN
    BY <1>0 DEF Frame, idle_runnable, wifi_subscribes, wifi_loops, wifi_messageReceived, RestTypeOK
  <2>3. priming_state' \in {"WAITING", "IDLE", "DOSING"}
    BY <1>0 DEF Frame, priming_init, priming_starts, priming_startPriming, priming_doses, RestTypeOK
  <2>. QED
    BY <2>1, <2>2, <2>3
<1>4. /\ sampling_state' \in {"drainingPending", "DRAINING", "CLEARSAMPLERLINES",
             "CLEARSAMPLERWASTE", "SAMPLING", "DRAINING1", "DRAINING2"}
      /\ samplling_sampleState' \in 0 .. 4
  <2>1. samplling_sampleState' \in 0 .. 4
    BY <1>0 DEF Frame, sampling_init, sampling_sampling, NextSampleState, RestTypeOK
  <2>. QED
    BY <1>0, <2>1 DEF Frame, WritesSamplingState, sampling_init, sampling_drainingPending,
       sampling_DRAINING, sampling_CLEARSAMPLERLINES, sampling_CLEARSAMPLERWASTE, sampling_skips,
       sampling_sampling, sampling_DRAINING1, RestTypeOK
<1>5. /\ leak' \in [wet : BOOLEAN, armed : BOOLEAN]
      /\ tank' \in {"empty", "mid", "full"} /\ bottle' \in {"empty", "full"}
  <2>1. btnHandler_runnable => tank' \in {"empty", "mid", "full"}
    <3> DEFINE n == CHOOSE l \in 1 .. 3 : Levels[l] = tank
    <3>1. n \in 1 .. 3
      BY DEF RestTypeOK, Levels
    <3>2. NextLevels \subseteq {Levels[l] : l \in 1 .. 3}
      <4> HIDE DEF n
      <4>1. NextLevels = {Levels[l] : l \in {n}
                            \cup (IF "SUPPLYPUMP" \in out /\ n < 3 THEN {n + 1} ELSE {})
                            \cup (IF feed /\ n > 1 THEN {n - 1} ELSE {})}
        BY DEF NextLevels, n
      <4>. QED
        BY <3>1, <4>1
    <3>3. btnHandler_runnable => tank' \in NextLevels
      BY DEF btnHandler_runnable
    <3>. QED
      BY <3>2, <3>3 DEF Levels
  <2>2. leakHandler_init \/ leakHandler_runnable \/ btnHandler_runnable
           => leak' \in [wet : BOOLEAN, armed : BOOLEAN]
    <3>1. leak \in [wet : BOOLEAN, armed : BOOLEAN]
      BY DEF RestTypeOK
    <3>2. leakHandler_init \/ leakHandler_runnable \/ btnHandler_runnable
             => leak' \in {leak, [leak EXCEPT !.armed = TRUE], [leak EXCEPT !.armed = FALSE],
                          [leak EXCEPT !.wet = ~leak.wet]}
      BY DEF leakHandler_init, leakHandler_runnable, btnHandler_runnable
    <3>. QED
      BY <3>1, <3>2
  <2>. QED
    BY <1>0, <2>1, <2>2 DEF Frame, priming_doses, sampling_DRAINING2, draining_runnable, RestTypeOK
<1>6. /\ s_wifiState' \in {"OFF", "WIFI_PENDING", "BROKER_PENDING", "CONNECTED"}
      /\ net' \in [link : BOOLEAN, client : BOOLEAN]
  <2>1. ASSUME wifi
        PROVE  s_wifiState' \in {"OFF", "WIFI_PENDING", "BROKER_PENDING", "CONNECTED"}
    BY <2>1 DEF wifi, wifi_init, wifi_pending, wifi_broker, brokerConnectionAttempt, wifi_retry,
       wifi_subscribes, wifi_loses, wifi_loops, wifiVars, RestTypeOK
  <2>2. ASSUME wifi \/ NetworkDrops
        PROVE  \/ net' = net
               \/ \E b, c \in BOOLEAN : net' = [link |-> b, client |-> c]
               \/ \E c \in BOOLEAN : net' = [net EXCEPT !.client = c]
    <3>1. Attempt \subseteq BOOLEAN /\ {FALSE, net.link} \subseteq BOOLEAN
      BY DEF Attempt, RestTypeOK
    <3>. QED
      BY <2>2, <3>1 DEF wifi, wifi_init, wifi_pending, wifi_broker, brokerConnectionAttempt, wifi_retry,
         wifi_subscribes, wifi_loses, wifi_loops, wifiVars, NetworkDrops
  <2>3. wifi \/ NetworkDrops => net' \in [link : BOOLEAN, client : BOOLEAN]
    BY <2>2 DEF RestTypeOK
  <2>. QED
    BY <1>0, <2>1, <2>3 DEF Frame, RestTypeOK
<1>7. hang' \in {"none", "wifi", "broker", "reset", "E01"}
  BY <1>0 DEF Frame, HangEnds, resetting, sampling_resetSampler, sampling_resetDone,
     sampling_sampling, wifi_pending, wifi_broker, brokerConnectionAttempt, RestTypeOK
<1>. QED
  BY <1>1, <1>2, <1>3, <1>4, <1>5, <1>6, <1>7 DEF RestTypeOK

(* TypeOK is inductive with Harmless.                                      *)
LEMMA TypeStep ==
    ASSUME TypeOK, Harmless, [Next]_vars
    PROVE  TypeOK'
<1>1. task_list \in Sched!TaskList
  BY DEF TypeOK, Sched!TypeOK
<1>2. CASE ~resetting
  BY <1>1, <1>2, StepRefines, SchedTypeStep, RestTypeStep, TypeParts
<1>3. CASE resetting
  <2>1. task_list' \in Sched!TaskList
    BY <1>1, <1>3, ResetList DEF resetting
  <2>2. turn' \in 0 .. MAX_TASKS /\ check' \in 0 .. 3
    <3>1. sampling_resetSampler => turn' = 3 /\ check' = 2
      BY CallsOf DEF sampling_resetSampler, Sched!Calls, SAMPLING
    <3>. QED
      BY <1>3, <3>1, TenTasks DEF resetting, sampling_resetDone, TypeOK, Sched!TypeOK
  <2>. QED
    BY <1>1, <2>1, <2>2, RestTypeStep, TypeParts DEF Sched!TypeOK
<1>. QED
  BY <1>2, <1>3
(* The initial states.                                                     *)
LEMMA TypeInit == Init => TypeOK /\ Harmless
<1> SUFFICES ASSUME Init
             PROVE  TypeOK /\ Harmless
  OBVIOUS
<1>1. task_list \in Sched!TaskList /\ Harmless
  BY TenTasks DEF Init, MAX_TASKS, Harmless, Sched!TaskList, Sched!TaskRecord, Sched!State
<1>2. turn \in 0 .. MAX_TASKS /\ check \in 0 .. 3
  BY TenTasks DEF Init
<1>3. RestTypeOK
  <2>1. relay \subseteq Relay /\ out \subseteq Relay
    BY DEF Init
  <2>2. leak \in [wet : BOOLEAN, armed : BOOLEAN] /\ net \in [link : BOOLEAN, client : BOOLEAN]
    BY DEF Init
  <2>3. paused \in BOOLEAN /\ feed \in BOOLEAN /\ priming_hasStarted \in BOOLEAN
    BY DEF Init
  <2>4. /\ error \in ErrorState
        /\ priming_state \in {"WAITING", "IDLE", "DOSING"}
        /\ sampling_state \in {"drainingPending", "DRAINING", "CLEARSAMPLERLINES",
               "CLEARSAMPLERWASTE", "SAMPLING", "DRAINING1", "DRAINING2"}
        /\ samplling_sampleState \in 0 .. 4
        /\ tank \in {"empty", "mid", "full"} /\ bottle \in {"empty", "full"}
        /\ s_wifiState \in {"OFF", "WIFI_PENDING", "BROKER_PENDING", "CONNECTED"}
        /\ hang \in {"none", "wifi", "broker", "reset", "E01"}
    BY DEF Init, ErrorState
  <2>. QED
    BY <2>1, <2>2, <2>3, <2>4 DEF RestTypeOK
<1>. QED
  BY <1>1, <1>2, <1>3, TypeParts DEF Sched!TypeOK

(* Every state of the rig is well typed: each counter, timer and relay of  *)
(* the ten tasks stays in its range, for all inputs and faults.            *)
THEOREM TypeCorrect == Spec => []TypeOK
<1>1. TypeOK /\ Harmless /\ [Next]_vars => (TypeOK /\ Harmless)'
  BY TypeStep, HarmlessStep DEF TypeOK, Sched!TypeOK
<1>. QED
  BY <1>1, TypeInit, PTL DEF Spec

-----------------------------------------------------------------------------
(* SAMPLERERROR is raised by a sampler that fails only, and stays while    *)
(* the processor hangs in the reset, in which nothing else is called and   *)
(* the feed pump is off.                                                   *)
SamplerFails ==
    /\ error = "SAMPLERERROR" => "SAMPLERERROR" \in Faults
    /\ hang = "reset" => error = "SAMPLERERROR" /\ turn = SAMPLING /\ ~feed

(* The scheduler goes on only when the processor hangs in nothing.         *)
LEMMA HangWaits ==
    ASSUME [Next]_vars, hang # "none"
    PROVE  \/ UNCHANGED <<schedVars, error, feed>>
           \/ sampling_resetDone
<1>1. \A i, s : ~Calls(i, s)
  BY DEF Calls
<1>2. ~NextPass
  BY DEF NextPass
<1>3. HangEnds \/ NetworkDrops \/ UNCHANGED vars => UNCHANGED <<schedVars, error, feed>>
  BY DEF HangEnds, NetworkDrops, vars, relayVars
<1>4. ~priming /\ ~fillITK /\ ~leakHandler /\ ~draining
  BY <1>1 DEF priming, priming_init, priming_starts, priming_waits, priming_doses, priming_stops,
     priming_deinit, fillITK, fillITK_init, fillITK_runnable, fillITK_deinit,
     leakHandler, leakHandler_init, leakHandler_runnable, leakHandler_deinit,
     draining, draining_init, draining_runnable, draining_deinit
<1>5. sampling => sampling_resetDone
  BY <1>1 DEF sampling, sampling_init, sampling_runnable, sampling_stops, sampling_resetSampler,
     sampling_drainingPending, sampling_DRAINING, sampling_CLEARSAMPLERLINES,
     sampling_CLEARSAMPLERWASTE, sampling_skips, sampling_sampling, sampling_DRAINING1,
     sampling_DRAINING2, sampling_drainsOn, sampling_deinit, InState
<1>6. ~sensors /\ ~btnHandler /\ ~shiftRegisterHandler /\ ~idle /\ ~wifi
  BY <1>1 DEF sensors, sensors_init, sensors_runnable, sensors_stops, sensors_deinit,
     btnHandler, btnHandler_init, btnHandler_runnable,
     shiftRegisterHandler, shiftRegisterHandler_init, shiftRegisterHandler_runnable,
     idle, idle_init, idle_runnable,
     wifi, wifi_init, wifi_pending, wifi_broker, wifi_subscribes, wifi_loses, wifi_loops
<1>. QED
  BY <1>2, <1>3, <1>4, <1>5, <1>6 DEF Next, loop, scheduler_runTasks

(* Every step keeps SamplerFails.                                          *)
LEMMA SamplerFailsStep ==
    ASSUME task_list \in Sched!TaskList, SamplerFails, [Next]_vars
    PROVE  SamplerFails'
<1>0. Frame
  BY StepFrame
<1>1. error' = "SAMPLERERROR" => "SAMPLERERROR" \in Faults
  <2>1. WritesError => error' # "SAMPLERERROR" \/ error' = error \/ "SAMPLERERROR" \in Faults
    <3>1. ASSUME NEW h \in AfterHead
          PROVE  h[1] = error \/ h[1] # "SAMPLERERROR"
      BY HeadList DEF PWMErrors
    <3>2. priming_waits \/ priming_doses => error' # "SAMPLERERROR" \/ error' = error
      BY <3>1 DEF priming_waits, priming_doses, errorState
    <3>3. sampling_init \/ sampling_resetDone \/ sampling_sampling =>
             error' # "SAMPLERERROR" \/ error' = error \/ "SAMPLERERROR" \in Faults
      BY DEF sampling_init, sampling_resetDone, sampling_sampling, AfterSampler, errorState
    <3>4. fillITK_init \/ fillITK_runnable \/ leakHandler_runnable \/ leakHandler_deinit =>
             error' # "SAMPLERERROR" \/ error' = error
      BY DEF fillITK_init, Refreshed, fillITK_runnable, leakHandler_runnable,
         leakHandler_deinit, errorState
    <3>5. sensors_runnable \/ idle_runnable \/ wifi_subscribes \/ wifi_loops =>
             error' # "SAMPLERERROR" \/ error' = error
      BY DEF sensors_runnable, PressureErrors, idle_runnable, wifi_subscribes, wifi_loops,
         wifi_messageReceived, errorState
    <3>. QED
      BY <3>2, <3>3, <3>4, <3>5 DEF WritesError
  <2>. QED
    BY <1>0, <2>1 DEF Frame, SamplerFails
<1>2. hang' = "reset" => error' = "SAMPLERERROR" /\ turn' = SAMPLING /\ ~feed'
  <2>1. CASE sampling_resetSampler
    BY <2>1, CallsOf DEF sampling_resetSampler, Sched!Calls
  <2>2. CASE hang = "reset" /\ ~sampling_resetDone
    BY <2>2, HangWaits DEF SamplerFails, schedVars
  <2>3. CASE sampling_resetDone
    BY <2>3 DEF sampling_resetDone
  <2>4. CASE hang # "reset" /\ ~sampling_resetSampler /\ ~sampling_resetDone
    BY <1>0, <2>4 DEF Frame, HangEnds, resetting, sampling_sampling, wifi_pending, wifi_broker,
       brokerConnectionAttempt
  <2>. QED
    BY <2>1, <2>2, <2>3, <2>4
<1>. QED
  BY <1>1, <1>2 DEF SamplerFails

(* With a sampler that answers, the rig's tasks keep the contract of       *)
(* _task_cfg.h that Scheduler states: the detailed specification           *)
(* implements the abstract one.  The hypothesis is needed: the reset of    *)
(* the sampler stops FILLITK without its deinit (sampling.h:75).           *)
THEOREM RigImplementsScheduler ==
    "SAMPLERERROR" \notin Faults => (Spec => ImplementsScheduler)
<1> SUFFICES ASSUME "SAMPLERERROR" \notin Faults
             PROVE  Spec => Sched!Spec
  BY DEF ImplementsScheduler
<1> DEFINE Inv == TypeOK /\ Harmless /\ SamplerFails
<1>1. Init => Inv /\ Sched!Init
  <2>1. Init => Sched!Init
    BY TenTasks DEF Init, Sched!Init, MAX_TASKS
  <2>. QED
    BY <2>1, TypeInit DEF Init, SamplerFails
<1>2. Inv /\ [Next]_vars => Inv'
  BY TypeStep, HarmlessStep, SamplerFailsStep DEF TypeOK, Sched!TypeOK
<1>3. Inv /\ [Next]_vars => [Sched!Next]_(Sched!vars)
  <2>1. Inv => ~resetting
    BY DEF SamplerFails, resetting, sampling_resetSampler, sampling_resetDone
  <2>2. Inv /\ [Next]_vars => [Sched!Next]_schedVars
    BY <2>1, StepRefines DEF TypeOK, Sched!TypeOK
  <2>. QED
    BY <2>2 DEF Sched!vars, schedVars
<1>. QED
  BY <1>1, <1>2, <1>3, PTL DEF Spec, Sched!Spec

(* So a task of such a rig that has stopped allows WIFI to reconnect.      *)
THEOREM StoppedTasksYield ==
    "SAMPLERERROR" \notin Faults => (Spec => []Sched!StoppedIsSafe)
<1> SUFFICES ASSUME "SAMPLERERROR" \notin Faults
             PROVE  Spec => []Sched!StoppedIsSafe
  OBVIOUS
<1> DEFINE Inv == TypeOK /\ Harmless /\ SamplerFails /\ Sched!StoppedIsSafe
<1>1. Init => Inv
  <2>1. Init => Sched!StoppedIsSafe
    BY TenTasks DEF Init, Sched!StoppedIsSafe, MAX_TASKS
  <2>. QED
    BY <2>1, TypeInit DEF Init, SamplerFails
<1>2. Inv /\ [Next]_vars => Inv'
  <2> SUFFICES ASSUME Inv, [Next]_vars
               PROVE  Inv'
    OBVIOUS
  <2>1. Sched!TypeOK /\ ~resetting
    BY DEF TypeOK, SamplerFails, resetting, sampling_resetSampler, sampling_resetDone
  <2>2. [Sched!Next]_schedVars
    BY <2>1, StepRefines DEF Sched!TypeOK
  <2>. QED
    BY <2>1, <2>2, TypeStep, HarmlessStep, SamplerFailsStep, SchedSafeStep DEF Sched!TypeOK
<1>. QED
  BY <1>1, <1>2, PTL DEF Spec

-----------------------------------------------------------------------------
(* The states that a call may leave its own task in, and the other tasks   *)
(* that a task's calls may start (DRAINING may be stopped, too).           *)
NextStates(i, s) ==
    IF s = "STARTING" THEN IF i = FILLITK THEN {"STARTING", "RUNNING"} ELSE {"RUNNING"}
    ELSE IF i \in {BTNHANDLER, SHIFTREGISTERHANDLER, IDLE, WIFI} THEN {"RUNNING"}
    ELSE IF s = "RUNNING" THEN {"RUNNING", "STOPPING"} ELSE {"STOPPED"}

Reach(i) ==
    IF i = PRIMING THEN {FILLITK, SAMPLING, SENSORS, DRAINING}
    ELSE IF i = FILLITK THEN {PRIMING, DRAINING}
    ELSE IF i = SENSORS THEN {DRAINING}
    ELSE IF i = BTNHANDLER THEN Polled
    ELSE IF i = WIFI THEN Commanded
    ELSE {}

(* A call of task i in state s, by what it does to the states of the tasks.*)
Effect(i, s) ==
    /\ Calls(i, s)
    /\ task_list'[i].state \in NextStates(i, s)
    /\ \A j \in (0 .. 9) \ {i} :
          /\ task_list'[j].allowWifiReconnect = task_list[j].allowWifiReconnect
          /\ task_list'[j].state = "STOPPED" => task_list[j].state = "STOPPED"
          /\ \/ task_list'[j].state = task_list[j].state
             \/ j \in Reach(i) /\ task_list'[j].state = "STARTING"
                /\ task_list[j].state \in {"STOPPED", "STOPPING"}
             \/ j = DRAINING /\ DRAINING \in Reach(i)

(* What Edits says of the states.                                          *)
LEMMA EditsEffect ==
    ASSUME task_list \in Sched!TaskList, NEW i \in 0 .. 9, NEW s, NEW Own, NEW Others,
           Edits(i, Own, Others), Calls(i, s), Others \subseteq Reach(i),
           \A t \in Own : t.state \in NextStates(i, s)
    PROVE  Effect(i, s)
<1>1. task_list'[i].state \in NextStates(i, s)
  BY DEF Edits
<1>. QED
  BY <1>1, EditedFields DEF Effect

(* The calls of a task, in the three states of its dispatcher.             *)
Effects(i) == Effect(i, "STARTING") \/ Effect(i, "RUNNING") \/ Effect(i, "STOPPING")

(* The states of the records that the calls write.                         *)
LEMMA OwnStates ==
    ASSUME task_list \in Sched!TaskList, NEW i \in 0 .. 9
    PROVE  LET t == task_list[i] IN
           /\ Held(t, "RUNNING").state = "RUNNING"
           /\ Held(t, "STOPPED").state = "STOPPED"
           /\ Held(Guarding(t), "RUNNING").state = "RUNNING"
           /\ Held(Yielding(t), "STOPPED").state = "STOPPED"
           /\ Guarding(t).state = t.state
           /\ t.state = "RUNNING" => Stopping(i, t).state = "STOPPING"
<1>1. ASSUME NEW t \in Sched!TaskRecord
      PROVE  /\ Held(t, "RUNNING").state = "RUNNING"
             /\ Held(t, "STOPPED").state = "STOPPED"
             /\ Held(Guarding(t), "RUNNING").state = "RUNNING"
             /\ Held(Yielding(t), "STOPPED").state = "STOPPED"
             /\ Guarding(t).state = t.state
             /\ t.state = "RUNNING" => Stopping(i, t).state = "STOPPING"
  BY DEF Held, Guarding, Yielding, Stopping, Sched!TaskRecord
<1>. QED
  BY <1>1, TenTasks DEF Sched!TaskList

(* The state in which a call finds its task.                               *)
LEMMA CalledIn ==
    ASSUME NEW i, NEW s \in {"STARTING", "RUNNING", "STOPPING"}, Calls(i, s)
    PROVE  hang = "none" /\ task_list[i].state = s /\ turn' = i
           /\ check' = (IF s = "STARTING" THEN 1 ELSE IF s = "RUNNING" THEN 2 ELSE 3)
           /\ (turn < i \/ turn = i)
  BY CallsOf DEF Sched!Calls, Sched!Due, Sched!Later, Sched!Checks

(* PRIMING's calls, by their effect.                                       *)
LEMMA PrimingEffects ==
    ASSUME task_list \in Sched!TaskList
    PROVE  /\ priming_init => Effect(PRIMING, "STARTING")
           /\ priming_starts \/ priming_waits \/ priming_doses \/ priming_stops
                 => Effect(PRIMING, "RUNNING")
           /\ priming_deinit => Effect(PRIMING, "STOPPING")
<1>0. PRIMING \in 0 .. 9 /\ Reach(PRIMING) = {FILLITK, SAMPLING, SENSORS, DRAINING}
  BY DEF PRIMING, Reach
<1>1. /\ NextStates(PRIMING, "STARTING") = {"RUNNING"}
      /\ NextStates(PRIMING, "RUNNING") = {"RUNNING", "STOPPING"}
      /\ NextStates(PRIMING, "STOPPING") = {"STOPPED"}
  BY DEF NextStates, PRIMING, FILLITK, BTNHANDLER, SHIFTREGISTERHANDLER, IDLE, WIFI
<1>2. priming_init => Effect(PRIMING, "STARTING")
  BY <1>0, <1>1, PrimingEdits, EditsEffect, OwnStates, SMTT(40) DEF priming_init
<1>3. ASSUME Calls(PRIMING, "RUNNING")
      PROVE  task_list[PRIMING].state = "RUNNING"
  BY <1>3, CalledIn
<1>4. priming_starts \/ priming_waits \/ priming_doses \/ priming_stops
         => Effect(PRIMING, "RUNNING")
  BY <1>0, <1>1, <1>3, PrimingEdits, EditsEffect, OwnStates, SMTT(40)
     DEF priming_starts, priming_waits, priming_doses, priming_stops
<1>5. priming_deinit => Effect(PRIMING, "STOPPING")
  <2>1. Held(Yielding(task_list[PRIMING]), "STOPPED").state = "STOPPED"
    BY <1>0, OwnStates
  <2>2. priming_deinit => /\ Calls(PRIMING, "STOPPING")
                          /\ Edits(PRIMING, {Held(Yielding(task_list[PRIMING]), "STOPPED")}, {})
    BY PrimingEdits DEF priming_deinit
  <2>. QED
    BY <1>0, <1>1, <2>1, <2>2, EditsEffect
<1>. QED
  BY <1>2, <1>4, <1>5

(* FILLITK's calls, by their effect.                                       *)
LEMMA FillEffects ==
    ASSUME task_list \in Sched!TaskList
    PROVE  /\ fillITK_init => Effect(FILLITK, "STARTING")
           /\ fillITK_runnable => Effect(FILLITK, "RUNNING")
           /\ fillITK_deinit => Effect(FILLITK, "STOPPING")
<1>0. FILLITK \in 0 .. 9 /\ Reach(FILLITK) = {PRIMING, DRAINING}
  BY DEF FILLITK, PRIMING, Reach
<1>1. /\ NextStates(FILLITK, "STARTING") = {"STARTING", "RUNNING"}
      /\ NextStates(FILLITK, "RUNNING") = {"RUNNING", "STOPPING"}
      /\ NextStates(FILLITK, "STOPPING") = {"STOPPED"}
  BY DEF NextStates, FILLITK, BTNHANDLER, SHIFTREGISTERHANDLER, IDLE, WIFI
<1>2. ASSUME fillITK_init
      PROVE  Effect(FILLITK, "STARTING")
  <2>1. Calls(FILLITK, "STARTING") /\ task_list[FILLITK].state = "STARTING"
    BY <1>2, CalledIn DEF fillITK_init
  <2>. QED
    BY <1>0, <1>1, <1>2, <2>1, FillEdits, EditsEffect, OwnStates, SMTT(40)
<1>3. ASSUME fillITK_runnable
      PROVE  Effect(FILLITK, "RUNNING")
  <2>1. Calls(FILLITK, "RUNNING") /\ task_list[FILLITK].state = "RUNNING"
    BY <1>3, CalledIn DEF fillITK_runnable
  <2>. QED
    BY <1>0, <1>1, <1>3, <2>1, FillEdits, EditsEffect, OwnStates, SMTT(40)
<1>4. ASSUME fillITK_deinit
      PROVE  Effect(FILLITK, "STOPPING")
  <2>1. Held(Yielding(task_list[FILLITK]), "STOPPED").state = "STOPPED"
    BY <1>0, OwnStates
  <2>2. /\ Calls(FILLITK, "STOPPING")
        /\ Edits(FILLITK, {Held(Yielding(task_list[FILLITK]), "STOPPED")}, {})
    BY <1>4, FillEdits DEF fillITK_deinit
  <2>. QED
    BY <1>0, <1>1, <2>1, <2>2, EditsEffect
<1>. QED
  BY <1>2, <1>3, <1>4

(* LEAKHANDLER's calls, by their effect.                                   *)
LEMMA LeakEffects ==
    ASSUME task_list \in Sched!TaskList
    PROVE  /\ leakHandler_init => Effect(LEAKHANDLER, "STARTING")
           /\ leakHandler_runnable => Effect(LEAKHANDLER, "RUNNING")
           /\ leakHandler_deinit => Effect(LEAKHANDLER, "STOPPING")
<1>0. LEAKHANDLER \in 0 .. 9
  BY DEF LEAKHANDLER
<1>1. /\ NextStates(LEAKHANDLER, "STARTING") = {"RUNNING"}
      /\ NextStates(LEAKHANDLER, "RUNNING") = {"RUNNING", "STOPPING"}
      /\ NextStates(LEAKHANDLER, "STOPPING") = {"STOPPED"}
  BY DEF NextStates, LEAKHANDLER, FILLITK, BTNHANDLER, SHIFTREGISTERHANDLER, IDLE, WIFI
<1>2. leakHandler_init => Effect(LEAKHANDLER, "STARTING")
  BY <1>0, <1>1, LeakEdits, EditsEffect, OwnStates, SMTT(40) DEF leakHandler_init
<1>3. ASSUME leakHandler_runnable
      PROVE  Effect(LEAKHANDLER, "RUNNING")
  <2>1. Calls(LEAKHANDLER, "RUNNING") /\ task_list[LEAKHANDLER].state = "RUNNING"
    BY <1>3, CalledIn DEF leakHandler_runnable
  <2>. QED
    BY <1>0, <1>1, <1>3, <2>1, LeakEdits, EditsEffect, OwnStates, SMTT(40)
<1>4. leakHandler_deinit => Effect(LEAKHANDLER, "STOPPING")
  BY <1>0, <1>1, LeakEdits, EditsEffect, OwnStates, SMTT(40) DEF leakHandler_deinit
<1>. QED
  BY <1>2, <1>3, <1>4

(* The runs of SAMPLING that do not reset the sampler.                     *)
sampling_runs ==
    sampling_stops \/ sampling_drainingPending \/ sampling_silent \/ sampling_DRAINING2

(* SAMPLING's calls, by their effect.                                      *)
LEMMA SamplingEffects ==
    ASSUME task_list \in Sched!TaskList
    PROVE  /\ sampling_init => Effect(SAMPLING, "STARTING")
           /\ sampling_runs => Effect(SAMPLING, "RUNNING")
           /\ sampling_deinit => Effect(SAMPLING, "STOPPING")
<1>0. SAMPLING \in 0 .. 9
  BY DEF SAMPLING
<1>1. /\ NextStates(SAMPLING, "STARTING") = {"RUNNING"}
      /\ NextStates(SAMPLING, "RUNNING") = {"RUNNING", "STOPPING"}
      /\ NextStates(SAMPLING, "STOPPING") = {"STOPPED"}
  BY DEF NextStates, SAMPLING, FILLITK, BTNHANDLER, SHIFTREGISTERHANDLER, IDLE, WIFI
<1>2. sampling_init => Effect(SAMPLING, "STARTING")
  BY <1>0, <1>1, SamplingEdits, EditsEffect, OwnStates, SMTT(40) DEF sampling_init
<1>3. ASSUME sampling_runs
      PROVE  Effect(SAMPLING, "RUNNING")
  <2>1. Calls(SAMPLING, "RUNNING")
    BY <1>3 DEF sampling_runs, sampling_stops, sampling_drainingPending, sampling_silent,
       sampling_DRAINING2, sampling_DRAINING, sampling_CLEARSAMPLERLINES,
       sampling_CLEARSAMPLERWASTE, sampling_skips, sampling_sampling, sampling_DRAINING1,
       sampling_drainsOn, InState
  <2>2. task_list[SAMPLING].state = "RUNNING"
    BY <2>1, CalledIn
  <2>. QED
    BY <1>0, <1>1, <1>3, <2>1, <2>2, SamplingEdits, EditsEffect, OwnStates, SMTT(40)
         DEF sampling_runs
<1>4. ASSUME sampling_deinit
      PROVE  Effect(SAMPLING, "STOPPING")
  <2>1. Held(Yielding(task_list[SAMPLING]), "STOPPED").state = "STOPPED"
    BY <1>0, OwnStates
  <2>2. /\ Calls(SAMPLING, "STOPPING")
        /\ Edits(SAMPLING, {Held(Yielding(task_list[SAMPLING]), "STOPPED")}, {})
    BY <1>4, SamplingEdits DEF sampling_deinit
  <2>. QED
    BY <1>0, <1>1, <2>1, <2>2, EditsEffect
<1>. QED
  BY <1>2, <1>3, <1>4

(* DRAINING's calls, by their effect.                                      *)
LEMMA DrainingEffects ==
    ASSUME task_list \in Sched!TaskList
    PROVE  /\ draining_init => Effect(DRAINING, "STARTING")
           /\ draining_runnable => Effect(DRAINING, "RUNNING")
           /\ draining_deinit => Effect(DRAINING, "STOPPING")
<1>0. DRAINING \in 0 .. 9
  BY DEF DRAINING
<1>1. /\ NextStates(DRAINING, "STARTING") = {"RUNNING"}
      /\ NextStates(DRAINING, "RUNNING") = {"RUNNING", "STOPPING"}
      /\ NextStates(DRAINING, "STOPPING") = {"STOPPED"}
  BY DEF NextStates, DRAINING, FILLITK, BTNHANDLER, SHIFTREGISTERHANDLER, IDLE, WIFI
<1>2. ASSUME draining_init
      PROVE  Effect(DRAINING, "STARTING")
  <2>1. Held(Guarding(task_list[DRAINING]), "RUNNING").state = "RUNNING"
    BY <1>0, OwnStates
  <2>2. /\ Calls(DRAINING, "STARTING")
        /\ Edits(DRAINING, {Held(Guarding(task_list[DRAINING]), "RUNNING")}, {})
    BY <1>2, DrainingEdits DEF draining_init
  <2>. QED
    BY <1>0, <1>1, <2>1, <2>2, EditsEffect
<1>3. ASSUME draining_runnable
      PROVE  Effect(DRAINING, "RUNNING")
  <2>1. Calls(DRAINING, "RUNNING") /\ task_list[DRAINING].state = "RUNNING"
    BY <1>3, CalledIn DEF draining_runnable
  <2>. QED
    BY <1>0, <1>1, <1>3, <2>1, DrainingEdits, EditsEffect, OwnStates, SMTT(40)
<1>4. ASSUME draining_deinit
      PROVE  Effect(DRAINING, "STOPPING")
  <2>1. Held(Yielding(task_list[DRAINING]), "STOPPED").state = "STOPPED"
    BY <1>0, OwnStates
  <2>2. /\ Calls(DRAINING, "STOPPING")
        /\ Edits(DRAINING, {Held(Yielding(task_list[DRAINING]), "STOPPED")}, {})
    BY <1>4, DrainingEdits DEF draining_deinit
  <2>. QED
    BY <1>0, <1>1, <2>1, <2>2, EditsEffect
<1>. QED
  BY <1>2, <1>3, <1>4

(* SENSORS' calls, by their effect.                                        *)
LEMMA SensorsEffects ==
    ASSUME task_list \in Sched!TaskList
    PROVE  /\ sensors_init => Effect(SENSORS, "STARTING")
           /\ sensors_runnable \/ sensors_stops => Effect(SENSORS, "RUNNING")
           /\ sensors_deinit => Effect(SENSORS, "STOPPING")
<1>0. SENSORS \in 0 .. 9 /\ Reach(SENSORS) = {DRAINING}
  BY DEF SENSORS, PRIMING, FILLITK, Reach
<1>1. /\ NextStates(SENSORS, "STARTING") = {"RUNNING"}
      /\ NextStates(SENSORS, "RUNNING") = {"RUNNING", "STOPPING"}
      /\ NextStates(SENSORS, "STOPPING") = {"STOPPED"}
  BY DEF NextStates, SENSORS, FILLITK, BTNHANDLER, SHIFTREGISTERHANDLER, IDLE, WIFI
<1>2. sensors_init => Effect(SENSORS, "STARTING")
  BY <1>0, <1>1, SensorsEdits, EditsEffect, OwnStates, SMTT(40) DEF sensors_init
<1>3. ASSUME sensors_runnable \/ sensors_stops
      PROVE  Effect(SENSORS, "RUNNING")
  <2>1. Calls(SENSORS, "RUNNING") /\ task_list[SENSORS].state = "RUNNING"
    BY <1>3, CalledIn DEF sensors_runnable, sensors_stops
  <2>. QED
    BY <1>0, <1>1, <1>3, <2>1, SensorsEdits, EditsEffect, OwnStates, SMTT(40)
<1>4. sensors_deinit => Effect(SENSORS, "STOPPING")
  BY <1>0, <1>1, SensorsEdits, EditsEffect, OwnStates, SMTT(40) DEF sensors_deinit
<1>. QED
  BY <1>2, <1>3, <1>4

(* The calls of the tasks that are never stopped, by their effect.         *)
LEMMA SystemEffects ==
    ASSUME task_list \in Sched!TaskList
    PROVE  /\ btnHandler_init => Effect(BTNHANDLER, "STARTING")
           /\ btnHandler_runnable => Effect(BTNHANDLER, "RUNNING")
           /\ shiftRegisterHandler_init => Effect(SHIFTREGISTERHANDLER, "STARTING")
           /\ shiftRegisterHandler_runnable => Effect(SHIFTREGISTERHANDLER, "RUNNING")
           /\ idle_init => Effect(IDLE, "STARTING")
           /\ idle_runnable => Effect(IDLE, "RUNNING")
           /\ wifi_init => Effect(WIFI, "STARTING")
           /\ wifi_deaf \/ wifi_subscribes \/ wifi_loops => Effect(WIFI, "RUNNING")
<1>0. /\ {BTNHANDLER, SHIFTREGISTERHANDLER, IDLE, WIFI} \subseteq 0 .. 9
      /\ Reach(BTNHANDLER) = Polled /\ Reach(WIFI) = Commanded
      /\ \A i \in {BTNHANDLER, SHIFTREGISTERHANDLER, IDLE, WIFI} :
            NextStates(i, "STARTING") = {"RUNNING"} /\ NextStates(i, "RUNNING") = {"RUNNING"}
  BY DEF BTNHANDLER, SHIFTREGISTERHANDLER, IDLE, WIFI, PRIMING, FILLITK, SENSORS, Reach, NextStates
<1>1. ASSUME NEW i \in {BTNHANDLER, SHIFTREGISTERHANDLER, IDLE, WIFI}, NEW Others,
             Others \subseteq Reach(i)
      PROVE  /\ Calls(i, "STARTING") /\ Edits(i, {Held(task_list[i], "RUNNING")}, Others)
                    => Effect(i, "STARTING")
             /\ Calls(i, "RUNNING") /\ Edits(i, {task_list[i]}, Others) => Effect(i, "RUNNING")
  <2>1. Calls(i, "STARTING") /\ Edits(i, {Held(task_list[i], "RUNNING")}, Others)
           => Effect(i, "STARTING")
    BY <1>0, <1>1, EditsEffect, OwnStates, SMTT(40)
  <2>2. Calls(i, "RUNNING") => task_list[i].state = "RUNNING"
    BY CalledIn
  <2>3. Calls(i, "RUNNING") /\ Edits(i, {task_list[i]}, Others) => Effect(i, "RUNNING")
    BY <1>0, <1>1, <2>2, EditsEffect
  <2>. QED
    BY <2>1, <2>3
<1>2. /\ btnHandler_init => Calls(BTNHANDLER, "STARTING")
      /\ btnHandler_runnable => Calls(BTNHANDLER, "RUNNING")
      /\ shiftRegisterHandler_init => Calls(SHIFTREGISTERHANDLER, "STARTING")
      /\ shiftRegisterHandler_runnable => Calls(SHIFTREGISTERHANDLER, "RUNNING")
      /\ idle_init => Calls(IDLE, "STARTING")
      /\ idle_runnable => Calls(IDLE, "RUNNING")
      /\ wifi_init => Calls(WIFI, "STARTING")
      /\ wifi_deaf \/ wifi_subscribes \/ wifi_loops => Calls(WIFI, "RUNNING")
  BY DEF btnHandler_init, btnHandler_runnable, shiftRegisterHandler_init,
     shiftRegisterHandler_runnable, idle_init, idle_runnable, wifi_init, wifi_deaf,
     wifi_pending, wifi_broker, wifi_loses, wifi_subscribes, wifi_loops
<1>3. {} \subseteq Reach(SHIFTREGISTERHANDLER) /\ {} \subseteq Reach(IDLE)
      /\ {} \subseteq Reach(BTNHANDLER) /\ {} \subseteq Reach(WIFI)
  OBVIOUS
<1>. QED
  BY <1>0, <1>1, <1>2, <1>3, PanelEdits, WifiEdits

(* The dispatcher of task i.                                               *)
Runs(i) ==
    \/ i = PRIMING /\ priming
    \/ i = FILLITK /\ fillITK
    \/ i = LEAKHANDLER /\ leakHandler
    \/ i = SAMPLING /\ sampling
    \/ i = DRAINING /\ draining
    \/ i = SENSORS /\ sensors
    \/ i = BTNHANDLER /\ btnHandler
    \/ i = SHIFTREGISTERHANDLER /\ shiftRegisterHandler
    \/ i = IDLE /\ idle
    \/ i = WIFI /\ wifi

(* Every step, by what it does to the scheduler's variables.               *)
LEMMA StepEffects ==
    ASSUME task_list \in Sched!TaskList, [Next]_vars
    PROVE  \/ NextPass
           \/ resetting
           \/ UNCHANGED <<schedVars, relayVars>>
           \/ \E i \in 0 .. 9 : Runs(i) /\ Effects(i)
<1>1. CASE HangEnds \/ NetworkDrops \/ UNCHANGED vars
  BY <1>1 DEF HangEnds, NetworkDrops, vars
<1>2. CASE priming
  BY <1>2, PrimingEffects DEF priming, Effects, Runs, PRIMING
<1>3. CASE fillITK
  BY <1>3, FillEffects DEF fillITK, Effects, Runs, FILLITK
<1>4. CASE leakHandler
  BY <1>4, LeakEffects DEF leakHandler, Effects, Runs, LEAKHANDLER
<1>5. CASE sampling
  BY <1>5, SamplingEffects DEF sampling, sampling_runnable, sampling_runs, sampling_silent,
     resetting, Effects, Runs, SAMPLING
<1>6. CASE draining
  BY <1>6, DrainingEffects DEF draining, Effects, Runs, DRAINING
<1>7. CASE sensors
  BY <1>7, SensorsEffects DEF sensors, Effects, Runs, SENSORS
<1>8. CASE btnHandler
  BY <1>8, SystemEffects DEF btnHandler, Effects, Runs, BTNHANDLER
<1>9. CASE shiftRegisterHandler
  BY <1>9, SystemEffects DEF shiftRegisterHandler, Effects, Runs, SHIFTREGISTERHANDLER
<1>10. CASE idle
  BY <1>10, SystemEffects DEF idle, Effects, Runs, IDLE
<1>11. CASE wifi
  BY <1>11, SystemEffects DEF wifi, wifi_deaf, Effects, Runs, WIFI
<1>. QED
  BY <1>1, <1>2, <1>3, <1>4, <1>5, <1>6, <1>7, <1>8, <1>9, <1>10, <1>11
     DEF Next, loop, scheduler_runTasks

(* A task before the one that is called is not due any more.               *)
LEMMA Earlier ==
    ASSUME NEW i \in 0 .. 9, NEW s \in {"STARTING", "RUNNING", "STOPPING"}, Calls(i, s),
           NEW j \in 0 .. 9, j < i, TypeOK
    PROVE  /\ task_list[j].state \in {"STARTING", "RUNNING", "STOPPING"} => j <= turn
           /\ task_list[j].state = "STOPPING" => ~(turn = j /\ check < 3)
<1>1. \E c \in 1 .. 3 : Sched!Calls(i, c)
  BY CallsOf
<1>2. \A d \in 1 .. 3 : ~Sched!Due(j, d)
  BY <1>1, TenTasks DEF Sched!Calls
<1>3. turn \in 0 .. 10 /\ check \in 0 .. 3
  BY TenTasks DEF TypeOK, Sched!TypeOK
<1>. QED
  BY <1>2, <1>3 DEF Sched!Due, Sched!Later, Sched!Checks

(* The order of the calls.  PRIMING stops itself only, and its deinit is   *)
(* the next call.                                                          *)
StopsAtOnce == task_list[PRIMING].state = "STOPPING" => turn = PRIMING /\ check = 2

(* After the call of SHIFTREGISTERHANDLER the register holds the relay     *)
(* word, until the end of the pass.                                        *)
ShiftedOut ==
    /\ task_list[SHIFTREGISTERHANDLER].state \in {"STARTING", "RUNNING"}
    /\ turn \in {SHIFTREGISTERHANDLER, IDLE, WIFI} => out = relay /\ booted

(* Before the first of these calls no task has turned anything on.         *)
NothingBefore ==
    ~booted => /\ Stopped(PRIMING) /\ Stopped(SAMPLING) /\ hang # "reset"
               /\ task_list[FILLITK].state \in {"STOPPED", "STARTING"}
               /\ ~Stopped(FILLITK) => turn = BTNHANDLER

Order == StopsAtOnce /\ ShiftedOut /\ NothingBefore

(* Nobody but PRIMING stops PRIMING, so nothing comes between.             *)
LEMMA StopsAtOnceStep ==
    ASSUME TypeOK, StopsAtOnce, SamplerFails, [Next]_vars
    PROVE  StopsAtOnce'
<1>0. task_list \in Sched!TaskList
  BY DEF TypeOK, Sched!TypeOK
<1>1. CASE NextPass
  <2>1. task_list'[PRIMING].state = "STOPPING" => task_list[PRIMING].state = "STOPPING"
    BY <1>0, <1>1, PassList DEF NextPass, PRIMING
  <2>2. ~(task_list[PRIMING].state = "STOPPING" /\ turn = PRIMING /\ check = 2)
    BY <1>1, TenTasks DEF NextPass, Sched!NextPass, Sched!PassOver, Sched!Due, Sched!Later,
       Sched!Checks, PRIMING
  <2>. QED
    BY <2>1, <2>2 DEF StopsAtOnce
<1>2. CASE resetting
  <2>1. task_list'[PRIMING].state = task_list[PRIMING].state
    <3>1. task_list[PRIMING] \in Sched!TaskRecord
      BY <1>0, TenTasks DEF Sched!TaskList, PRIMING
    <3>2. Yielding(task_list[PRIMING]).state = task_list[PRIMING].state
      BY <3>1, WrittenFields
    <3>3. task_list'[PRIMING] \in {task_list[PRIMING], Yielding(task_list[PRIMING])}
      BY <1>0, <1>2, ResetList DEF resetting, PRIMING, FILLITK
    <3>. QED
      BY <3>2, <3>3
  <2>2. sampling_resetSampler => task_list[PRIMING].state # "STOPPING"
    BY Earlier DEF sampling_resetSampler, StopsAtOnce, SAMPLING, PRIMING
  <2>3. sampling_resetDone => turn = SAMPLING
    BY DEF sampling_resetDone, SamplerFails
  <2>. QED
    BY <1>2, <2>1, <2>2, <2>3 DEF resetting, StopsAtOnce, SAMPLING, PRIMING
<1>3. CASE UNCHANGED schedVars
  BY <1>3 DEF schedVars, StopsAtOnce
<1>4. ASSUME NEW i \in 0 .. 9, NEW s \in {"STARTING", "RUNNING", "STOPPING"}, Effect(i, s)
      PROVE  StopsAtOnce'
  <2>1. Calls(i, s)
    BY <1>4 DEF Effect
  <2>2. CASE i = PRIMING
    <3>1. task_list'[PRIMING].state = "STOPPING" => s = "RUNNING"
      BY <1>4, <2>2 DEF Effect, NextStates, PRIMING, FILLITK, BTNHANDLER, SHIFTREGISTERHANDLER,
         IDLE, WIFI
    <3>. QED
      BY <2>1, <2>2, <3>1, CalledIn DEF StopsAtOnce
  <2>3. CASE i # PRIMING
    <3>1. task_list[PRIMING].state # "STOPPING"
      BY <2>1, <2>3, Earlier DEF StopsAtOnce, PRIMING
    <3>2. task_list'[PRIMING].state \in {task_list[PRIMING].state, "STARTING"}
      BY <1>4, <2>3 DEF Effect, PRIMING, DRAINING
    <3>. QED
      BY <3>1, <3>2 DEF StopsAtOnce
  <2>. QED
    BY <2>2, <2>3
<1>. QED
  BY <1>0, <1>1, <1>2, <1>3, <1>4, StepEffects DEF Effects

(* Nobody writes the relay word between SHIFTREGISTERHANDLER and the end   *)
(* of the pass but the reset and the boot.                                 *)
LEMMA ShiftedOutStep ==
    ASSUME TypeOK, ShiftedOut, SamplerFails, [Next]_vars
    PROVE  ShiftedOut'
<1> USE DEF SHIFTREGISTERHANDLER, IDLE, WIFI
<1>0. task_list \in Sched!TaskList
  BY DEF TypeOK, Sched!TypeOK
<1>1. CASE NextPass
  <2>1. turn' = 0 /\ Sched!NextPass
    BY <1>1 DEF NextPass, Sched!NextPass
  <2>2. LoopMs[7] = 0
    BY DEF LoopMs, MAX_TASKS, PRIMING, FILLITK, SAMPLING
  <2>3. task_list'[7].state = task_list[7].state
    BY <1>0, <2>1, <2>2, PassList DEF ShiftedOut
  <2>. QED
    BY <2>1, <2>3 DEF ShiftedOut
<1>2. CASE resetting
  <2>1. task_list'[7] = task_list[7]
    BY <1>0, <1>2, ResetList DEF resetting, PRIMING, FILLITK
  <2>2. turn' = SAMPLING
    BY <1>2, CalledIn DEF resetting, sampling_resetSampler, sampling_resetDone, SamplerFails
  <2>. QED
    BY <2>1, <2>2 DEF ShiftedOut, SAMPLING
<1>3. CASE UNCHANGED <<schedVars, relayVars>>
  BY <1>3 DEF schedVars, relayVars, ShiftedOut, booted
<1>4. ASSUME NEW i \in 0 .. 9, NEW s \in {"STARTING", "RUNNING", "STOPPING"}, Effect(i, s), Runs(i)
      PROVE  ShiftedOut'
  <2>1. Calls(i, s) /\ turn' = i /\ (turn < i \/ turn = i)
    BY <1>4, CalledIn DEF Effect
  <2>2. i # 7 => task_list'[7].state = task_list[7].state
    BY <1>4 DEF Effect, Reach, Polled, Commanded, PRIMING, FILLITK, LEAKHANDLER, SAMPLING,
       DRAINING, SENSORS, BTNHANDLER
  <2>3. CASE i \in 0 .. 6
    BY <2>1, <2>2, <2>3 DEF ShiftedOut
  <2>4. CASE i = 7
    <3>1. shiftRegisterHandler
      BY <1>4, <2>4 DEF Runs, PRIMING, FILLITK, LEAKHANDLER, SAMPLING, DRAINING, SENSORS, BTNHANDLER
    <3>2. out' = relay'
      BY <3>1 DEF shiftRegisterHandler, shiftRegisterHandler_init, shiftRegisterHandler_runnable
    <3>3. task_list'[7].state = "RUNNING"
      BY <1>4, <2>4 DEF Effect, NextStates, BTNHANDLER, FILLITK
    <3>. QED
      BY <3>2, <3>3 DEF ShiftedOut, booted
  <2>5. CASE i \in {8, 9}
    <3>1. turn \in {7, 8, 9}
      BY <2>1, <2>5, Earlier DEF ShiftedOut, TypeOK, Sched!TypeOK
    <3>2. idle \/ wifi
      BY <1>4, <2>5 DEF Runs, PRIMING, FILLITK, LEAKHANDLER, SAMPLING, DRAINING, SENSORS, BTNHANDLER
    <3>3. UNCHANGED relayVars
      BY <3>2 DEF idle, idle_init, idle_runnable, wifi, wifi_init, wifi_pending, wifi_broker,
         wifi_subscribes, wifi_loses, wifi_loops
    <3>. QED
      BY <2>2, <2>5, <3>1, <3>3, SMTT(40) DEF ShiftedOut, booted, relayVars
  <2>. QED
    BY <2>3, <2>4, <2>5
<1>. QED
  BY <1>0, <1>1, <1>2, <1>3, <1>4, StepEffects DEF Effects

(* The register is cleared by the first call of SHIFTREGISTERHANDLER,      *)
(* before any relay is on.                                                 *)
LEMMA NothingBeforeStep ==
    ASSUME TypeOK, ShiftedOut, NothingBefore, SamplerFails, [Next]_vars
    PROVE  NothingBefore'
<1> USE DEF PRIMING, FILLITK, SAMPLING, BTNHANDLER
<1>0. task_list \in Sched!TaskList /\ turn \in 0 .. 10
  BY TenTasks DEF TypeOK, Sched!TypeOK
<1>1. CASE booted
  <2>1. ASSUME NEW i \in 0 .. 9, NEW s, Effect(i, s)
        PROVE  booted'
    BY <1>1, <2>1 DEF Effect, NextStates, Reach, Polled, Commanded, booted, LEAKHANDLER, DRAINING,
       SENSORS, SHIFTREGISTERHANDLER, IDLE, WIFI
  <2>2. NextPass => booted'
    BY <1>0, <1>1, PassList DEF NextPass, booted, SHIFTREGISTERHANDLER
  <2>3. resetting => booted'
    BY <1>0, <1>1, ResetList DEF resetting, booted, SHIFTREGISTERHANDLER
  <2>4. UNCHANGED schedVars => booted'
    BY <1>1 DEF schedVars, booted
  <2>. QED
    BY <1>0, <2>1, <2>2, <2>3, <2>4, StepEffects DEF Effects, NothingBefore
<1>2. CASE ~booted
  <2>0. /\ turn \notin {7, 8, 9} /\ Stopped(PRIMING) /\ Stopped(SAMPLING)
        /\ task_list[FILLITK].state \in {"STOPPED", "STARTING"} /\ hang # "reset"
        /\ ~Stopped(FILLITK) => turn = BTNHANDLER
    BY <1>2 DEF NothingBefore, ShiftedOut, SHIFTREGISTERHANDLER, IDLE, WIFI
  <2>2. ~resetting
    BY <2>0, CalledIn DEF resetting, sampling_resetSampler, sampling_resetDone, Stopped
  <2>5. hang' # "reset"
    BY <2>0, <2>2, StepFrame DEF Frame, HangEnds, sampling_sampling, wifi_pending, wifi_broker,
       brokerConnectionAttempt
  <2>1. CASE NextPass
    <3>1. ~(turn < 7)
      BY <1>2, <2>1, TenTasks DEF NextPass, Sched!NextPass, Sched!PassOver, Sched!Due, Sched!Later,
         Sched!Checks, booted, SHIFTREGISTERHANDLER
    <3>2. Stopped(FILLITK)
      BY <2>0, <3>1
    <3>. QED
      BY <1>0, <2>0, <2>1, <2>5, <3>2, PassList DEF NextPass, NothingBefore, Stopped
  <2>3. CASE UNCHANGED schedVars
    BY <2>5, <2>3 DEF schedVars, NothingBefore, booted, Stopped
  <2>4. ASSUME NEW i \in 0 .. 9, NEW s \in {"STARTING", "RUNNING", "STOPPING"}, Effect(i, s)
        PROVE  NothingBefore'
    <3>1. Calls(i, s) /\ turn' = i /\ (turn < i \/ turn = i) /\ task_list[i].state = s
      BY <2>4, CalledIn DEF Effect
    <3>2. CASE i \in {0, 1, 3}
      BY <2>0, <3>1, <3>2 DEF Stopped
    <3>3. CASE i \in {2, 4, 5}
      <4>1. \A j \in {0, 1, 3} : task_list'[j].state = task_list[j].state
        BY <2>4, <3>3 DEF Effect, Reach, DRAINING, SENSORS, WIFI
      <4>2. Stopped(FILLITK)
        BY <2>0, <3>1, <3>3
      <4>. QED
        BY <2>0, <2>5, <4>1, <4>2 DEF NothingBefore, Stopped
    <3>4. CASE i = 6
      <4>1. \A j \in {0, 3} : task_list'[j].state = task_list[j].state
        BY <2>4, <3>4 DEF Effect, Reach, Polled, LEAKHANDLER, DRAINING, SENSORS
      <4>2. task_list'[1].state \in {task_list[1].state, "STARTING"}
        BY <2>4, <3>4 DEF Effect, DRAINING
      <4>. QED
        BY <2>0, <2>5, <3>1, <3>4, <4>1, <4>2 DEF NothingBefore, Stopped
    <3>5. CASE i = 7
      BY <2>4, <3>1, <3>5 DEF Effect, NextStates, NothingBefore, booted, SHIFTREGISTERHANDLER
    <3>6. CASE i \in {8, 9}
      BY <1>0, <1>2, <2>0, <3>1, <3>6, Earlier DEF ShiftedOut, SHIFTREGISTERHANDLER
    <3>. QED
      BY <3>2, <3>3, <3>4, <3>5, <3>6
  <2>. QED
    BY <1>0, <2>1, <2>2, <2>3, <2>4, StepEffects DEF Effects
<1>. QED
  BY <1>1, <1>2

-----------------------------------------------------------------------------
(* Who stops a task, and who takes back its claim that WIFI must not       *)
(* reconnect.                                                              *)
Initialised(i) == task_list[i].state \in {"RUNNING", "READY", "WAITING"}

Guards(i) == ~task_list[i].allowWifiReconnect

Stops(i) ==
    \/ i = PRIMING /\ priming_deinit
    \/ i = FILLITK /\ (fillITK_deinit \/ sampling_resetSampler)
    \/ i = LEAKHANDLER /\ leakHandler_deinit
    \/ i = SAMPLING /\ sampling_deinit
    \/ i = DRAINING /\ draining_deinit
    \/ i = SENSORS /\ sensors_deinit

Frees(i) ==
    \/ i = PRIMING /\ (priming_deinit \/ sampling_resetSampler)
    \/ i = FILLITK /\ fillITK_deinit
    \/ i = SAMPLING /\ sampling_deinit
    \/ i = DRAINING /\ draining_deinit

(* A task is STOPPED by its own deinit, or by the reset.                   *)
LEMMA OnlyDeinitStops ==
    ASSUME task_list \in Sched!TaskList, [Next]_vars, NEW j \in 0 .. 9, Stopped(j)'
    PROVE  Stopped(j) \/ Stops(j)
<1>1. CASE NextPass
  BY <1>1, PassList DEF NextPass, Stopped
<1>2. CASE resetting
  <2>1. \A t \in Sched!TaskRecord : Yielding(t).state = t.state
    BY WrittenFields
  <2>2. \A t \in Sched!TaskRecord : Started(t).state # "STOPPED"
    BY RecordFields DEF PRIMING
  <2>3. \A k \in 0 .. 9 : task_list[k] \in Sched!TaskRecord
    BY TenTasks DEF Sched!TaskList
  <2>. QED
    BY <1>2, <2>1, <2>2, <2>3, ResetList DEF resetting, Stops, Stopped, PRIMING, FILLITK
<1>3. CASE UNCHANGED <<schedVars, relayVars>>
  BY <1>3 DEF schedVars, Stopped
<1>4. ASSUME NEW i \in 0 .. 9, Runs(i), Effects(i)
      PROVE  Stopped(j) \/ Stops(j)
  <2>1. CASE j # i
    BY <1>4, <2>1 DEF Effects, Effect, Stopped
  <2>2. ASSUME j = i
        PROVE  Stops(j)
    <3>1. ~Effect(i, "STARTING") /\ ~Effect(i, "RUNNING")
      BY <2>2 DEF Effect, NextStates, Stopped
    <3>2. i \notin {BTNHANDLER, SHIFTREGISTERHANDLER, IDLE, WIFI}
      BY <1>4, <2>2 DEF Effects, Effect, NextStates, Stopped, FILLITK, BTNHANDLER,
         SHIFTREGISTERHANDLER, IDLE, WIFI
    <3>3. /\ i = PRIMING => priming_deinit
          /\ i = FILLITK => fillITK_deinit
          /\ i = LEAKHANDLER => leakHandler_deinit
      BY <1>4, <3>1, PrimingEffects, FillEffects, LeakEffects
         DEF Runs, priming, fillITK, leakHandler, PRIMING, FILLITK, LEAKHANDLER, SAMPLING,
         DRAINING, SENSORS, BTNHANDLER, SHIFTREGISTERHANDLER, IDLE, WIFI
    <3>4. /\ i = SAMPLING => sampling_deinit \/ sampling_resetSampler \/ sampling_resetDone
          /\ i = DRAINING => draining_deinit
          /\ i = SENSORS => sensors_deinit
      BY <1>4, <3>1, SamplingEffects, DrainingEffects, SensorsEffects
         DEF Runs, sampling, sampling_runnable, sampling_runs, sampling_silent, draining, sensors,
         PRIMING, FILLITK, LEAKHANDLER, SAMPLING,
         DRAINING, SENSORS, BTNHANDLER, SHIFTREGISTERHANDLER, IDLE, WIFI
    <3>5. ~(i = SAMPLING /\ resetting)
      <4>1. resetting => task_list'[SAMPLING].state = task_list[SAMPLING].state
        BY ResetList DEF resetting, SAMPLING, PRIMING, FILLITK
      <4>2. sampling_resetSampler => task_list[SAMPLING].state = "RUNNING"
        BY CalledIn DEF sampling_resetSampler
      <4>3. sampling_resetDone => hang = "reset"
        BY DEF sampling_resetDone
      <4>4. hang = "none"
        BY <1>4 DEF Effects, Effect, Calls
      <4>. QED
        BY <2>2, <4>1, <4>2, <4>3, <4>4 DEF resetting, Stopped
    <3>. QED
      BY <1>4, <2>2, <3>2, <3>3, <3>4, <3>5 DEF Runs, Stops, resetting
  <2>. QED
    BY <2>1, <2>2
<1>. QED
  BY <1>1, <1>2, <1>3, <1>4, StepEffects

(* What the records that a call writes say of its task's flag.             *)
LEMMA OwnFlags ==
    ASSUME task_list \in Sched!TaskList, NEW i \in 0 .. 9
    PROVE  LET t == task_list[i] IN
           \A r \in {t, Stopping(i, t), Guarding(t), Held(t, "RUNNING"),
                    Held(Guarding(t), "RUNNING")} :
              Guards(i) => ~r.allowWifiReconnect
<1>1. ASSUME NEW t \in Sched!TaskRecord, ~t.allowWifiReconnect,
             NEW r \in {t, Stopping(i, t), Guarding(t), Held(t, "RUNNING"),
                        Held(Guarding(t), "RUNNING")}
      PROVE  ~r.allowWifiReconnect
  BY <1>1 DEF Stopping, Guarding, Held, Sched!TaskRecord
<1>. QED
  BY <1>1, TenTasks DEF Guards, Sched!TaskList

(* A task's claim is taken back by its own deinit, or by the reset.        *)
LEMMA KeepsGuard ==
    ASSUME task_list \in Sched!TaskList, [Next]_vars,
           NEW j \in {PRIMING, FILLITK, SAMPLING, DRAINING}, Guards(j)
    PROVE  Guards(j)' \/ Frees(j)
<1>0. j \in 0 .. 9
  BY DEF PRIMING, FILLITK, SAMPLING, DRAINING
<1>1. CASE NextPass
  BY <1>0, <1>1, PassList DEF NextPass, Guards
<1>2. CASE resetting
  <2>1. \A t \in Sched!TaskRecord :
           /\ Started(t).allowWifiReconnect = t.allowWifiReconnect
           /\ Held(t, "STOPPED").allowWifiReconnect = t.allowWifiReconnect
    BY DEF Started, Held, Sched!TaskRecord
  <2>2. task_list[FILLITK] \in Sched!TaskRecord
    BY TenTasks DEF Sched!TaskList, FILLITK
  <2>. QED
    BY <1>0, <1>2, <2>1, <2>2, ResetList DEF resetting, Frees, Guards, PRIMING, FILLITK
<1>3. CASE UNCHANGED <<schedVars, relayVars>>
  BY <1>3 DEF schedVars, Guards
<1>4. ASSUME NEW i \in 0 .. 9, Runs(i), Effects(i), ~resetting
      PROVE  Guards(j)' \/ Frees(j)
  <2>1. CASE j # i
    BY <1>0, <1>4, <2>1 DEF Effects, Effect, Guards
  <2>2. ASSUME j = i, ~Frees(j)
        PROVE  Guards(j)'
    <3> DEFINE Kept(k) == {task_list[k], Stopping(k, task_list[k]), Guarding(task_list[k]),
                           Held(task_list[k], "RUNNING"), Held(Guarding(task_list[k]), "RUNNING")}
    <3>1. priming /\ ~priming_deinit => task_list'[PRIMING] \in Kept(PRIMING)
      BY PrimingEdits DEF priming, Edits
    <3>2. fillITK /\ ~fillITK_deinit => task_list'[FILLITK] \in Kept(FILLITK)
      BY FillEdits DEF fillITK, Edits
    <3>3. sampling /\ ~sampling_deinit => task_list'[SAMPLING] \in Kept(SAMPLING)
      BY <1>4, SamplingEdits DEF sampling, sampling_runnable, sampling_silent, resetting, Edits
    <3>4. draining /\ ~draining_deinit => task_list'[DRAINING] \in Kept(DRAINING)
      BY DrainingEdits DEF draining, Edits
    <3>5. task_list'[j] \in Kept(j)
      BY <1>4, <2>2, <3>1, <3>2, <3>3, <3>4
         DEF Runs, Frees, PRIMING, FILLITK, LEAKHANDLER, SAMPLING,
         DRAINING, SENSORS, BTNHANDLER, SHIFTREGISTERHANDLER, IDLE, WIFI
    <3>6. \A r \in Kept(j) : ~r.allowWifiReconnect
      BY <1>0, OwnFlags
    <3>. QED
      BY <3>5, <3>6 DEF Guards
  <2>. QED
    BY <2>1, <2>2
<1>. QED
  BY <1>1, <1>2, <1>3, <1>4, StepEffects

-----------------------------------------------------------------------------
(* PRIMING has left its wait, and drives the pump or a dose.               *)
Pumping ==
    /\ task_list[PRIMING].state \notin {"STOPPED", "STARTING"}
    /\ priming_state # "WAITING"

(* RelaysOwned, made inductive: relay by relay, with the one exception.    *)
Owned ==
    /\ feed => Pumping
    /\ booted =>
          /\ "SUPPLYPUMP" \in relay => hang = "reset" \/ ~Stopped(FILLITK)
          /\ relay \cap {"BOTTLEFILLVALVE", "CO2VALVES"} # {} => ~Stopped(PRIMING)
          /\ "WASTEVALVE" \in relay => ~Stopped(SAMPLING)
          /\ relay \cap {"SAMPLEVALVE", "WASTEPUMP", "OUTPUTPUMP"} # {}
                => ~Stopped(SAMPLING) \/ ~Stopped(DRAINING)

(* The pumps that the other tasks drive are claimed.                       *)
Claimed ==
    /\ booted /\ "SUPPLYPUMP" \in relay => Guards(FILLITK)
    /\ booted /\ "OUTPUTPUMP" \in relay =>
          \E i \in {SAMPLING, DRAINING} : ~Stopped(i) /\ Guards(i)
    /\ Initialised(SAMPLING) /\ sampling_state # "drainingPending" => Guards(SAMPLING)

(* The runs of SAMPLING in which it turns relays on.                       *)
sampling_turnsOn ==
    sampling_DRAINING \/ sampling_CLEARSAMPLERLINES \/ sampling_skips \/ sampling_sampling

(* The relays that each of the calls in WritesRelay turns on and off.      *)
LEMMA RelayChange ==
    ASSUME RestTypeOK
    PROVE  /\ priming_doses => relay' \subseteq relay \cup {"BOTTLEFILLVALVE", "CO2VALVES"}
           /\ priming_deinit => relay' = relay \ {"BOTTLEFILLVALVE", "CO2VALVES"}
           /\ fillITK_init => \/ relay' = relay
                              \/ ~paused /\ tank # "full" /\ relay' = relay \cup {"SUPPLYPUMP"}
           /\ fillITK_deinit => relay' = relay \ {"SUPPLYPUMP"}
           /\ sampling_DRAINING => relay' \subseteq
                 relay \cup {"OUTPUTPUMP", "SAMPLEVALVE", "WASTEVALVE", "WASTEPUMP"}
           /\ sampling_CLEARSAMPLERLINES \/ sampling_skips \/ sampling_sampling =>
                 relay' \subseteq relay \cup {"OUTPUTPUMP", "SAMPLEVALVE"}
           /\ sampling_resetSampler \/ sampling_CLEARSAMPLERWASTE \/ sampling_DRAINING2 =>
                 relay' \subseteq relay
           /\ sampling_deinit =>
                 relay' = relay \ {"SAMPLEVALVE", "WASTEVALVE", "WASTEPUMP", "OUTPUTPUMP"}
           /\ draining_init => relay' \subseteq relay \cup {"OUTPUTPUMP"}
           /\ draining_runnable => relay' \subseteq relay \cup {"SAMPLEVALVE", "WASTEPUMP"}
           /\ draining_deinit => relay' = relay \ {"SAMPLEVALVE", "WASTEPUMP", "OUTPUTPUMP"}
           /\ shiftRegisterHandler_init => relay' = {}
<1>1. sampling_sampling => relay' \subseteq relay \cup {"OUTPUTPUMP", "SAMPLEVALVE"}
  <2>1. samplling_sampleState \in 0 .. 4
    BY DEF RestTypeOK
  <2>2. sampling_sampling =>
           \E done \in BOOLEAN : relay' = SampleRelays(samplling_sampleState, done)
    BY DEF sampling_sampling
  <2>. QED
    BY <2>1, <2>2, SampleRelaysBounds
<1>2. /\ priming_doses => relay' \subseteq relay \cup {"BOTTLEFILLVALVE", "CO2VALVES"}
      /\ priming_deinit => relay' = relay \ {"BOTTLEFILLVALVE", "CO2VALVES"}
  BY DEF priming_doses, priming_deinit, Closed, turnOn, turnOff
<1>3. /\ fillITK_init => \/ relay' = relay
                         \/ ~paused /\ tank # "full" /\ relay' = relay \cup {"SUPPLYPUMP"}
      /\ fillITK_deinit => relay' = relay \ {"SUPPLYPUMP"}
  BY DEF fillITK_init, fillITK_deinit, turnOn, turnOff
<1>4. /\ sampling_DRAINING => relay' \subseteq
            relay \cup {"OUTPUTPUMP", "SAMPLEVALVE", "WASTEVALVE", "WASTEPUMP"}
      /\ sampling_CLEARSAMPLERLINES \/ sampling_skips =>
            relay' \subseteq relay \cup {"OUTPUTPUMP", "SAMPLEVALVE"}
  BY DEF sampling_DRAINING, sampling_CLEARSAMPLERLINES, sampling_skips, PumpOn, turnOn, turnOff
<1>5. sampling_resetSampler \/ sampling_CLEARSAMPLERWASTE \/ sampling_DRAINING2 =>
         relay' \subseteq relay
  BY DEF sampling_resetSampler, sampling_CLEARSAMPLERWASTE, sampling_DRAINING2, turnOff
<1>6. sampling_deinit =>
         relay' = relay \ {"SAMPLEVALVE", "WASTEVALVE", "WASTEPUMP", "OUTPUTPUMP"}
  BY DEF sampling_deinit, Off, turnOff
<1>7. /\ draining_init => relay' \subseteq relay \cup {"OUTPUTPUMP"}
      /\ draining_runnable => relay' \subseteq relay \cup {"SAMPLEVALVE", "WASTEPUMP"}
      /\ draining_deinit => relay' = relay \ {"SAMPLEVALVE", "WASTEPUMP", "OUTPUTPUMP"}
  BY DEF draining_init, draining_runnable, draining_deinit, turnOff
<1>8. shiftRegisterHandler_init => relay' = {}
  BY DEF shiftRegisterHandler_init
<1>. QED
  BY <1>1, <1>2, <1>3, <1>4, <1>5, <1>6, <1>7, <1>8

(* Who turns a relay on; no deinit leaves a relay on.                      *)
LEMMA TurnsOn ==
    ASSUME RestTypeOK, [Next]_vars
    PROVE  /\ "SUPPLYPUMP" \in relay' =>
                 \/ "SUPPLYPUMP" \in relay /\ ~fillITK_deinit
                 \/ fillITK_init /\ ~paused /\ tank # "full"
           /\ relay' \cap {"BOTTLEFILLVALVE", "CO2VALVES"} # {} =>
                 \/ relay \cap {"BOTTLEFILLVALVE", "CO2VALVES"} # {} /\ ~priming_deinit
                 \/ priming_doses
           /\ "WASTEVALVE" \in relay' =>
                 ("WASTEVALVE" \in relay /\ ~sampling_deinit) \/ sampling_DRAINING
           /\ "OUTPUTPUMP" \in relay' =>
                 \/ "OUTPUTPUMP" \in relay /\ ~sampling_deinit /\ ~draining_deinit
                 \/ sampling_turnsOn \/ draining_init
           /\ relay' \cap {"SAMPLEVALVE", "WASTEPUMP", "OUTPUTPUMP"} # {} =>
                 \/ relay \cap {"SAMPLEVALVE", "WASTEPUMP", "OUTPUTPUMP"} # {}
                    /\ ~sampling_deinit /\ ~draining_deinit
                 \/ sampling_turnsOn \/ draining_init \/ draining_runnable
<1>0. relay' = relay \/ WritesRelay
  BY StepFrame DEF Frame
<1>1. "SUPPLYPUMP" \in relay' =>
         \/ "SUPPLYPUMP" \in relay /\ ~fillITK_deinit
         \/ fillITK_init /\ ~paused /\ tank # "full"
  BY <1>0, RelayChange DEF WritesRelay, draining
<1>2. relay' \cap {"BOTTLEFILLVALVE", "CO2VALVES"} # {} =>
         \/ relay \cap {"BOTTLEFILLVALVE", "CO2VALVES"} # {} /\ ~priming_deinit
         \/ priming_doses
  BY <1>0, RelayChange DEF WritesRelay, draining
<1>3. "WASTEVALVE" \in relay' =>
         ("WASTEVALVE" \in relay /\ ~sampling_deinit) \/ sampling_DRAINING
  BY <1>0, RelayChange DEF WritesRelay, draining
<1>4. "OUTPUTPUMP" \in relay' =>
         \/ "OUTPUTPUMP" \in relay /\ ~sampling_deinit /\ ~draining_deinit
         \/ sampling_turnsOn \/ draining_init
  BY <1>0, RelayChange DEF WritesRelay, draining, sampling_turnsOn
<1>5. relay' \cap {"SAMPLEVALVE", "WASTEPUMP", "OUTPUTPUMP"} # {} =>
         \/ relay \cap {"SAMPLEVALVE", "WASTEPUMP", "OUTPUTPUMP"} # {}
            /\ ~sampling_deinit /\ ~draining_deinit
         \/ sampling_turnsOn \/ draining_init \/ draining_runnable
  BY <1>0, RelayChange DEF WritesRelay, draining, sampling_turnsOn
<1>. QED
  BY <1>1, <1>2, <1>3, <1>4, <1>5

(* The register is cleared when the rig has booted.                        *)
LEMMA Boots ==
    ASSUME TypeOK, ShiftedOut, [Next]_vars, ~booted, booted'
    PROVE  shiftRegisterHandler_init /\ relay' = {}
<1> USE DEF SHIFTREGISTERHANDLER
<1>0. task_list \in Sched!TaskList /\ task_list[7].state = "STARTING"
  BY DEF TypeOK, Sched!TypeOK, booted
<1>1. ~NextPass
  <2>1. NextPass => task_list'[7].state = "STARTING"
    BY <1>0, PassList DEF NextPass
  <2>. QED
    BY <2>1 DEF booted
<1>2. ~resetting
  BY <1>0, ResetList DEF resetting, booted, PRIMING, FILLITK
<1>3. ~UNCHANGED <<schedVars, relayVars>>
  BY <1>0 DEF schedVars, booted
<1>4. PICK i \in 0 .. 9 : Runs(i) /\ Effects(i)
  BY <1>0, <1>1, <1>2, <1>3, StepEffects
<1>5. i = 7
  <2>1. i # 7 => 7 \notin Reach(i)
    BY DEF Reach, Polled, Commanded, PRIMING, FILLITK, LEAKHANDLER, SAMPLING, DRAINING, SENSORS,
       BTNHANDLER, WIFI
  <2>. QED
    BY <1>0, <1>4, <2>1 DEF Effects, Effect, booted, DRAINING
<1>6. shiftRegisterHandler
  BY <1>4, <1>5 DEF Runs, PRIMING, FILLITK, LEAKHANDLER, SAMPLING, DRAINING, SENSORS, BTNHANDLER,
     IDLE, WIFI
<1>7. ~shiftRegisterHandler_runnable
  BY <1>0, CalledIn DEF shiftRegisterHandler_runnable
<1>. QED
  BY <1>6, <1>7 DEF shiftRegisterHandler, shiftRegisterHandler_init

(* PRIMING is started when it is stopped, not while it stops.              *)
LEMMA PrimingStarts ==
    ASSUME TypeOK, StopsAtOnce, [Next]_vars, task_list'[PRIMING].state = "STARTING"
    PROVE  task_list[PRIMING].state \in {"STARTING", "STOPPED"}
<1>0. task_list \in Sched!TaskList /\ PRIMING \in 0 .. 9
  BY DEF TypeOK, Sched!TypeOK, PRIMING
<1>1. CASE NextPass
  BY <1>0, <1>1, PassList DEF NextPass
<1>2. CASE resetting
  <2>1. task_list[PRIMING] \in Sched!TaskRecord
    BY <1>0, TenTasks DEF Sched!TaskList
  <2>2. Yielding(task_list[PRIMING]).state = task_list[PRIMING].state
    BY <2>1, WrittenFields
  <2>3. task_list'[PRIMING] \in {task_list[PRIMING], Yielding(task_list[PRIMING])}
    BY <1>0, <1>2, ResetList DEF resetting, PRIMING, FILLITK
  <2>. QED
    BY <2>2, <2>3
<1>3. CASE UNCHANGED <<schedVars, relayVars>>
  BY <1>3 DEF schedVars
<1>4. ASSUME NEW i \in 0 .. 9, NEW s \in {"STARTING", "RUNNING", "STOPPING"}, Effect(i, s)
      PROVE  task_list[PRIMING].state \in {"STARTING", "STOPPED"}
  <2>1. i # PRIMING
    BY <1>4 DEF Effect, NextStates, PRIMING, FILLITK, BTNHANDLER, SHIFTREGISTERHANDLER, IDLE, WIFI
  <2>2. task_list[PRIMING].state # "STOPPING"
    BY <1>4, <2>1, Earlier DEF Effect, StopsAtOnce, PRIMING
  <2>. QED
    BY <1>0, <1>4, <2>1, <2>2 DEF Effect, DRAINING, PRIMING
<1>. QED
  BY <1>0, <1>1, <1>2, <1>3, <1>4, StepEffects DEF Effects

(* PRIMING pumps until its deinit, once it has started to.                 *)
LEMMA PumpingStep ==
    ASSUME TypeOK, StopsAtOnce, [Next]_vars
    PROVE  /\ Pumping => Pumping' \/ priming_deinit
           /\ priming_doses => Pumping'
<1>0. task_list \in Sched!TaskList /\ PRIMING \in 0 .. 9
  BY DEF TypeOK, Sched!TypeOK, PRIMING
<1>1. ASSUME Pumping, ~priming_deinit
      PROVE  Pumping'
  <2>1. task_list'[PRIMING].state # "STOPPED"
    BY <1>0, <1>1, OnlyDeinitStops DEF Pumping, Stopped, Stops, PRIMING, FILLITK, LEAKHANDLER,
       SAMPLING, DRAINING, SENSORS
  <2>2. task_list'[PRIMING].state # "STARTING"
    BY <1>1, PrimingStarts DEF Pumping
  <2>3. ~priming_init
    BY <1>1, CalledIn DEF priming_init, Pumping
  <2>4. priming_state' # "WAITING"
    BY <1>1, <2>3, StepFrame DEF Frame, priming_starts, priming_startPriming, priming_doses, Pumping
  <2>. QED
    BY <2>1, <2>2, <2>4 DEF Pumping
<1>2. ASSUME priming_doses
      PROVE  Pumping'
  <2>1. task_list'[PRIMING].state \in {"RUNNING", "STOPPING"}
    BY <1>0, <1>2, PrimingEffects DEF Effect, NextStates, PRIMING, FILLITK, BTNHANDLER,
       SHIFTREGISTERHANDLER, IDLE, WIFI
  <2>. QED
    BY <1>2, <2>1 DEF Pumping, priming_doses
<1>. QED
  BY <1>1, <1>2

(* The calls in which a task turns something on do not stop it.            *)
LEMMA OwnerStays ==
    ASSUME task_list \in Sched!TaskList
    PROVE  /\ priming_doses => ~Stopped(PRIMING)'
           /\ fillITK_init => ~Stopped(FILLITK)'
           /\ sampling_turnsOn => ~Stopped(SAMPLING)'
           /\ draining_init \/ draining_runnable => ~Stopped(DRAINING)'
<1>1. \A i : Effect(i, "STARTING") \/ Effect(i, "RUNNING") => ~Stopped(i)'
  BY DEF Effect, NextStates, Stopped
<1>2. sampling_turnsOn => sampling_runs
  BY DEF sampling_turnsOn, sampling_runs, sampling_silent
<1>. QED
  BY <1>1, <1>2, PrimingEffects, FillEffects, SamplingEffects, DrainingEffects

(* A relay that is on was turned on by its owner, which has not had its    *)
(* deinit since.                                                           *)
LEMMA OwnedStep ==
    ASSUME TypeOK, Order, Owned, SamplerFails, [Next]_vars
    PROVE  Owned'
<1>0. task_list \in Sched!TaskList /\ RestTypeOK
      /\ {PRIMING, FILLITK, SAMPLING, DRAINING} \subseteq 0 .. 9
  BY TypeParts DEF Sched!TypeOK, PRIMING, FILLITK, SAMPLING, DRAINING
<1>1. feed' => Pumping'
  <2>1. feed' => (feed /\ ~priming_deinit) \/ priming_doses
    BY StepFrame DEF Frame, priming_deinit, sampling_resetSampler
  <2>. QED
    BY <2>1, PumpingStep DEF Owned, Order
<1>2. ASSUME booted', ~booted
      PROVE  relay' = {}
  BY <1>2, Boots DEF Order
<1>3. ASSUME booted, "SUPPLYPUMP" \in relay'
      PROVE  hang' = "reset" \/ ~Stopped(FILLITK)'
  <2>1. CASE fillITK_init
    BY <1>0, <2>1, OwnerStays
  <2>2. CASE "SUPPLYPUMP" \in relay /\ ~fillITK_deinit /\ hang # "reset"
    <3>1. ~Stopped(FILLITK)
      BY <1>3, <2>2 DEF Owned
    <3>2. Stopped(FILLITK)' => sampling_resetSampler
      BY <1>0, <2>2, <3>1, OnlyDeinitStops DEF Stops, PRIMING, FILLITK, LEAKHANDLER, SAMPLING,
         DRAINING, SENSORS
    <3>. QED
      BY <3>2 DEF sampling_resetSampler
  <2>3. CASE hang = "reset" /\ sampling_resetDone
    <3>1. \A t \in Sched!TaskRecord : Started(t).state # "STOPPED"
      BY RecordFields DEF PRIMING
    <3>2. task_list[FILLITK] \in Sched!TaskRecord
      BY <1>0, TenTasks DEF Sched!TaskList
    <3>. QED
      BY <1>0, <2>3, <3>1, <3>2, ResetList DEF Stopped
  <2>4. CASE hang = "reset" /\ ~sampling_resetDone
    BY <2>4, StepFrame DEF Frame, HangEnds, resetting, sampling_resetSampler, sampling_sampling,
       InState, wifi_pending, wifi_broker, Calls
  <2>. QED
    BY <1>0, <1>3, <2>1, <2>2, <2>3, <2>4, TurnsOn
<1>4. ASSUME booted, relay' \cap {"BOTTLEFILLVALVE", "CO2VALVES"} # {}
      PROVE  ~Stopped(PRIMING)'
  <2>1. CASE priming_doses
    BY <1>0, <2>1, OwnerStays
  <2>2. CASE relay \cap {"BOTTLEFILLVALVE", "CO2VALVES"} # {} /\ ~priming_deinit
    BY <1>0, <1>4, <2>2, OnlyDeinitStops DEF Owned, Stops, PRIMING, FILLITK, LEAKHANDLER,
       SAMPLING, DRAINING, SENSORS
  <2>. QED
    BY <1>0, <1>4, <2>1, <2>2, TurnsOn
<1>5. ASSUME booted, "WASTEVALVE" \in relay'
      PROVE  ~Stopped(SAMPLING)'
  <2>1. CASE sampling_DRAINING
    BY <1>0, <2>1, OwnerStays DEF sampling_turnsOn
  <2>2. CASE "WASTEVALVE" \in relay /\ ~sampling_deinit
    BY <1>0, <1>5, <2>2, OnlyDeinitStops DEF Owned, Stops, PRIMING, FILLITK, LEAKHANDLER,
       SAMPLING, DRAINING, SENSORS
  <2>. QED
    BY <1>0, <1>5, <2>1, <2>2, TurnsOn
<1>6. ASSUME booted, relay' \cap {"SAMPLEVALVE", "WASTEPUMP", "OUTPUTPUMP"} # {}
      PROVE  ~Stopped(SAMPLING)' \/ ~Stopped(DRAINING)'
  <2>1. CASE sampling_turnsOn \/ draining_init \/ draining_runnable
    BY <1>0, <2>1, OwnerStays
  <2>2. CASE relay \cap {"SAMPLEVALVE", "WASTEPUMP", "OUTPUTPUMP"} # {}
             /\ ~sampling_deinit /\ ~draining_deinit
    BY <1>0, <1>6, <2>2, OnlyDeinitStops DEF Owned, Stops, PRIMING, FILLITK, LEAKHANDLER,
       SAMPLING, DRAINING, SENSORS
  <2>. QED
    BY <1>0, <1>6, <2>1, <2>2, TurnsOn
<1>. QED
  BY <1>1, <1>2, <1>3, <1>4, <1>5, <1>6 DEF Owned

(* The claims of FILLITK, DRAINING and SAMPLING stay while their pumps     *)
(* run.                                                                    *)
LEMMA ClaimedStep ==
    ASSUME TypeOK, Order, Owned, Claimed, [Next]_vars
    PROVE  Claimed'
<1>0. task_list \in Sched!TaskList /\ RestTypeOK
      /\ {PRIMING, FILLITK, SAMPLING, DRAINING} \subseteq 0 .. 9
  BY TypeParts DEF Sched!TypeOK, PRIMING, FILLITK, SAMPLING, DRAINING
<1>1. ASSUME booted', ~booted
      PROVE  relay' = {}
  BY <1>1, Boots DEF Order
<1>2. ASSUME booted, "SUPPLYPUMP" \in relay'
      PROVE  Guards(FILLITK)'
  <2>1. CASE fillITK_init /\ ~paused /\ tank # "full"
    <3>1. task_list' = hardStart(guard(task_list, FILLITK), FILLITK)
      BY <2>1 DEF fillITK_init, Filling, guard, allow, Sched!allow
    <3>2. task_list'[FILLITK] = Held(Guarding(task_list[FILLITK]), "RUNNING")
      BY <1>0, <3>1, GivesBack
    <3>3. task_list[FILLITK] \in Sched!TaskRecord
      BY <1>0, TenTasks DEF Sched!TaskList
    <3>4. \A t \in Sched!TaskRecord : ~Held(Guarding(t), "RUNNING").allowWifiReconnect
      BY DEF Held, Guarding, Sched!TaskRecord
    <3>. QED
      BY <3>2, <3>3, <3>4 DEF Guards
  <2>2. CASE "SUPPLYPUMP" \in relay /\ ~fillITK_deinit
    BY <1>0, <1>2, <2>2, KeepsGuard DEF Claimed, Frees, PRIMING, FILLITK, SAMPLING, DRAINING
  <2>. QED
    BY <1>0, <1>2, <2>1, <2>2, TurnsOn
<1>3. sampling_runs /\ sampling_state # "drainingPending" => ~Stopped(SAMPLING)' /\ Guards(SAMPLING)'
  <2> SUFFICES ASSUME sampling_runs, sampling_state # "drainingPending"
               PROVE  ~Stopped(SAMPLING)' /\ Guards(SAMPLING)'
    OBVIOUS
  <2>1. Effect(SAMPLING, "RUNNING")
    BY <1>0, SamplingEffects
  <2>2. task_list[SAMPLING].state = "RUNNING" /\ ~Stopped(SAMPLING)'
    BY <2>1, CalledIn DEF Effect, NextStates, Stopped
  <2>3. ~sampling_deinit
    BY <2>2, CalledIn DEF sampling_deinit
  <2>. QED
    BY <1>0, <2>2, <2>3, KeepsGuard DEF Claimed, Initialised, Frees, PRIMING, FILLITK, SAMPLING, DRAINING
<1>4. ASSUME booted, "OUTPUTPUMP" \in relay'
      PROVE  \E i \in {SAMPLING, DRAINING} : ~Stopped(i)' /\ Guards(i)'
  <2>1. CASE sampling_turnsOn
    <3>1. sampling_runs /\ sampling_state # "drainingPending"
      BY <2>1 DEF sampling_turnsOn, sampling_runs, sampling_silent, sampling_DRAINING,
         sampling_CLEARSAMPLERLINES, sampling_skips, sampling_sampling, InState
    <3>. QED
      BY <1>3, <3>1
  <2>2. CASE draining_init
    <3>1. task_list'[DRAINING] = Held(Guarding(task_list[DRAINING]), "RUNNING")
      BY <1>0, <2>2, DrainingEdits DEF Edits
    <3>2. task_list[DRAINING] \in Sched!TaskRecord
      BY <1>0, TenTasks DEF Sched!TaskList
    <3>3. \A t \in Sched!TaskRecord : ~Held(Guarding(t), "RUNNING").allowWifiReconnect
      BY DEF Held, Guarding, Sched!TaskRecord
    <3>. QED
      BY <1>0, <2>2, <3>1, <3>2, <3>3, OwnerStays DEF Guards
  <2>3. CASE "OUTPUTPUMP" \in relay /\ ~sampling_deinit /\ ~draining_deinit
    <3>1. PICK i \in {SAMPLING, DRAINING} : ~Stopped(i) /\ Guards(i)
      BY <1>4, <2>3 DEF Claimed
    <3>2. ~Stops(i) /\ ~Frees(i)
      BY <2>3, <3>1 DEF Stops, Frees, PRIMING, FILLITK, LEAKHANDLER, SAMPLING, DRAINING, SENSORS
    <3>. QED
      BY <1>0, <3>1, <3>2, OnlyDeinitStops, KeepsGuard
  <2>. QED
    BY <1>0, <1>4, <2>1, <2>2, <2>3, TurnsOn
<1>5. ASSUME Initialised(SAMPLING)', sampling_state' # "drainingPending"
      PROVE  Guards(SAMPLING)'
  <2>1. CASE sampling_state' = sampling_state
    <3>1. CASE ~Initialised(SAMPLING)
      <4>1. ~NextPass
        BY <1>0, <1>5, <3>1, PassList DEF NextPass, Initialised
      <4>2. ~resetting
        BY <1>0, <1>5, <3>1, ResetList DEF resetting, Initialised, PRIMING, FILLITK, SAMPLING
      <4>3. ~UNCHANGED <<schedVars, relayVars>>
        BY <1>5, <3>1 DEF schedVars, Initialised
      <4>4. PICK i \in 0 .. 9 : Runs(i) /\ Effects(i)
        BY <1>0, <4>1, <4>2, <4>3, StepEffects
      <4>5. i = SAMPLING
        BY <1>0, <1>5, <3>1, <4>4 DEF Effects, Effect, Initialised, SAMPLING, DRAINING
      <4>6. sampling
        BY <4>4, <4>5 DEF Runs, PRIMING, FILLITK, LEAKHANDLER, SAMPLING, DRAINING, SENSORS,
           BTNHANDLER, SHIFTREGISTERHANDLER, IDLE, WIFI
      <4>7. ~sampling_runs
        BY <1>0, <3>1, SamplingEffects, CalledIn DEF Effect, Initialised
      <4>8. ~sampling_init
        BY <1>5 DEF sampling_init
      <4>9. ~sampling_deinit
        BY <1>0, <1>5, SamplingEffects DEF Effect, NextStates, Initialised, SAMPLING, FILLITK,
           BTNHANDLER, SHIFTREGISTERHANDLER, IDLE, WIFI
      <4>. QED
        BY <4>2, <4>6, <4>7, <4>8, <4>9 DEF sampling, sampling_runnable, sampling_runs,
           sampling_silent, resetting
    <3>2. CASE Initialised(SAMPLING)
      <4>1. ~sampling_deinit
        BY <3>2, CalledIn DEF sampling_deinit, Initialised
      <4>. QED
        BY <1>0, <1>5, <2>1, <3>2, <4>1, KeepsGuard DEF Claimed, Frees, PRIMING, FILLITK,
           SAMPLING, DRAINING
    <3>. QED
      BY <3>1, <3>2
  <2>2. CASE sampling_drainingPending
    <3>1. sampling_state = "drainingPending"
      BY <2>2 DEF sampling_drainingPending, InState
    <3>2. task_list' = guard(task_list, SAMPLING)
      BY <1>5, <2>2, <3>1 DEF sampling_drainingPending, guard, allow, Sched!allow
    <3>3. task_list'[SAMPLING] = Guarding(task_list[SAMPLING])
      BY <1>0, <3>2, AllowList
    <3>4. task_list[SAMPLING] \in Sched!TaskRecord
      BY <1>0, TenTasks DEF Sched!TaskList
    <3>. QED
      BY <3>3, <3>4, WrittenFields DEF Guards
  <2>3. CASE sampling_state' # sampling_state /\ ~sampling_drainingPending
    <3>1. WritesSamplingState /\ ~sampling_init
      BY <1>5, <2>3, StepFrame DEF Frame, sampling_init
    <3>2. sampling_runs /\ sampling_state # "drainingPending"
      BY <2>3, <3>1 DEF WritesSamplingState, sampling_runs, sampling_silent, sampling_DRAINING,
         sampling_CLEARSAMPLERLINES, sampling_CLEARSAMPLERWASTE, sampling_skips,
         sampling_sampling, sampling_DRAINING1, InState
    <3>. QED
      BY <1>3, <3>2
  <2>. QED
    BY <2>1, <2>2, <2>3
<1>. QED
  BY <1>1, <1>2, <1>4, <1>5 DEF Claimed

(* The inductive invariant of the rig, whatever fails and whatever the     *)
(* operator does.                                                          *)
RigInv == TypeOK /\ Harmless /\ SamplerFails /\ Order /\ Owned /\ Claimed

(* RigInv holds when the rig has booted.                                   *)
LEMMA RigInvInit == Init => RigInv
<1> SUFFICES ASSUME Init
             PROVE  RigInv
  OBVIOUS
<1>1. \A i \in 0 .. 9 : task_list[i].state \in {"STARTING", "STOPPED"}
  BY DEF Init, MAX_TASKS
<1>2. Order
  BY TenTasks DEF Init, Order, StopsAtOnce, ShiftedOut, NothingBefore, booted, Stopped, PRIMING,
     FILLITK, SAMPLING, BTNHANDLER, SHIFTREGISTERHANDLER, IDLE, WIFI
<1>3. Owned /\ Claimed
  BY TenTasks DEF Init, Owned, Claimed, Initialised, booted, PRIMING, FILLITK, SAMPLING,
     BTNHANDLER, SHIFTREGISTERHANDLER, IDLE, WIFI
<1>. QED
  BY <1>2, <1>3, TypeInit DEF Init, RigInv, SamplerFails

(* Every step keeps RigInv.                                                *)
LEMMA RigInvStep == RigInv /\ [Next]_vars => RigInv'
<1> SUFFICES ASSUME RigInv, [Next]_vars
             PROVE  RigInv'
  OBVIOUS
<1>1. task_list \in Sched!TaskList
  BY DEF RigInv, TypeOK, Sched!TypeOK
<1>. QED
  BY <1>1, TypeStep, HarmlessStep, SamplerFailsStep, StopsAtOnceStep, ShiftedOutStep,
     NothingBeforeStep, OwnedStep, ClaimedStep DEF RigInv, Order

(* So RigInv holds in every state.                                         *)
LEMMA RigInvHolds == Spec => []RigInv
  BY RigInvInit, RigInvStep, PTL DEF Spec

(* Nothing is left on: a relay is on only while a task that drives it has  *)
(* been initialised and not yet stopped, whatever errors, commands and     *)
(* resets of the sampler come between (the deinits under tasks/).          *)
THEOREM NothingLeftOn == Spec => []RelaysOwned
<1>1. RigInv => RelaysOwned
  <2> SUFFICES ASSUME RigInv, booted, hang # "reset"
               PROVE  /\ \A r \in relay : \E i \in Owners[r] : ~Stopped(i)
                      /\ feed => ~Stopped(PRIMING)
    BY DEF RelaysOwned
  <2>1. feed => ~Stopped(PRIMING)
    BY DEF RigInv, Owned, Pumping, Stopped
  <2>2. relay \subseteq Relay
    BY DEF RigInv, TypeOK
  <2>3. \A r \in relay : \E i \in Owners[r] : ~Stopped(i)
    BY <2>2 DEF RigInv, Owned, Owners, Relay
  <2>. QED
    BY <2>1, <2>3
<1>. QED
  BY <1>1, RigInvHolds, PTL

-----------------------------------------------------------------------------
(* A task is initialised by its own init.                                  *)
LEMMA Enters ==
    ASSUME task_list \in Sched!TaskList, [Next]_vars, NEW j \in {PRIMING, SAMPLING, SENSORS},
           Initialised(j)', ~Initialised(j)
    PROVE  Runs(j) /\ Effect(j, "STARTING")
<1>0. j \in (0 .. 9) \ {DRAINING}
  BY DEF PRIMING, SAMPLING, SENSORS, DRAINING
<1>1. ~NextPass
  BY <1>0, PassList DEF NextPass, Initialised
<1>2. ~resetting
  <2>1. \A t \in Sched!TaskRecord :
           /\ Yielding(t).state = t.state /\ Held(t, "STOPPED").state = "STOPPED"
           /\ Started(t) = t \/ Started(t).state = "STARTING"
    BY DEF Yielding, Held, Started, Sched!TaskRecord
  <2>2. \A k \in 0 .. 9 : task_list[k] \in Sched!TaskRecord
    BY TenTasks DEF Sched!TaskList
  <2>. QED
    BY <1>0, <2>1, <2>2, ResetList DEF resetting, Initialised, PRIMING, FILLITK
<1>3. ~UNCHANGED <<schedVars, relayVars>>
  BY DEF schedVars, Initialised
<1>4. PICK i \in 0 .. 9 : Runs(i) /\ Effects(i)
  BY <1>1, <1>2, <1>3, StepEffects
<1>5. i = j
  BY <1>0, <1>4 DEF Effects, Effect, Initialised
<1>6. ~Effect(j, "RUNNING")
  BY CalledIn DEF Effect, Initialised
<1>7. ~Effect(j, "STOPPING")
  BY DEF Effect, NextStates, Initialised, PRIMING, FILLITK, SAMPLING, SENSORS, BTNHANDLER,
     SHIFTREGISTERHANDLER, IDLE, WIFI
<1>. QED
  BY <1>4, <1>5, <1>6, <1>7 DEF Effects

(* A task that is stopped is started by another one's call.                *)
LEMMA Begins ==
    ASSUME task_list \in Sched!TaskList, [Next]_vars, NEW j \in (0 .. 9) \ {FILLITK},
           Stopped(j), ~Stopped(j)'
    PROVE  \E i \in (0 .. 9) \ {j} : Runs(i) /\ Effects(i) /\ j \in Reach(i)
<1>1. ~NextPass
  BY PassList DEF NextPass, Stopped
<1>2. ~resetting
  <2>1. \A t \in Sched!TaskRecord : Yielding(t).state = t.state
    BY DEF Yielding, Sched!TaskRecord
  <2>2. task_list[j] \in Sched!TaskRecord
    BY TenTasks DEF Sched!TaskList
  <2>. QED
    BY <2>1, <2>2, ResetList DEF resetting, Stopped, PRIMING, FILLITK
<1>3. ~UNCHANGED <<schedVars, relayVars>>
  BY DEF schedVars, Stopped
<1>4. PICK i \in 0 .. 9 : Runs(i) /\ Effects(i)
  BY <1>1, <1>2, <1>3, StepEffects
<1>5. i # j
  BY <1>4, CalledIn DEF Effects, Effect, Stopped
<1>. QED
  BY <1>4, <1>5 DEF Effects, Effect, Stopped

(* A priming that is over is stopping; until then it starts nobody.        *)
LEMMA PumpingEnds ==
    ASSUME task_list \in Sched!TaskList, priming_waits \/ priming_doses
    PROVE  \/ task_list'[PRIMING].state = "STOPPING"
           \/ \A j \in (0 .. 9) \ {DRAINING} : task_list'[j] = task_list[j]
<1>1. PICK h \in AfterHead :
         task_list' = h[2] \/ task_list' = AfterError("FINISHED", h[2])
  BY DEF priming_waits, priming_doses, errorState
<1>2. task_list' = h[2]
  BY <1>1 DEF AfterError, DrainErrors
<1>3. task_list[PRIMING].state = "RUNNING" /\ task_list[PRIMING] \in Sched!TaskRecord
  BY CalledIn, TenTasks DEF priming_waits, priming_doses, Sched!TaskList, PRIMING
<1>4. Stopping(PRIMING, task_list[PRIMING]).state = "STOPPING"
  BY <1>3 DEF Stopping, Sched!TaskRecord
<1>. QED
  BY <1>2, <1>4, HeadList

-----------------------------------------------------------------------------
(* PRIMING and SAMPLING.  The cycle of the rig starts SAMPLING when        *)
(* PRIMING stops; only the command sample starts it at another time.       *)
Excludes ==
    /\ Initialised(PRIMING) /\ priming_state # "WAITING" => Stopped(SAMPLING)
    /\ task_list[PRIMING].state = "STOPPING" /\ feed =>
          task_list[SAMPLING].state \in {"STOPPED", "STARTING"}

(* What has just been started is not running yet.                          *)
LEMMA JustStarted ==
    ASSUME task_list \in Sched!TaskList, [Next]_vars, Stopped(SAMPLING)
    PROVE  task_list'[SAMPLING].state \in {"STOPPED", "STARTING"}
<1>1. ASSUME ~Stopped(SAMPLING)'
      PROVE  task_list'[SAMPLING].state = "STARTING"
  <2>1. SAMPLING \in (0 .. 9) \ {FILLITK} /\ SAMPLING # DRAINING
    BY DEF SAMPLING, FILLITK, DRAINING
  <2>2. PICK i \in (0 .. 9) \ {SAMPLING} : Effects(i)
    BY <1>1, <2>1, Begins
  <2>. QED
    BY <1>1, <2>1, <2>2 DEF Effects, Effect, Stopped
<1>. QED
  BY <1>1 DEF Stopped

(* Without the command, SAMPLING is started by the end of a priming.       *)
LEMMA SamplingBegins ==
    ASSUME "sample" \notin Inputs, task_list \in Sched!TaskList, [Next]_vars,
           Stopped(SAMPLING), ~Stopped(SAMPLING)'
    PROVE  /\ priming_waits \/ priming_doses
           /\ task_list'[PRIMING].state = "STOPPING"
<1>1. SAMPLING \in (0 .. 9) \ {FILLITK} /\ SAMPLING # DRAINING /\ SAMPLING # PRIMING
      /\ SAMPLING \notin {SENSORS, DRAINING}
  BY DEF SAMPLING, FILLITK, DRAINING, PRIMING, SENSORS
<1>2. PICK i \in (0 .. 9) \ {SAMPLING} : Runs(i) /\ Effects(i) /\ SAMPLING \in Reach(i)
  BY <1>1, Begins
<1>3. i = PRIMING /\ priming
  BY <1>2 DEF Reach, Polled, Commanded, Runs, PRIMING, FILLITK, LEAKHANDLER, SAMPLING,
     DRAINING, SENSORS, BTNHANDLER, SHIFTREGISTERHANDLER, IDLE, WIFI
<1>4. task_list'[SAMPLING] # task_list[SAMPLING]
  BY DEF Stopped
<1>5. priming_waits \/ priming_doses
  BY <1>1, <1>3, <1>4, PrimingEdits DEF priming, Edits
<1>6. task_list'[PRIMING].state = "STOPPING"
  BY <1>1, <1>4, <1>5, PumpingEnds
<1>. QED
  BY <1>5, <1>6

(* PRIMING stops itself, and only by a run of its own.                     *)
LEMMA PrimingStops ==
    ASSUME TypeOK, Order, SamplerFails, [Next]_vars, task_list'[PRIMING].state = "STOPPING"
    PROVE  \/ UNCHANGED schedVars
           \/ priming_starts \/ priming_waits \/ priming_doses \/ priming_stops
<1>0. task_list \in Sched!TaskList
  BY DEF TypeOK, Sched!TypeOK
<1>1. turn' = PRIMING /\ check' = 2
  BY StopsAtOnceStep DEF Order, StopsAtOnce
<1>2. ~NextPass
  BY <1>1 DEF NextPass, Sched!NextPass
<1>3. ~resetting
  <2>1. sampling_resetSampler => turn' = SAMPLING
    BY CalledIn DEF sampling_resetSampler
  <2>2. sampling_resetDone => turn' = SAMPLING
    BY DEF sampling_resetDone, SamplerFails
  <2>. QED
    BY <1>1, <2>1, <2>2 DEF resetting, SAMPLING, PRIMING
<1>4. CASE UNCHANGED <<schedVars, relayVars>>
  BY <1>4
<1>5. ASSUME NEW i \in 0 .. 9, Runs(i), Effects(i)
      PROVE  priming_starts \/ priming_waits \/ priming_doses \/ priming_stops
  <2>1. i = PRIMING
    BY <1>1, <1>5, CalledIn DEF Effects, Effect
  <2>2. priming
    BY <1>5, <2>1 DEF Runs, PRIMING, FILLITK, LEAKHANDLER, SAMPLING,
       DRAINING, SENSORS, BTNHANDLER, SHIFTREGISTERHANDLER, IDLE, WIFI
  <2>3. ~priming_init /\ ~priming_deinit
    <3>1. priming_init => check' = 1
      BY CalledIn DEF priming_init
    <3>2. priming_deinit => check' = 3
      BY CalledIn DEF priming_deinit
    <3>. QED
      BY <1>1, <3>1, <3>2
  <2>. QED
    BY <2>2, <2>3 DEF priming
<1>. QED
  BY <1>0, <1>2, <1>3, <1>4, <1>5, StepEffects

(* PRIMING, SAMPLING and SENSORS are initialised by their own init.        *)
LEMMA OwnInits ==
    ASSUME task_list \in Sched!TaskList, [Next]_vars
    PROVE  /\ Initialised(PRIMING)' => Initialised(PRIMING) \/ priming_init
           /\ Initialised(SAMPLING)' => Initialised(SAMPLING) \/ sampling_init
           /\ Initialised(SENSORS)' => Initialised(SENSORS) \/ sensors_init
<1>1. ASSUME NEW j \in {PRIMING, SAMPLING, SENSORS}
      PROVE  Initialised(j)' => Initialised(j) \/ (Runs(j) /\ Effect(j, "STARTING"))
  <2> SUFFICES ASSUME Initialised(j)', ~Initialised(j)
               PROVE  Runs(j) /\ Effect(j, "STARTING")
    OBVIOUS
  <2>. QED
    BY Enters
<1>2. /\ Runs(PRIMING) => priming
      /\ Runs(SAMPLING) => sampling
      /\ Runs(SENSORS) => sensors
  BY DEF Runs, PRIMING, FILLITK, LEAKHANDLER, SAMPLING, DRAINING, SENSORS, BTNHANDLER,
     SHIFTREGISTERHANDLER, IDLE, WIFI
<1>3. priming /\ Calls(PRIMING, "STARTING") => priming_init
  BY CalledIn DEF priming, priming_starts, priming_waits, priming_doses, priming_stops,
     priming_deinit
<1>4. sampling /\ Calls(SAMPLING, "STARTING") => sampling_init
  <2>1. sampling_runs => task_list[SAMPLING].state = "RUNNING"
    BY SamplingEffects, CalledIn DEF Effect
  <2>2. sampling_deinit \/ sampling_resetSampler => task_list[SAMPLING].state # "STARTING"
    BY CalledIn DEF sampling_deinit, sampling_resetSampler
  <2>3. sampling_resetDone => hang # "none"
    BY DEF sampling_resetDone
  <2>. QED
    BY <2>1, <2>2, <2>3, CalledIn DEF sampling, sampling_runnable, sampling_runs, sampling_silent
<1>5. sensors /\ Calls(SENSORS, "STARTING") => sensors_init
  BY CalledIn DEF sensors, sensors_runnable, sensors_stops, sensors_deinit
<1>. QED
  BY <1>1, <1>2, <1>3, <1>4, <1>5 DEF Effect

(* Until its init PRIMING does not run.                                    *)
LEMMA StaysOut ==
    ASSUME TypeOK, Harmless, Order, SamplerFails, [Next]_vars, ~priming_init,
           task_list[PRIMING].state \in {"STOPPED", "STARTING"}
    PROVE  task_list'[PRIMING].state \in {"STOPPED", "STARTING"}
<1>1. task_list \in Sched!TaskList /\ task_list' \in Sched!TaskList /\ PRIMING \in 0 .. 9
  BY TypeStep DEF TypeOK, Sched!TypeOK, PRIMING
<1>2. ~Initialised(PRIMING)'
  BY <1>1, OwnInits DEF Initialised
<1>3. task_list'[PRIMING].state # "STOPPING"
  <2>1. ~(priming_starts \/ priming_waits \/ priming_doses \/ priming_stops)
    BY CalledIn DEF priming_starts, priming_waits, priming_doses, priming_stops
  <2>. QED
    BY <2>1, PrimingStops DEF schedVars
<1>4. task_list'[PRIMING] \in Sched!TaskRecord
  BY <1>1, TenTasks DEF Sched!TaskList
<1>. QED
  BY <1>2, <1>3, <1>4 DEF Initialised, Sched!TaskRecord, Sched!State

(* Every step keeps Excludes.                                              *)
LEMMA ExcludesStep ==
    ASSUME "sample" \notin Inputs, RigInv, Excludes, [Next]_vars
    PROVE  Excludes'
<1>0. /\ TypeOK /\ Order /\ SamplerFails /\ Owned /\ task_list \in Sched!TaskList
      /\ PRIMING \in 0 .. 9 /\ SAMPLING \in 0 .. 9
  BY DEF RigInv, TypeOK, Sched!TypeOK, PRIMING, SAMPLING
<1>1. ASSUME Initialised(PRIMING)', priming_state' # "WAITING"
      PROVE  Stopped(SAMPLING)'
  <2>1. CASE priming_starts
    <3>1. task_list'[SAMPLING] = task_list[SAMPLING]
      BY <1>0, <2>1, PrimingEdits DEF Edits, PRIMING, SAMPLING, SENSORS, DRAINING
    <3>. QED
      BY <2>1, <3>1 DEF priming_starts, readyToPrime, Stopped
  <2>2. CASE ~priming_starts
    <3>1. priming_state # "WAITING" /\ ~priming_init
      BY <1>1, <2>2, StepFrame DEF Frame, priming_init, priming_doses
    <3>2. Initialised(PRIMING)
      BY <1>0, <1>1, <3>1, OwnInits
    <3>3. Stopped(SAMPLING)
      BY <3>1, <3>2 DEF Excludes
    <3>. QED
      BY <1>0, <1>1, <3>3, SamplingBegins DEF Initialised
  <2>. QED
    BY <2>1, <2>2
<1>2. ASSUME task_list'[PRIMING].state = "STOPPING", feed'
      PROVE  task_list'[SAMPLING].state \in {"STOPPED", "STARTING"}
  <2>1. CASE UNCHANGED schedVars
    <3>1. feed
      BY <1>2, <2>1, StepFrame, CalledIn DEF Frame, priming_doses, priming_deinit,
         sampling_resetSampler, schedVars
    <3>. QED
      BY <1>2, <2>1, <3>1 DEF Excludes, schedVars
  <2>2. CASE priming_starts \/ priming_waits \/ priming_doses \/ priming_stops
    <3>1. task_list[PRIMING].state = "RUNNING"
      BY <2>2, CalledIn DEF priming_starts, priming_waits, priming_doses, priming_stops
    <3>2. feed => priming_state # "WAITING"
      BY <1>0 DEF Owned, Pumping
    <3>3. feed \/ priming_doses
      BY <1>2, <2>2 DEF priming_starts, priming_waits, priming_stops, relayVars
    <3>4. Stopped(SAMPLING)
      BY <3>1, <3>2, <3>3 DEF priming_doses, Excludes, Initialised
    <3>. QED
      BY <1>0, <3>4, JustStarted
  <2>. QED
    BY <1>0, <1>2, <2>1, <2>2, PrimingStops
<1>. QED
  BY <1>1, <1>2 DEF Excludes

(* Both are stopped when the rig has booted.                               *)
LEMMA ExcludesInit == Init => Excludes
<1>1. Init => /\ task_list[PRIMING].state = "STOPPED" /\ priming_state = "WAITING"
  BY TenTasks DEF Init, PRIMING, BTNHANDLER, SHIFTREGISTERHANDLER, IDLE, WIFI
<1>. QED
  BY <1>1 DEF Excludes

(* So Excludes holds in every state.                                       *)
LEMMA ExcludesHolds == "sample" \notin Inputs => (Spec => []Excludes)
<1> SUFFICES ASSUME "sample" \notin Inputs
             PROVE  Spec => []Excludes
  OBVIOUS
<1>1. RigInv /\ Excludes /\ [Next]_vars => Excludes'
  BY ExcludesStep
<1>. QED
  BY <1>1, ExcludesInit, RigInvHolds, PTL DEF Spec

(* The bottle is not filled while it is being emptied, unless the operator *)
(* sends sample while the rig primes (sampling.h:76 then comes too early). *)
THEOREM PrimingAlone ==
    "sample" \notin Inputs => (Spec => []PrimingExcludesSampling)
<1>1. RigInv /\ Excludes => PrimingExcludesSampling
  <2> SUFFICES ASSUME RigInv, Excludes, feed
               PROVE  task_list[SAMPLING].state \in {"STOPPED", "STARTING"}
    BY DEF PrimingExcludesSampling
  <2>1. Pumping /\ task_list[PRIMING] \in Sched!TaskRecord
    BY TenTasks DEF RigInv, Owned, TypeOK, Sched!TypeOK, Sched!TaskList, PRIMING
  <2>2. Initialised(PRIMING) \/ task_list[PRIMING].state = "STOPPING"
    BY <2>1 DEF Pumping, Initialised, Sched!TaskRecord, Sched!State
  <2>. QED
    BY <2>1, <2>2 DEF Pumping, Excludes, Stopped
<1>. QED
  BY <1>1, ExcludesHolds, RigInvHolds, PTL

-----------------------------------------------------------------------------
(* The pump may run when priming_startPriming has been called.             *)
LEMMA PumpingBegins ==
    ASSUME TypeOK, Harmless, Order, SamplerFails, [Next]_vars, ~Pumping, Pumping'
    PROVE  priming_starts
<1> SUFFICES ASSUME ~priming_starts
             PROVE  FALSE
  OBVIOUS
<1>1. ~priming_init /\ ~priming_doses
  BY CalledIn DEF priming_init, priming_doses, Pumping
<1>2. priming_state # "WAITING"
  BY <1>1, StepFrame DEF Frame, Pumping
<1>3. task_list[PRIMING].state \in {"STOPPED", "STARTING"}
  BY <1>2 DEF Pumping
<1>4. task_list'[PRIMING].state \in {"STOPPED", "STARTING"}
  BY <1>1, <1>3, StaysOut
<1>. QED
  BY <1>4 DEF Pumping

(* The reset of the sampler takes back the claim of a PRIMING that runs.   *)
(* It needs a SAMPLING beside it, which only the command sample starts.    *)
NoResetInPriming == "sample" \notin Inputs \/ "SAMPLERERROR" \notin Faults

(* While the feed pump may be on, PRIMING keeps its claim.                 *)
FeedClaimed == Pumping => Guards(PRIMING)

(* Every step keeps FeedClaimed.                                           *)
LEMMA FeedClaimedStep ==
    ASSUME NoResetInPriming, RigInv, "sample" \notin Inputs => Excludes, FeedClaimed, [Next]_vars
    PROVE  FeedClaimed'
<1>0. /\ TypeOK /\ Harmless /\ Order /\ SamplerFails /\ task_list \in Sched!TaskList
      /\ PRIMING \in {PRIMING, FILLITK, SAMPLING, DRAINING} /\ PRIMING \in 0 .. 9
  BY DEF RigInv, TypeOK, Sched!TypeOK, PRIMING
<1> SUFFICES ASSUME Pumping'
             PROVE  Guards(PRIMING)'
  BY DEF FeedClaimed
<1>1. CASE Pumping
  <2>1. ~priming_deinit
    BY <1>0, PrimingEffects DEF Effect, NextStates, Pumping, PRIMING, FILLITK, BTNHANDLER,
       SHIFTREGISTERHANDLER, IDLE, WIFI
  <2>2. ~sampling_resetSampler
    <3> SUFFICES ASSUME sampling_resetSampler
                 PROVE  FALSE
      OBVIOUS
    <3>1. error = "SAMPLERERROR" /\ Calls(SAMPLING, "RUNNING") /\ task_list[SAMPLING].state = "RUNNING"
      BY CalledIn DEF sampling_resetSampler
    <3>2. "sample" \notin Inputs
      BY <1>0, <3>1 DEF NoResetInPriming, SamplerFails
    <3>3. task_list[PRIMING].state # "STOPPING"
      BY <1>0, <3>1, Earlier DEF Order, StopsAtOnce, PRIMING, SAMPLING
    <3>4. task_list[PRIMING] \in Sched!TaskRecord
      BY <1>0, TenTasks DEF Sched!TaskList
    <3>5. Initialised(PRIMING)
      BY <1>1, <3>3, <3>4 DEF Pumping, Initialised, Sched!TaskRecord, Sched!State
    <3>. QED
      BY <1>1, <3>1, <3>2, <3>5 DEF Pumping, Excludes, Stopped
  <2>3. ~Frees(PRIMING)
    BY <2>1, <2>2 DEF Frees, PRIMING, FILLITK, SAMPLING, DRAINING
  <2>. QED
    BY <1>0, <1>1, <2>3, KeepsGuard DEF FeedClaimed
<1>2. CASE ~Pumping /\ priming_starts
  <2>1. task_list'[PRIMING] = Guarding(task_list[PRIMING])
    BY <1>0, <1>2, PrimingEdits DEF Edits
  <2>2. task_list[PRIMING] \in Sched!TaskRecord
    BY <1>0, TenTasks DEF Sched!TaskList
  <2>3. \A t \in Sched!TaskRecord : ~Guarding(t).allowWifiReconnect
    BY DEF Guarding, Sched!TaskRecord
  <2>. QED
    BY <2>1, <2>2, <2>3 DEF Guards
<1>3. ~Pumping => priming_starts
  BY <1>0, PumpingBegins
<1>. QED
  BY <1>1, <1>2, <1>3

(* So FeedClaimed holds in every state.                                    *)
LEMMA FeedClaimedHolds == NoResetInPriming => (Spec => []FeedClaimed)
<1> SUFFICES ASSUME NoResetInPriming
             PROVE  Spec => []FeedClaimed
  OBVIOUS
<1>1. Init => FeedClaimed
  <2>1. Init => priming_state = "WAITING"
    BY DEF Init
  <2>. QED
    BY <2>1 DEF FeedClaimed, Pumping
<1>2. CASE "sample" \notin Inputs
  <2>1. RigInv /\ Excludes /\ FeedClaimed /\ [Next]_vars => FeedClaimed'
    BY FeedClaimedStep
  <2>2. Spec => []Excludes
    BY <1>2, ExcludesHolds
  <2>. QED
    BY <1>1, <2>1, <2>2, RigInvHolds, PTL DEF Spec
<1>3. CASE "sample" \in Inputs
  <2>1. RigInv /\ FeedClaimed /\ [Next]_vars => FeedClaimed'
    BY <1>3, FeedClaimedStep
  <2>. QED
    BY <1>1, <2>1, RigInvHolds, PTL DEF Spec
<1>. QED
  BY <1>2, <1>3

(* A pump whose task keeps its claim is found by isDangerousTaskRunning.   *)
LEMMA PumpsClaimed == RigInv /\ FeedClaimed => DangerousWhenPumping
<1> SUFFICES ASSUME RigInv, FeedClaimed, booted, hang # "reset",
                    feed \/ relay \cap {"SUPPLYPUMP", "OUTPUTPUMP"} # {}
             PROVE  \E i \in 0 .. 9 : ~Stopped(i) /\ Guards(i)
  BY TenTasks DEF DangerousWhenPumping, isDangerousTaskRunning, Guards
<1>0. {PRIMING, FILLITK, SAMPLING, DRAINING} \subseteq 0 .. 9
  BY DEF PRIMING, FILLITK, SAMPLING, DRAINING
<1>1. feed => ~Stopped(PRIMING) /\ Guards(PRIMING)
  BY DEF RigInv, Owned, FeedClaimed, Pumping, Stopped
<1>2. "SUPPLYPUMP" \in relay => ~Stopped(FILLITK) /\ Guards(FILLITK)
  BY DEF RigInv, Owned, Claimed
<1>3. "OUTPUTPUMP" \in relay => \E i \in {SAMPLING, DRAINING} : ~Stopped(i) /\ Guards(i)
  BY DEF RigInv, Claimed
<1>. QED
  BY <1>0, <1>1, <1>2, <1>3

(* A pump that may be on belongs to a task that isDangerousTaskRunning     *)
(* finds (_task_cfg.h:78).                                                 *)
THEOREM PumpsAreDangerous == NoResetInPriming => (Spec => []DangerousWhenPumping)
  BY PumpsClaimed, FeedClaimedHolds, RigInvHolds, PTL

(* WIFI is initialised once.                                               *)
WifiOff == task_list[WIFI].state \in {"STARTING", "RUNNING", "READY", "WAITING"}
           /\ (task_list[WIFI].state = "STARTING" => s_wifiState = "OFF")

(* Nobody stops WIFI.                                                      *)
LEMMA WifiOffStep == TypeOK /\ WifiOff /\ [Next]_vars => WifiOff'
<1> SUFFICES ASSUME TypeOK, WifiOff, [Next]_vars
             PROVE  WifiOff'
  OBVIOUS
<1>0. task_list \in Sched!TaskList /\ WIFI \in 0 .. 9
  BY DEF TypeOK, Sched!TypeOK, WIFI
<1>1. CASE NextPass
  BY <1>0, <1>1, PassList DEF NextPass, WifiOff, wifiVars
<1>2. CASE resetting
  <2>1. task_list'[WIFI] = task_list[WIFI]
    BY <1>0, <1>2, ResetList DEF resetting, PRIMING, FILLITK, WIFI
  <2>2. s_wifiState' = s_wifiState
    BY <1>2 DEF resetting, sampling_resetSampler, sampling_resetDone, wifiVars
  <2>. QED
    BY <2>1, <2>2 DEF WifiOff
<1>3. ASSUME NEW i \in 0 .. 9, Runs(i), Effects(i)
      PROVE  WifiOff'
  <2>1. CASE i = WIFI
    BY <1>3, <2>1 DEF Effects, Effect, NextStates, WIFI, FILLITK, WifiOff
  <2>2. CASE i # WIFI
    <3>1. ~wifi
      <4>1. turn' = i
        BY <1>3, CalledIn DEF Effects, Effect
      <4>2. wifi => turn' = WIFI
        BY CalledIn DEF wifi, wifi_init, wifi_pending, wifi_broker, wifi_subscribes, wifi_loses,
           wifi_loops
      <4>. QED
        BY <2>2, <4>1, <4>2
    <3>2. task_list'[WIFI].state = task_list[WIFI].state
      BY <1>0, <1>3, <2>2 DEF Effects, Effect, Reach, Polled, PRIMING, FILLITK, LEAKHANDLER,
         SAMPLING, DRAINING, SENSORS, WIFI
    <3>. QED
      BY <3>1, <3>2, StepFrame DEF Frame, WifiOff
  <2>. QED
    BY <2>1, <2>2
<1>4. CASE UNCHANGED <<schedVars, relayVars>>
  <2>1. wifi => s_wifiState' = s_wifiState \/ task_list'[WIFI].state # "STARTING"
    <3>1. wifi_init => task_list'[WIFI].state = "RUNNING"
      BY <1>0, SystemEffects DEF Effect, NextStates, WIFI, FILLITK
    <3>2. wifi /\ ~wifi_init => task_list[WIFI].state = "RUNNING"
      BY CalledIn DEF wifi, wifi_pending, wifi_broker, wifi_subscribes, wifi_loses, wifi_loops
    <3>. QED
      BY <1>4, <3>1, <3>2 DEF schedVars
  <2>. QED
    BY <1>4, <2>1, StepFrame DEF Frame, WifiOff, schedVars
<1>. QED
  BY <1>0, <1>1, <1>2, <1>3, <1>4, StepEffects

(* WIFI gives up a connection only with the pumps off: what keeps the      *)
(* claims has been shifted out before WIFI is called.                      *)
THEOREM ReconnectsWithPumpsOff == NoResetInPriming => (Spec => RetryWithPumpsOff)
<1> SUFFICES ASSUME NoResetInPriming
             PROVE  Spec => RetryWithPumpsOff
  OBVIOUS
<1>1. Init => WifiOff
  BY TenTasks DEF Init, WifiOff, PRIMING, BTNHANDLER, SHIFTREGISTERHANDLER, IDLE, WIFI
<1>2. RigInv => TypeOK
  BY DEF RigInv
<1>3. RigInv /\ WifiOff /\ FeedClaimed /\ [Next]_vars =>
         [s_wifiState = "CONNECTED" /\ s_wifiState' = "WIFI_PENDING"
            => ~feed /\ out \cap {"SUPPLYPUMP", "OUTPUTPUMP"} = {}]_vars
  <2> SUFFICES ASSUME RigInv, WifiOff, FeedClaimed, [Next]_vars,
                      s_wifiState = "CONNECTED", s_wifiState' = "WIFI_PENDING"
               PROVE  ~feed /\ out \cap {"SUPPLYPUMP", "OUTPUTPUMP"} = {}
    OBVIOUS
  <2>0. TypeOK /\ Order
    BY DEF RigInv
  <2>1. wifi
    BY StepFrame DEF Frame
  <2>2. wifi_loses /\ wifi_retry /\ Calls(WIFI, "RUNNING")
    <3>1. ~wifi_init
      BY CalledIn DEF wifi_init, WifiOff
    <3>. QED
      BY <2>1, <3>1 DEF wifi, wifi_pending, wifi_broker, wifi_subscribes, wifi_loses, wifi_loops,
         wifiVars
  <2>3. ~isDangerousTaskRunning
    BY <2>2 DEF wifi_retry
  <2>4. out = relay /\ booted
    <3>1. SHIFTREGISTERHANDLER <= turn
      BY <2>0, <2>2, Earlier DEF Order, ShiftedOut, SHIFTREGISTERHANDLER, WIFI
    <3>2. turn < WIFI \/ turn = WIFI
      BY <2>2, CalledIn
    <3>3. turn \in 0 .. 10
      BY <2>0, TenTasks DEF TypeOK, Sched!TypeOK
    <3>. QED
      BY <2>0, <3>1, <3>2, <3>3 DEF Order, ShiftedOut, SHIFTREGISTERHANDLER, IDLE, WIFI
  <2>5. hang = "none" /\ DangerousWhenPumping
    BY <2>2, PumpsClaimed, CalledIn
  <2>. QED
    BY <2>3, <2>4, <2>5 DEF DangerousWhenPumping
<1>. QED
  BY <1>1, <1>2, <1>3, WifiOffStep, FeedClaimedHolds, RigInvHolds, PTL DEF Spec, RetryWithPumpsOff

-----------------------------------------------------------------------------
(* Who ends an error: the operator, the reset of the sampler, which only   *)
(* ends its own, and LEAKHANDLER's deinit (leakHandler.h:58).              *)
LEMMA ErrorEnds ==
    ASSUME [Next]_vars, isError, ~isError'
    PROVE  \/ idle_runnable /\ "flick" \in Inputs
           \/ (wifi_subscribes \/ wifi_loops) /\ "clear" \in Inputs
           \/ leakHandler_deinit
           \/ sampling_resetDone
<1>1. WritesError
  BY StepFrame DEF Frame, isError
<1>2. ~priming_waits /\ ~priming_doses /\ ~sampling_sampling /\ ~sensors_runnable
  BY DEF priming_waits, priming_doses, sampling_sampling, InState, sensors_runnable
<1>3. ~leakHandler_runnable
  BY DEF leakHandler_runnable, isError
<1>4. ~fillITK_init /\ ~fillITK_runnable
  BY DEF fillITK_init, Refreshed, fillITK_runnable, isError
<1>5. ~sampling_init
  BY DEF sampling_init, AfterSampler, isError
<1>6. idle_runnable => "flick" \in Inputs
  BY DEF idle_runnable, isError
<1>7. wifi_subscribes \/ wifi_loops => "clear" \in Inputs
  BY DEF wifi_subscribes, wifi_loops, wifi_messageReceived, isError
<1>. QED
  BY <1>1, <1>2, <1>3, <1>4, <1>5, <1>6, <1>7 DEF WritesError

(* An error is ended by the operator, by the end of a leak's alarm or by   *)
(* the recovery from SAMPLERERROR, for all inputs and faults.              *)
THEOREM ErrorsStay == Spec => ErrorHolds
<1>1. RigInv /\ [Next]_vars =>
         [isError /\ ~isError' =>
             \/ turn' = IDLE /\ "flick" \in Inputs
             \/ turn' = WIFI /\ "clear" \in Inputs
             \/ turn' = LEAKHANDLER /\ Stopped(LEAKHANDLER)'
             \/ hang = "reset" /\ error = "SAMPLERERROR"]_vars
  <2> SUFFICES ASSUME RigInv, [Next]_vars, isError, ~isError'
               PROVE  \/ turn' = IDLE /\ "flick" \in Inputs
                      \/ turn' = WIFI /\ "clear" \in Inputs
                      \/ turn' = LEAKHANDLER /\ Stopped(LEAKHANDLER)'
                      \/ hang = "reset" /\ error = "SAMPLERERROR"
    OBVIOUS
  <2>1. CASE idle_runnable /\ "flick" \in Inputs
    BY <2>1, CalledIn DEF idle_runnable
  <2>2. CASE (wifi_subscribes \/ wifi_loops) /\ "clear" \in Inputs
    BY <2>2, CalledIn DEF wifi_subscribes, wifi_loops
  <2>3. CASE leakHandler_deinit
    <3>1. task_list \in Sched!TaskList /\ LEAKHANDLER \in 0 .. 9
      BY DEF RigInv, TypeOK, Sched!TypeOK, LEAKHANDLER
    <3>2. task_list'[LEAKHANDLER] = Held(task_list[LEAKHANDLER], "STOPPED")
      BY <2>3, <3>1, HardList DEF leakHandler_deinit, errorState, AfterError, DrainErrors
    <3>3. Stopped(LEAKHANDLER)'
      BY <3>2 DEF Held, Stopped
    <3>4. turn' = LEAKHANDLER
      BY <2>3, CalledIn DEF leakHandler_deinit
    <3>. QED
      BY <3>3, <3>4
  <2>4. CASE sampling_resetDone
    BY <2>4 DEF sampling_resetDone, RigInv, SamplerFails
  <2>. QED
    BY <2>1, <2>2, <2>3, <2>4, ErrorEnds
<1>. QED
  BY <1>1, RigInvHolds, PTL DEF Spec, ErrorHolds

-----------------------------------------------------------------------------
(* A rig that is left to itself: the operator clears no error, and no      *)
(* leak, whose false alarm clears them, is noticed.                        *)
NobodyClears == Inputs \cap {"clear", "flick"} = {} /\ "LEAK" \notin Faults

Dry == leak.wet = FALSE /\ Stopped(LEAKHANDLER)

(* Nothing wets the sensor, so LEAKHANDLER is never started.               *)
LEMMA DryStep == NobodyClears /\ TypeOK /\ Dry /\ [Next]_vars => Dry'
<1> SUFFICES ASSUME NobodyClears, TypeOK, Dry, [Next]_vars
             PROVE  Dry'
  OBVIOUS
<1>0. task_list \in Sched!TaskList /\ LEAKHANDLER \in (0 .. 9) \ {FILLITK}
  BY DEF TypeOK, Sched!TypeOK, LEAKHANDLER, FILLITK
<1>1. leak' = leak
  <2>1. ~leakHandler_init /\ ~leakHandler_runnable
    BY CalledIn DEF leakHandler_init, leakHandler_runnable, Dry, Stopped
  <2>2. btnHandler_runnable => leak' = leak
    BY DEF btnHandler_runnable, NobodyClears
  <2>. QED
    BY <2>1, <2>2, StepFrame DEF Frame
<1>2. Stopped(LEAKHANDLER)'
  <2>1. \A i \in 0 .. 9 : LEAKHANDLER \notin Reach(i)
    BY DEF Reach, Polled, Commanded, Dry, PRIMING, FILLITK, LEAKHANDLER, SAMPLING, DRAINING,
       SENSORS, BTNHANDLER, WIFI
  <2>. QED
    BY <1>0, <2>1, Begins DEF Dry
<1>. QED
  BY <1>1, <1>2 DEF Dry

(* Then an error ends with the reset of the sampler only.                  *)
LEMMA ErrorStays ==
    ASSUME NobodyClears, Dry, [Next]_vars, isError, ~isError'
    PROVE  sampling_resetDone
<1>1. ~leakHandler_deinit
  BY CalledIn DEF leakHandler_deinit, Dry, Stopped
<1>. QED
  BY <1>1, ErrorEnds DEF NobodyClears

(* So the rig stays dry.                                                   *)
LEMMA DryHolds == NobodyClears => (Spec => []Dry)
<1> SUFFICES ASSUME NobodyClears
             PROVE  Spec => []Dry
  OBVIOUS
<1>1. Init => Dry
  BY TenTasks DEF Init, Dry, Stopped, LEAKHANDLER, BTNHANDLER, SHIFTREGISTERHANDLER, IDLE, WIFI
<1>2. RigInv /\ Dry /\ [Next]_vars => Dry'
  BY DryStep DEF RigInv
<1>. QED
  BY <1>1, <1>2, RigInvHolds, PTL DEF Spec

(* SENSORS watches the pressures from the start of a priming on.           *)
Watching == Sched!active(task_list, SENSORS)

(* The sampler is reset in a run of SAMPLING.                              *)
ResetInRun == hang = "reset" => task_list[SAMPLING].state = "RUNNING"

(* Nothing is called while the processor hangs, so the state of SAMPLING   *)
(* stays.                                                                  *)
LEMMA ResetInRunStep == TypeOK /\ ResetInRun /\ [Next]_vars => ResetInRun'
<1> SUFFICES ASSUME TypeOK, ResetInRun, [Next]_vars, hang' = "reset"
             PROVE  task_list'[SAMPLING].state = "RUNNING"
  BY DEF ResetInRun
<1>0. task_list \in Sched!TaskList /\ SAMPLING \in 0 .. 9
  BY DEF TypeOK, Sched!TypeOK, SAMPLING
<1>1. CASE sampling_resetSampler
  <2>1. task_list'[SAMPLING] = task_list[SAMPLING]
    BY <1>0, <1>1, ResetList DEF PRIMING, FILLITK, SAMPLING
  <2>. QED
    BY <1>1, <2>1, CalledIn DEF sampling_resetSampler
<1>2. CASE ~sampling_resetSampler
  <2>1. hang = "reset"
    BY <1>2, StepFrame DEF Frame, HangEnds, resetting, sampling_resetDone, sampling_sampling,
       wifi_pending, wifi_broker, brokerConnectionAttempt, wifi_retry
  <2>2. ~sampling_resetDone
    BY DEF sampling_resetDone
  <2>3. ~NextPass
    BY <2>1 DEF NextPass
  <2>4. \A i \in 0 .. 9 : ~Effects(i)
    BY <2>1 DEF Effects, Effect, Calls
  <2>5. UNCHANGED schedVars
    BY <1>0, <1>2, <2>2, <2>3, <2>4, StepEffects DEF resetting
  <2>. QED
    BY <2>1, <2>5 DEF ResetInRun, schedVars
<1>. QED
  BY <1>1, <1>2

(* So ResetInRun holds in every state.                                     *)
LEMMA ResetInRunHolds == Spec => []ResetInRun
<1>1. Init => ResetInRun
  BY DEF Init, ResetInRun
<1>2. RigInv /\ ResetInRun /\ [Next]_vars => ResetInRun'
  BY ResetInRunStep DEF RigInv
<1>. QED
  BY <1>1, <1>2, RigInvHolds, PTL DEF Spec

(* The start of a priming starts SENSORS.                                  *)
LEMMA PrimingWatches ==
    ASSUME task_list \in Sched!TaskList, priming_starts
    PROVE  Watching'
<1> USE DEF PRIMING, DRAINING, SENSORS
<1> DEFINE watched == start(task_list, SENSORS)
           list == guard(watched, PRIMING)
<1>1. watched \in Sched!TaskList /\ watched[SENSORS] = Started(task_list[SENSORS])
  BY StartList
<1> HIDE DEF watched
<1>2. list \in Sched!TaskList /\ list[SENSORS] = Started(task_list[SENSORS])
  BY <1>1, AllowList
<1> HIDE DEF list
<1>3. stop(list, DRAINING)[SENSORS] = Started(task_list[SENSORS])
  BY <1>2, StopList
<1>4. task_list' = stop(list, DRAINING)
  BY DEF priming_starts, priming_startPriming, list, watched, guard, allow, Sched!allow
<1>5. \A t \in Sched!TaskRecord : Started(t).state \in {"STARTING", "RUNNING", "READY", "WAITING"}
  BY DEF Started, Sched!TaskRecord, Sched!State
<1>6. task_list[SENSORS] \in Sched!TaskRecord
  BY TenTasks DEF Sched!TaskList
<1>. QED
  BY <1>3, <1>4, <1>5, <1>6 DEF Watching, Sched!active

(* SENSORS stays, as long as PRIMING does and there is no error.           *)
LEMMA WatchingStep ==
    ASSUME TypeOK, [Next]_vars, Watching, ~isError, ~Stopped(PRIMING)
    PROVE  Watching'
<1>0. task_list \in Sched!TaskList /\ SENSORS \in 0 .. 9 /\ SENSORS # DRAINING
  BY DEF TypeOK, Sched!TypeOK, SENSORS, DRAINING
<1>1. CASE NextPass
  BY <1>0, <1>1, PassList DEF NextPass, Watching, Sched!active
<1>2. CASE resetting
  BY <1>0, <1>2, ResetList DEF resetting, Watching, Sched!active, SENSORS, PRIMING, FILLITK
<1>3. CASE UNCHANGED <<schedVars, relayVars>>
  BY <1>3 DEF schedVars, Watching, Sched!active
<1>4. ASSUME NEW i \in 0 .. 9, Runs(i), Effects(i)
      PROVE  Watching'
  <2>1. CASE i # SENSORS
    BY <1>0, <1>4, <2>1 DEF Effects, Effect, Watching, Sched!active
  <2>2. CASE i = SENSORS
    <3>1. sensors
      BY <1>4, <2>2 DEF Runs, PRIMING, FILLITK, LEAKHANDLER, SAMPLING, DRAINING, SENSORS, BTNHANDLER,
         SHIFTREGISTERHANDLER, IDLE, WIFI
    <3>2. CASE sensors_init
      BY <1>0, <3>2, SensorsEffects DEF Effect, NextStates, Watching, Sched!active, SENSORS, FILLITK
    <3>3. CASE sensors_runnable
      <4>1. PICK e : task_list' \in {task_list, AfterError(e, task_list)}
        BY <3>3 DEF sensors_runnable
      <4>2. task_list'[SENSORS] = task_list[SENSORS]
        BY <1>0, <4>1, ErrorList
      <4>. QED
        BY <4>2 DEF Watching, Sched!active
    <3>4. ~sensors_stops /\ ~sensors_deinit
      BY CalledIn DEF sensors_stops, sensors_deinit, Watching, Sched!active
    <3>. QED
      BY <3>1, <3>2, <3>3, <3>4 DEF sensors
  <2>. QED
    BY <2>1, <2>2
<1>. QED
  BY <1>0, <1>1, <1>2, <1>3, <1>4, StepEffects

Monitored == Pumping /\ ~isError => Watching

(* The reset of the sampler does not end while PRIMING pumps.              *)
LEMMA NoResetDone ==
    ASSUME NoResetInPriming, RigInv, "sample" \notin Inputs => Excludes, ResetInRun, Pumping
    PROVE  ~sampling_resetDone
<1> SUFFICES ASSUME hang = "reset"
             PROVE  FALSE
  BY DEF sampling_resetDone
<1>1. error = "SAMPLERERROR" /\ "SAMPLERERROR" \in Faults /\ turn = SAMPLING
  BY DEF RigInv, SamplerFails
<1>2. task_list[SAMPLING].state = "RUNNING" /\ Excludes
  BY <1>1 DEF ResetInRun, NoResetInPriming
<1>3. task_list[PRIMING].state # "STOPPING"
  BY <1>1 DEF RigInv, Order, StopsAtOnce, PRIMING, SAMPLING
<1>4. task_list[PRIMING] \in Sched!TaskRecord
  BY TenTasks DEF RigInv, TypeOK, Sched!TypeOK, Sched!TaskList, PRIMING
<1>. QED
  BY <1>2, <1>3, <1>4 DEF Pumping, Excludes, Initialised, Stopped, Sched!TaskRecord, Sched!State

(* Every step keeps Monitored.                                             *)
LEMMA MonitoredStep ==
    ASSUME NobodyClears, NoResetInPriming, RigInv, "sample" \notin Inputs => Excludes,
           ResetInRun, Dry, Monitored, [Next]_vars
    PROVE  Monitored'
<1> SUFFICES ASSUME Pumping', ~isError'
             PROVE  Watching'
  BY DEF Monitored
<1>0. TypeOK /\ Harmless /\ Order /\ SamplerFails /\ task_list \in Sched!TaskList
  BY DEF RigInv, TypeOK, Sched!TypeOK
<1>1. CASE Pumping
  <2>1. ~isError
    BY <1>1, ErrorStays, NoResetDone
  <2>2. Watching /\ ~Stopped(PRIMING)
    BY <1>1, <2>1 DEF Monitored, Pumping, Stopped
  <2>. QED
    BY <1>0, <2>1, <2>2, WatchingStep
<1>2. CASE ~Pumping
  BY <1>0, <1>2, PumpingBegins, PrimingWatches
<1>. QED
  BY <1>1, <1>2

(* While the bottle is filled the pressures are watched: SENSORS is not    *)
(* stopped before PRIMING or an error is (sensors.h, priming.h).           *)
THEOREM FillingIsMonitored ==
    NobodyClears /\ NoResetInPriming => (Spec => []MonitoredPriming)
<1> SUFFICES ASSUME NobodyClears, NoResetInPriming
             PROVE  Spec => []MonitoredPriming
  OBVIOUS
<1>1. Init => Monitored
  <2>1. Init => priming_state = "WAITING"
    BY DEF Init
  <2>. QED
    BY <2>1 DEF Monitored, Pumping
<1>2. Spec => []Monitored
  <2>1. CASE "sample" \notin Inputs
    <3>1. RigInv /\ Excludes /\ ResetInRun /\ Dry /\ Monitored /\ [Next]_vars => Monitored'
      BY MonitoredStep
    <3>2. Spec => []Excludes
      BY <2>1, ExcludesHolds
    <3>3. Spec => []Dry
      BY DryHolds
    <3>. QED
      BY <1>1, <3>1, <3>2, <3>3, ResetInRunHolds, RigInvHolds, PTL DEF Spec
  <2>2. CASE "sample" \in Inputs
    <3>1. RigInv /\ ResetInRun /\ Dry /\ Monitored /\ [Next]_vars => Monitored'
      BY <2>2, MonitoredStep
    <3>2. Spec => []Dry
      BY DryHolds
    <3>. QED
      BY <1>1, <3>1, <3>2, ResetInRunHolds, RigInvHolds, PTL DEF Spec
  <2>. QED
    BY <2>1, <2>2
<1>3. RigInv /\ Monitored => MonitoredPriming
  BY DEF RigInv, Owned, Monitored, Watching, Sched!active, MonitoredPriming, Stopped
<1>. QED
  BY <1>2, <1>3, RigInvHolds, PTL

-----------------------------------------------------------------------------
(* The drain at the end of a sampling.  PumpOff: who turns the output pump *)
(* off.                                                                    *)
LEMMA PumpOff ==
    ASSUME RestTypeOK, [Next]_vars, "OUTPUTPUMP" \in relay, "OUTPUTPUMP" \notin relay'
    PROVE  \/ sampling_resetSampler \/ sampling_CLEARSAMPLERLINES \/ sampling_DRAINING2
           \/ sampling_deinit \/ draining_deinit \/ shiftRegisterHandler_init
<1>1. ~priming_doses /\ ~priming_deinit /\ ~fillITK_init /\ ~fillITK_deinit
  BY DEF priming_doses, priming_deinit, Closed, fillITK_init, fillITK_deinit, turnOn, turnOff
<1>2. ~sampling_DRAINING /\ ~sampling_CLEARSAMPLERWASTE /\ ~sampling_skips
  BY DEF sampling_DRAINING, sampling_CLEARSAMPLERWASTE, sampling_skips, PumpOn, turnOn, turnOff
<1>3. ~sampling_sampling
  <2>1. samplling_sampleState \in 0 .. 4
    BY DEF RestTypeOK
  <2>. QED
    BY <2>1, SampleRelaysBounds DEF sampling_sampling
<1>4. ~draining_init /\ ~draining_runnable
  BY DEF draining_init, draining_runnable
<1>. QED
  BY <1>1, <1>2, <1>3, <1>4, StepFrame DEF Frame, WritesRelay, draining

(* The pump is on in the last two states, and once the relay word has been *)
(* shifted out, so is its relay.                                           *)
BeforeSampling == turn < SAMPLING \/ (turn = SAMPLING /\ check < 2)

Pump ==
    Initialised(SAMPLING) /\ sampling_state \in {"DRAINING1", "DRAINING2"} =>
        /\ "OUTPUTPUMP" \in relay
        /\ sampling_state = "DRAINING2" \/ turn >= SHIFTREGISTERHANDLER \/ BeforeSampling
              => "OUTPUTPUMP" \in out

(* Every step keeps Pump.                                                  *)
LEMMA PumpStep ==
    ASSUME "SAMPLERERROR" \notin Faults, RigInv, Stopped(DRAINING), Pump, [Next]_vars
    PROVE  Pump'
<1>0. /\ TypeOK /\ Harmless /\ Order /\ SamplerFails /\ RestTypeOK
      /\ task_list \in Sched!TaskList /\ turn \in 0 .. 10 /\ check \in 0 .. 3
  BY TypeParts, TenTasks DEF RigInv, Sched!TypeOK
<1> SUFFICES ASSUME Initialised(SAMPLING)', sampling_state' \in {"DRAINING1", "DRAINING2"}
             PROVE  /\ "OUTPUTPUMP" \in relay'
                    /\ sampling_state' = "DRAINING2" \/ turn' >= 7 \/ BeforeSampling'
                          => "OUTPUTPUMP" \in out'
  BY DEF Pump, SHIFTREGISTERHANDLER
<1>1. Initialised(SAMPLING) /\ ~sampling_init
  BY <1>0, OwnInits DEF sampling_init
<1>2. ~resetting
  BY <1>0 DEF resetting, sampling_resetSampler, sampling_resetDone, SamplerFails
<1>3. Calls(SAMPLING, "RUNNING") => BeforeSampling
  BY <1>0, CallsOf DEF Sched!Calls, Sched!Due, Sched!Later, BeforeSampling, SAMPLING
<1>4. CASE sampling_state \in {"DRAINING1", "DRAINING2"}
  <2>1. "OUTPUTPUMP" \in relay
    BY <1>1, <1>4 DEF Pump
  <2>2. "OUTPUTPUMP" \in relay'
    <3>1. ~sampling_resetSampler
      BY <1>2 DEF resetting
    <3>2. ~sampling_CLEARSAMPLERLINES
      BY <1>4 DEF sampling_CLEARSAMPLERLINES, InState
    <3>3. ~sampling_DRAINING2
      <4>1. \A t \in Sched!TaskRecord : t.state = "RUNNING" => Stopping(SAMPLING, t).state = "STOPPING"
        BY DEF Stopping, Sched!TaskRecord
      <4>2. task_list[SAMPLING] \in Sched!TaskRecord
        BY <1>0, TenTasks DEF Sched!TaskList, SAMPLING
      <4>3. sampling_DRAINING2 => task_list[SAMPLING].state = "RUNNING"
        BY CalledIn DEF sampling_DRAINING2, InState
      <4>4. sampling_DRAINING2 => task_list'[SAMPLING] = Stopping(SAMPLING, task_list[SAMPLING])
        BY <1>0, SamplingEdits DEF Edits
      <4>. QED
        BY <4>1, <4>2, <4>3, <4>4 DEF Initialised
    <3>4. ~sampling_deinit /\ ~draining_deinit
      BY <1>1, CalledIn DEF sampling_deinit, draining_deinit, Initialised, Stopped
    <3>5. ~shiftRegisterHandler_init
      BY <1>0, <1>1, CalledIn DEF shiftRegisterHandler_init, Order, NothingBefore, booted,
         Initialised, Stopped
    <3>. QED
      BY <1>0, <2>1, <3>1, <3>2, <3>3, <3>4, <3>5, PumpOff
  <2>3. ASSUME sampling_state' = "DRAINING2" \/ turn' >= 7 \/ BeforeSampling'
        PROVE  "OUTPUTPUMP" \in out'
    <3>1. ShiftedOut' /\ turn' \in 0 .. 10
      BY <1>0, ShiftedOutStep, TypeStep, TenTasks DEF Order, TypeOK, Sched!TypeOK
    <3>2. CASE turn' \in {7, 8, 9}
      BY <2>2, <3>1, <3>2 DEF ShiftedOut, SHIFTREGISTERHANDLER, IDLE, WIFI
    <3>3. ASSUME turn' \notin {7, 8, 9}
          PROVE  sampling_state = "DRAINING2" \/ turn >= 7 \/ BeforeSampling
      <4>1. CASE sampling_state' # sampling_state
        BY <1>1, <1>3, <1>4, <4>1, StepFrame DEF Frame, WritesSamplingState,
           sampling_drainingPending, sampling_DRAINING, sampling_CLEARSAMPLERLINES,
           sampling_CLEARSAMPLERWASTE, sampling_skips, sampling_sampling, sampling_DRAINING1, InState
      <4>2. ASSUME sampling_state' = sampling_state, sampling_state' = "DRAINING1"
            PROVE  turn >= 7 \/ BeforeSampling
        <5>1. CASE NextPass
          <6>1. ~(turn < 7)
            BY <1>0, <5>1, TenTasks DEF NextPass, Sched!NextPass, Sched!PassOver, Sched!Due,
               Sched!Later, Sched!Checks, Order, ShiftedOut, SHIFTREGISTERHANDLER
          <6>. QED
            BY <1>0, <6>1
        <5>2. CASE UNCHANGED <<schedVars, relayVars>>
          BY <2>3, <4>2, <5>2 DEF schedVars, BeforeSampling
        <5>3. ASSUME NEW i \in 0 .. 9, NEW s \in {"STARTING", "RUNNING", "STOPPING"}, Effect(i, s)
              PROVE  BeforeSampling
          <6>1. /\ turn' = i /\ (turn < i \/ turn = i) /\ task_list[i].state = s
                /\ check' = (IF s = "STARTING" THEN 1 ELSE IF s = "RUNNING" THEN 2 ELSE 3)
            BY <5>3, CalledIn DEF Effect
          <6>2. CASE i < 3
            BY <1>0, <6>1, <6>2 DEF BeforeSampling, SAMPLING
          <6>3. i = 3 => s # "STARTING"
            BY <1>1, <6>1 DEF Initialised, SAMPLING
          <6>4. i = 3 => ~BeforeSampling'
            BY <6>1, <6>3 DEF BeforeSampling, SAMPLING
          <6>. QED
            BY <2>3, <3>3, <4>2, <6>1, <6>2, <6>4 DEF BeforeSampling, SAMPLING
        <5>. QED
          BY <1>0, <1>2, <5>1, <5>2, <5>3, StepEffects DEF Effects
      <4>. QED
        BY <4>1, <4>2
    <3>4. CASE turn' \notin {7, 8, 9}
      <4>1. ~shiftRegisterHandler
        <5>1. shiftRegisterHandler => turn' = SHIFTREGISTERHANDLER
          BY CalledIn DEF shiftRegisterHandler, shiftRegisterHandler_init,
             shiftRegisterHandler_runnable
        <5>. QED
          BY <3>4, <5>1 DEF SHIFTREGISTERHANDLER
      <4>2. "OUTPUTPUMP" \in out
        BY <1>1, <1>4, <3>3, <3>4 DEF Pump, SHIFTREGISTERHANDLER
      <4>. QED
        BY <4>1, <4>2, StepFrame DEF Frame
    <3>. QED
      BY <3>2, <3>4
  <2>. QED
    BY <2>2, <2>3
<1>5. CASE sampling_state \notin {"DRAINING1", "DRAINING2"}
  <2>1. sampling_skips \/ (sampling_sampling /\ sampling_state' = "DRAINING1")
    BY <1>1, <1>5, StepFrame DEF Frame, WritesSamplingState, sampling_drainingPending,
       sampling_DRAINING, sampling_CLEARSAMPLERLINES, sampling_CLEARSAMPLERWASTE, sampling_sampling,
       sampling_DRAINING1, InState
  <2>2. "OUTPUTPUMP" \in relay'
    <3>1. sampling_skips => "OUTPUTPUMP" \in relay'
      BY DEF sampling_skips, PumpOn
    <3>2. sampling_sampling /\ sampling_state' = "DRAINING1" => "OUTPUTPUMP" \in relay'
      BY SampleRelaysBounds DEF sampling_sampling
    <3>. QED
      BY <2>1, <3>1, <3>2
  <2>3. sampling_state' = "DRAINING1" /\ turn' = 3 /\ check' = 2
    BY <2>1, CalledIn DEF sampling_skips, sampling_sampling, InState, SAMPLING
  <2>. QED
    BY <2>2, <2>3 DEF BeforeSampling, SAMPLING
<1>. QED
  BY <1>4, <1>5

(* Who starts DRAINING: the operator, or an error.                         *)
LEMMA DrainingBegins ==
    ASSUME "drain" \notin Inputs, task_list \in Sched!TaskList, [Next]_vars,
           Stopped(DRAINING), ~Stopped(DRAINING)'
    PROVE  isError' /\ Faults \cap DrainErrors # {}
<1>0. DRAINING \in (0 .. 9) \ {FILLITK} /\ DRAINING \in 0 .. 9 /\ DRAINING \notin {PRIMING, SENSORS}
  BY DEF PRIMING, FILLITK, DRAINING, SENSORS
<1>1. task_list'[DRAINING] # task_list[DRAINING]
  BY DEF Stopped
<1>2. PICK i \in 0 .. 9 : Runs(i) /\ DRAINING \in Reach(i)
  BY <1>0, Begins
<1>3. priming \/ fillITK \/ sensors
  BY <1>2 DEF Runs, Reach, Polled, Commanded, PRIMING, FILLITK, LEAKHANDLER, SAMPLING, DRAINING,
     SENSORS, BTNHANDLER, SHIFTREGISTERHANDLER, IDLE, WIFI
<1>4. CASE priming_waits \/ priming_doses
  <2>1. PICK h \in AfterHead : /\ error' \in {h[1], "FINISHED"}
                               /\ task_list' = h[2]
    BY <1>4 DEF priming_waits, priming_doses, errorState, AfterError, DrainErrors
  <2>2. h[1] \in PWMErrors
    BY <1>0, <1>1, <2>1, HeadList
  <2>. QED
    BY <2>1, <2>2 DEF PWMErrors, DrainErrors, isError
<1>5. ~priming_starts
  <2> DEFINE watched == start(task_list, SENSORS)
             list == guard(watched, PRIMING)
  <2> USE DEF PRIMING, DRAINING, SENSORS
  <2>1. watched \in Sched!TaskList /\ watched[DRAINING] = task_list[DRAINING]
    BY StartList
  <2> HIDE DEF watched
  <2>2. list \in Sched!TaskList /\ list[DRAINING] = task_list[DRAINING]
    BY <2>1, AllowList
  <2> HIDE DEF list
  <2>3. stop(list, DRAINING)[DRAINING] = list[DRAINING]
    BY <2>2 DEF stop, Sched!stop, Stopped
  <2>4. priming_starts => task_list' = stop(list, DRAINING)
    BY DEF priming_starts, priming_startPriming, list, watched, guard, allow, Sched!allow
  <2>. QED
    BY <1>1, <2>2, <2>3, <2>4
<1>6. ~priming_init /\ ~priming_stops /\ ~priming_deinit
  BY <1>0, <1>1, PrimingEdits DEF Edits
<1>7. CASE fillITK
  <2>1. fillITK_runnable
    BY <1>0, <1>1, <1>7, FillEdits DEF fillITK, Edits, FILLITK
  <2>2. ASSUME error' # "FAILTOFILL" \/ "FAILTOFILL" \notin Faults
        PROVE  task_list' \in {task_list, stop(task_list, FILLITK),
                               start(stop(task_list, FILLITK), PRIMING)}
    BY <2>1, <2>2 DEF fillITK_runnable
  <2>3. /\ stop(task_list, FILLITK) \in Sched!TaskList
        /\ stop(task_list, FILLITK)[DRAINING] = task_list[DRAINING]
    BY <1>0, StopList DEF FILLITK, DRAINING
  <2>4. start(stop(task_list, FILLITK), PRIMING)[DRAINING] = task_list[DRAINING]
    BY <1>0, <2>3, StartList DEF PRIMING, DRAINING
  <2>. QED
    BY <1>1, <2>2, <2>3, <2>4 DEF isError, DrainErrors
<1>8. CASE sensors
  <2>1. sensors_runnable
    BY <1>0, <1>1, <1>8, SensorsEdits DEF sensors, Edits
  <2>2. error' = error => task_list' \in {task_list, stop(task_list, SENSORS)}
    BY <2>1 DEF sensors_runnable
  <2>3. stop(task_list, SENSORS)[DRAINING] = task_list[DRAINING]
    BY <1>0, StopList DEF SENSORS, DRAINING
  <2>4. error' \in PressureErrors
    BY <1>1, <2>1, <2>2, <2>3 DEF sensors_runnable
  <2>. QED
    BY <2>4 DEF PressureErrors, DrainErrors, isError
<1>. QED
  BY <1>3, <1>4, <1>5, <1>6, <1>7, <1>8 DEF priming

(* When neither an error nor the operator starts DRAINING and the sampler  *)
(* answers.                                                                *)
NoDraining == "drain" \notin Inputs /\ (DrainErrors \cup {"SAMPLERERROR"}) \cap Faults = {}

(* A sampling ends with the output pump on: SAMPLING and DRAINING share    *)
(* it, and no other task turns it off (sampling.h:145).                    *)
THEOREM SamplingDrains == NoDraining => (Spec => []FinishesDraining)
<1> SUFFICES ASSUME NoDraining
             PROVE  Spec => []FinishesDraining
  OBVIOUS
<1>1. Init => Stopped(DRAINING) /\ Pump
  BY TenTasks DEF Init, Stopped, Pump, Initialised, SAMPLING, DRAINING, BTNHANDLER,
     SHIFTREGISTERHANDLER, IDLE, WIFI
<1>2. RigInv /\ Stopped(DRAINING) /\ Pump /\ [Next]_vars => Stopped(DRAINING)' /\ Pump'
  BY DrainingBegins, PumpStep DEF RigInv, TypeOK, Sched!TypeOK, NoDraining
<1>3. Pump => FinishesDraining
  BY DEF Pump, FinishesDraining, Initialised
<1>. QED
  BY <1>1, <1>2, <1>3, RigInvHolds, PTL DEF Spec

-----------------------------------------------------------------------------
(* The bottle.  Whoever stops pumping into it hands it on to SAMPLING.     *)
Sampled == Sched!active(task_list, SAMPLING)

HandedOn ==
    ~isError =>
        /\ Stopped(DRAINING) /\ Pump
        /\ bottle = "full" => Pumping \/ Sampled
        /\ task_list[PRIMING].state = "STOPPING" => Sampled

(* The operator leaves the cycle to itself, and the sampler answers.       *)
LeftAlone == NobodyClears /\ "drain" \notin Inputs /\ "SAMPLERERROR" \notin Faults

(* The end of a priming starts SAMPLING, unless there is an error.         *)
LEMMA PrimingHandsOn ==
    ASSUME RigInv, [Next]_vars, ~isError, ~isError', task_list'[PRIMING].state = "STOPPING",
           ~UNCHANGED schedVars
    PROVE  Sampled'
<1>0. TypeOK /\ Order /\ SamplerFails /\ task_list \in Sched!TaskList
  BY DEF RigInv, TypeOK, Sched!TypeOK
<1>1. ~priming_stops
  BY DEF priming_stops
<1>2. ~priming_starts
  <2>1. priming_starts => Guarding(task_list[PRIMING]).state = "RUNNING"
    BY <1>0, OwnStates, CalledIn DEF priming_starts, PRIMING
  <2>2. priming_starts => task_list'[PRIMING] = Guarding(task_list[PRIMING])
    BY <1>0, PrimingEdits DEF Edits
  <2>. QED
    BY <2>1, <2>2
<1>3. priming_waits \/ priming_doses
  BY <1>0, <1>1, <1>2, PrimingStops
<1>4. PICK h \in AfterHead : task_list' = h[2]
  BY <1>3 DEF priming_waits, priming_doses, errorState, AfterError, DrainErrors
<1>5. task_list[PRIMING].state = "RUNNING"
  BY <1>3, CalledIn DEF priming_waits, priming_doses
<1>6. task_list'[SAMPLING] = Started(task_list[SAMPLING])
  BY <1>0, <1>4, <1>5, HeadList
<1>7. \A t \in Sched!TaskRecord : Started(t).state \in {"STARTING", "RUNNING", "READY", "WAITING"}
  BY DEF Started, Sched!TaskRecord, Sched!State
<1>8. task_list[SAMPLING] \in Sched!TaskRecord
  BY <1>0, TenTasks DEF Sched!TaskList, SAMPLING
<1>. QED
  BY <1>6, <1>7, <1>8 DEF Sampled, Sched!active

(* SAMPLING stops by itself with the bottle empty, or upon an error.       *)
LEMMA SampledStep ==
    ASSUME RigInv, "SAMPLERERROR" \notin Faults, [Next]_vars, ~isError, Pump, Sampled
    PROVE  Sampled' \/ bottle' = "empty"
<1>0. /\ TypeOK /\ SamplerFails /\ task_list \in Sched!TaskList
      /\ SAMPLING \in 0 .. 9 /\ SAMPLING # DRAINING
  BY DEF RigInv, TypeOK, Sched!TypeOK, SAMPLING, DRAINING
<1>1. CASE NextPass
  BY <1>0, <1>1, PassList DEF NextPass, Sampled, Sched!active
<1>2. ~resetting
  BY <1>0 DEF resetting, sampling_resetSampler, sampling_resetDone, SamplerFails
<1>3. CASE UNCHANGED <<schedVars, relayVars>>
  BY <1>3 DEF schedVars, Sampled, Sched!active
<1>4. ASSUME NEW i \in 0 .. 9, Runs(i), Effects(i)
      PROVE  Sampled' \/ bottle' = "empty"
  <2>1. CASE i # SAMPLING
    BY <1>0, <1>4, <2>1 DEF Effects, Effect, Sampled, Sched!active
  <2>2. CASE i = SAMPLING
    <3>1. sampling
      BY <1>4, <2>2 DEF Runs, PRIMING, FILLITK, LEAKHANDLER, SAMPLING, DRAINING, SENSORS,
         BTNHANDLER, SHIFTREGISTERHANDLER, IDLE, WIFI
    <3>2. ~sampling_stops /\ ~sampling_deinit
      BY CalledIn DEF sampling_stops, sampling_deinit, Sampled, Sched!active
    <3>3. CASE sampling_DRAINING2
      <4>1. Initialised(SAMPLING) /\ sampling_state = "DRAINING2"
        BY <3>3, CalledIn DEF sampling_DRAINING2, InState, Initialised
      <4>2. "OUTPUTPUMP" \in out
        BY <4>1 DEF Pump
      <4>. QED
        BY <3>3, <4>2 DEF sampling_DRAINING2
    <3>4. CASE sampling_init
      BY <1>0, <3>4, SamplingEffects DEF Effect, NextStates, Sampled, Sched!active, SAMPLING, FILLITK,
         BTNHANDLER, SHIFTREGISTERHANDLER, IDLE, WIFI
    <3>5. CASE sampling_drainingPending \/ sampling_silent
      <4>1. task_list'[SAMPLING] \in {task_list[SAMPLING], Guarding(task_list[SAMPLING])}
        BY <1>0, <3>5, SamplingEdits DEF Edits
      <4>2. Guarding(task_list[SAMPLING]).state = task_list[SAMPLING].state
        BY <1>0, OwnStates
      <4>. QED
        BY <4>1, <4>2 DEF Sampled, Sched!active
    <3>. QED
      BY <1>2, <3>1, <3>2, <3>3, <3>4, <3>5
         DEF sampling, sampling_runnable, sampling_silent, resetting
  <2>. QED
    BY <2>1, <2>2
<1>. QED
  BY <1>0, <1>1, <1>2, <1>3, <1>4, StepEffects

(* Every step keeps HandedOn.                                              *)
LEMMA HandedOnStep ==
    ASSUME LeftAlone, RigInv, Dry, HandedOn, [Next]_vars
    PROVE  HandedOn'
<1>0. /\ TypeOK /\ Harmless /\ Order /\ SamplerFails /\ task_list \in Sched!TaskList /\ RestTypeOK
  BY TypeParts DEF RigInv, Sched!TypeOK
<1> SUFFICES ASSUME ~isError'
             PROVE  /\ Stopped(DRAINING)' /\ Pump'
                    /\ bottle' = "full" => Pumping' \/ Sampled'
                    /\ task_list'[PRIMING].state = "STOPPING" => Sampled'
  BY DEF HandedOn
<1>1. ~isError
  <2>1. ~sampling_resetDone
    BY <1>0 DEF sampling_resetDone, SamplerFails, LeftAlone
  <2>. QED
    BY <2>1, ErrorStays DEF LeftAlone
<1>2. Stopped(DRAINING) /\ Pump
  BY <1>1 DEF HandedOn
<1>3. Stopped(DRAINING)' /\ Pump'
  BY <1>0, <1>2, DrainingBegins, PumpStep DEF LeftAlone
<1>4. task_list'[PRIMING].state = "STOPPING" => Sampled'
  <2>1. CASE UNCHANGED schedVars
    BY <1>1, <2>1 DEF HandedOn, schedVars, Sampled, Sched!active
  <2>. QED
    BY <1>1, <2>1, PrimingHandsOn
<1>5. ASSUME bottle' = "full"
      PROVE  Pumping' \/ Sampled'
  <2>1. CASE priming_doses
    BY <1>0, <2>1, PumpingStep DEF Order
  <2>2. CASE bottle = "full" /\ Sampled
    BY <1>1, <1>2, <1>5, <2>2, SampledStep DEF LeftAlone
  <2>3. CASE Pumping /\ ~priming_deinit
    BY <1>0, <2>3, PumpingStep DEF Order
  <2>4. CASE priming_deinit
    <3>1. Sampled
      BY <1>1, <2>4, CalledIn DEF HandedOn, priming_deinit
    <3>. QED
      BY <1>1, <1>2, <1>5, <3>1, SampledStep DEF LeftAlone
  <2>5. bottle = "full" \/ priming_doses
    BY <1>0, <1>5, StepFrame DEF Frame, sampling_DRAINING2, draining_runnable, RestTypeOK
  <2>. QED
    BY <1>1, <2>1, <2>2, <2>3, <2>4, <2>5 DEF HandedOn
<1>. QED
  BY <1>3, <1>4, <1>5

(* The bottle is never filled twice: no priming starts before the bottle   *)
(* has been drained (priming.h:126).                                       *)
THEOREM NeverFilledTwice == LeftAlone => (Spec => NoOverfill)
<1> SUFFICES ASSUME LeftAlone
             PROVE  Spec => NoOverfill
  OBVIOUS
<1>1. Init => HandedOn
  BY TenTasks DEF Init, HandedOn, Stopped, Pump, Initialised, PRIMING, SAMPLING, DRAINING,
     BTNHANDLER, SHIFTREGISTERHANDLER, IDLE, WIFI
<1>2. RigInv /\ Dry /\ HandedOn /\ [Next]_vars => HandedOn'
  BY HandedOnStep
<1>3. Spec => []Dry
  BY DryHolds DEF LeftAlone
<1>4. RigInv /\ HandedOn /\ [Next]_vars =>
         [priming_hasStarted' /\ ~priming_hasStarted => bottle = "empty"]_vars
  <2> SUFFICES ASSUME RigInv, HandedOn, [Next]_vars, priming_hasStarted', ~priming_hasStarted
               PROVE  bottle = "empty"
    OBVIOUS
  <2>1. priming_starts
    BY StepFrame DEF Frame, priming_deinit, sampling_resetSampler
  <2>2. ~Pumping /\ ~Sampled /\ ~isError
    BY <2>1 DEF priming_starts, readyToPrime, Pumping, Sampled, Sched!active, Stopped
  <2>3. bottle \in {"empty", "full"}
    BY DEF RigInv, TypeOK
  <2>. QED
    BY <2>2, <2>3 DEF HandedOn
<1>. QED
  BY <1>1, <1>2, <1>3, <1>4, RigInvHolds, PTL DEF Spec, NoOverfill

=============================================================================
