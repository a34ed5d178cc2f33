------------------------------ MODULE Priming ------------------------------
(***************************************************************************)
(* The task PRIMING (lib/tasks/priming.h): waits for the stagnation time,  *)
(* then pumps the tank into the bottle in doses, and ends when the tank's  *)
(* low level sensor stays dry or after 80 seconds.                         *)
(*                                                                         *)
(* The valve sequence of a dose is one state here ("DOSING", the states    *)
(* OPEN1 to DOSINGFINISHED), and the counters of bottles and batches only  *)
(* decide between waiting, starting and FINISHED.                          *)
(***************************************************************************)
EXTENDS RigState

priming_init ==
    /\ Calls(PRIMING, "STARTING")
    /\ priming_state' = "WAITING"
    /\ task_list' = hardStart(task_list, PRIMING)
    /\ UNCHANGED <<error, paused, relayVars, priming_hasStarted, samplingVars,
                   leak, waterVars, wifiVars, hang>>

(* The condition at the head of priming_runnable, and what its block does  *)
(* once the sensor has been stable for eleven runs: restart filling, stop  *)
(* priming, start sampling.  Operators named f_... are wrong versions of   *)
(* f, to see that the properties tell them apart.                          *)
PumpingOver == tank = "empty" \/ priming_hasStarted

AfterPumping_noSampling(list) == stop(start(list, FILLITK), PRIMING)

AfterPumping_hardStop(list) ==
    start(hardStop(start(list, FILLITK), PRIMING), SAMPLING)

AfterPumping(list) ==
    start(stop(start(list, FILLITK), PRIMING), SAMPLING)

(* priming_calculatePWM raises one of these when the new PWM is out of     *)
(* range, before the tasks are restarted.                                  *)
PWMErrors == Faults \cap {"TOOFAST", "TOOSLOW"}

(* Errors and task_list after the head of priming_runnable.                *)
AfterHead ==
    {<<error, task_list>>} \cup
    (IF PumpingOver
     THEN {<<error, AfterPumping(task_list)>>} \cup
          {<<e, AfterPumping(AfterError(e, task_list))>> : e \in PWMErrors}
     ELSE {})

priming_startPriming_unmonitored ==
    /\ task_list' = stop(allow(task_list, PRIMING, FALSE), DRAINING)
    /\ priming_hasStarted' = TRUE
    /\ priming_state' = "IDLE"

priming_startPriming ==
    /\ task_list' = stop(allow(start(task_list, SENSORS), PRIMING, FALSE), DRAINING)
    /\ priming_hasStarted' = TRUE
    /\ priming_state' = "IDLE"

(* PRIMING_WAITING: stays, starts a priming, or has no batch left.  The    *)
(* wait is for SAMPLING and FILLITK to stop and for the connection.        *)
readyToPrime_whileSampling == Stopped(FILLITK) /\ net.client

readyToPrime == Stopped(SAMPLING) /\ Stopped(FILLITK) /\ net.client

(* When the head has just ended a priming, FILLITK and SAMPLING have been  *)
(* started and the wait goes on.                                           *)
priming_starts ==
    /\ Calls(PRIMING, "RUNNING")
    /\ ~isError
    /\ priming_state = "WAITING"
    /\ readyToPrime
    /\ priming_startPriming
    /\ UNCHANGED <<error, paused, relayVars, samplingVars, leak, waterVars, wifiVars, hang>>

priming_waits ==
    /\ Calls(PRIMING, "RUNNING")
    /\ ~isError
    /\ priming_state = "WAITING"
    /\ \E h \in AfterHead :
          \/ error' = h[1] /\ task_list' = h[2]
          \/ /\ "FINISHED" \in Faults
             /\ errorState("FINISHED", h[2])
    /\ UNCHANGED <<paused, relayVars, primingVars, samplingVars, leak,
                   waterVars, wifiVars, hang>>

(* PRIMING_IDLE drives the feed pump; the states of a dose leave it as it  *)
(* is, and open and close the CO2 valves.  With CO2 disabled the doses are *)
(* skipped; continuous priming stays in PRIMING_IDLE with both valves open.*)
priming_doses ==
    /\ Calls(PRIMING, "RUNNING")
    /\ ~isError
    /\ priming_state # "WAITING"
    /\ \E h \in AfterHead : error' = h[1] /\ task_list' = h[2]
    /\ turnOn({"BOTTLEFILLVALVE", "CO2VALVES"}) \/
          relay' = (relay \ {"CO2VALVES"}) \cup {"BOTTLEFILLVALVE"}
    /\ feed' = (feed \/ priming_state = "IDLE")
    /\ bottle' = IF feed' THEN "full" ELSE bottle
    /\ priming_state' \in {"IDLE", "DOSING"}
    /\ UNCHANGED <<paused, out, priming_hasStarted, samplingVars, leak, tank,
                   wifiVars, hang>>

priming_stops_not ==
    /\ Calls(PRIMING, "RUNNING")
    /\ isError
    /\ UNCHANGED <<task_list, error, paused, relayVars, primingVars, samplingVars,
                   leak, waterVars, wifiVars, hang>>

priming_stops ==
    /\ Calls(PRIMING, "RUNNING")
    /\ isError
    /\ task_list' = stop(task_list, PRIMING)
    /\ UNCHANGED <<error, paused, relayVars, primingVars, samplingVars, leak,
                   waterVars, wifiVars, hang>>

Closed_valveForgotten == {"BOTTLEFILLVALVE"}

(* The valves that priming_deinit closes.                                  *)
Closed == {"BOTTLEFILLVALVE", "CO2VALVES"}

priming_deinit ==
    /\ Calls(PRIMING, "STOPPING")
    /\ priming_hasStarted' = FALSE
    /\ turnOff(Closed)
    /\ feed' = FALSE
    /\ task_list' = hardStop(allow(task_list, PRIMING, TRUE), PRIMING)
    /\ UNCHANGED <<error, paused, out, priming_state, samplingVars, leak,
                   waterVars, wifiVars, hang>>

priming ==
    \/ priming_init
    \/ priming_starts
    \/ priming_waits
    \/ priming_doses
    \/ priming_stops
    \/ priming_deinit

=============================================================================
