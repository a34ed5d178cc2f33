------------------------------ MODULE Sensors ------------------------------
(***************************************************************************)
(* The task SENSORS (lib/tasks/sensors.h): watches the pressures while     *)
(* PRIMING is on and for 30 seconds after it.                              *)
(***************************************************************************)
EXTENDS RigState

sensors_init ==
    /\ Calls(SENSORS, "STARTING")
    /\ task_list' = hardStart(task_list, SENSORS)
    /\ UNCHANGED <<error, paused, relayVars, primingVars, samplingVars, leak,
                   waterVars, wifiVars, hang>>

(* A pressure that was out of range in eleven readings raises its error.   *)
PressureErrors == Faults \cap {"HIGHPRESSURE", "LOWCO2PRESSURE"}

sensors_runnable ==
    /\ Calls(SENSORS, "RUNNING")
    /\ ~isError
    /\ \E e \in {error} \cup PressureErrors, late \in BOOLEAN :
          LET list == IF e = error THEN task_list ELSE AfterError(e, task_list) IN
          /\ error' = e
          /\ task_list' = IF Stopped(PRIMING) /\ late THEN stop(list, SENSORS) ELSE list
    /\ UNCHANGED <<paused, relayVars, primingVars, samplingVars, leak,
                   waterVars, wifiVars, hang>>

sensors_stops ==
    /\ Calls(SENSORS, "RUNNING")
    /\ isError
    /\ task_list' = stop(task_list, SENSORS)
    /\ UNCHANGED <<error, paused, relayVars, primingVars, samplingVars, leak,
                   waterVars, wifiVars, hang>>

sensors_deinit ==
    /\ Calls(SENSORS, "STOPPING")
    /\ task_list' = hardStop(task_list, SENSORS)
    /\ UNCHANGED <<error, paused, relayVars, primingVars, samplingVars, leak,
                   waterVars, wifiVars, hang>>

sensors == sensors_init \/ sensors_runnable \/ sensors_stops \/ sensors_deinit

=============================================================================
