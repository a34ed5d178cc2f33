------------------------------ MODULE Draining ------------------------------
(***************************************************************************)
(* The task DRAINING (lib/tasks/draining.h): runs the output pump for the  *)
(* drain length, from the drain switch, the UI or an error.                *)
(***************************************************************************)
EXTENDS RigState

draining_init ==
    /\ Calls(DRAINING, "STARTING")
    /\ relay' = (relay \ {"WASTEVALVE", "BOTTLEFILLVALVE"}) \cup {"OUTPUTPUMP"}
    /\ task_list' = hardStart(allow(task_list, DRAINING, FALSE), DRAINING)
    /\ UNCHANGED <<error, paused, out, feed, primingVars, samplingVars, leak,
                   waterVars, wifiVars, hang>>

(* over: the drain length has elapsed; last: its last two seconds have     *)
(* begun; released: the drain switch has just been switched off.           *)
draining_runnable ==
    /\ Calls(DRAINING, "RUNNING")
    /\ \E over, last \in BOOLEAN,
          released \in {FALSE, "drain" \in Inputs} :
          /\ task_list' = IF over \/ released THEN stop(task_list, DRAINING) ELSE task_list
          /\ relay' = IF last THEN relay \cup {"SAMPLEVALVE", "WASTEPUMP"} ELSE relay
          /\ bottle' = IF over /\ "OUTPUTPUMP" \in out THEN "empty" ELSE bottle
    /\ UNCHANGED <<error, paused, out, feed, primingVars, samplingVars, leak, tank,
                   wifiVars, hang>>

draining_deinit ==
    /\ Calls(DRAINING, "STOPPING")
    /\ turnOff({"WASTEPUMP", "SAMPLEVALVE", "OUTPUTPUMP"})
    /\ task_list' = hardStop(allow(task_list, DRAINING, TRUE), DRAINING)
    /\ UNCHANGED <<error, paused, out, feed, primingVars, samplingVars, leak,
                   waterVars, wifiVars, hang>>

draining == draining_init \/ draining_runnable \/ draining_deinit

=============================================================================
