------------------------------ MODULE FillITK ------------------------------
(***************************************************************************)
(* The task FILLITK (lib/tasks/fillITK.h): runs the supply pump until the  *)
(* high level sensor is wet, then starts PRIMING.                          *)
(***************************************************************************)
EXTENDS RigState

(* The state is refreshed to RUNNING, unless there is an error.            *)
Refreshed_always == "RUNNING"

Refreshed == IF isError THEN error ELSE "RUNNING"

Filling_unsafe(list) == hardStart(list, FILLITK)

Filling(list) == hardStart(allow(list, FILLITK, FALSE), FILLITK)

(* While paused the task stays in STARTING, with whatever it had on: init  *)
(* neither turns the pump off nor looks at the error.                      *)
fillITK_init ==
    /\ Calls(FILLITK, "STARTING")
    /\ error' = Refreshed
    /\ IF paused
       THEN UNCHANGED <<task_list, relay>>
       ELSE IF tank = "full"
       THEN /\ task_list' = hardStart(task_list, FILLITK)
            /\ UNCHANGED relay
       ELSE /\ task_list' = Filling(task_list)
            /\ turnOn({"SUPPLYPUMP"})
    /\ UNCHANGED <<paused, out, feed, primingVars, samplingVars, leak,
                   waterVars, wifiVars, hang>>

(* failToFill compares times; a failing tank may still be found full in    *)
(* the same run, and then starts PRIMING as well.                          *)
fillITK_runnable ==
    /\ Calls(FILLITK, "RUNNING")
    /\ \E failed \in {FALSE} \cup {"FAILTOFILL" \in Faults} :
          LET over == stop(IF failed THEN AfterError("FAILTOFILL", task_list)
                           ELSE task_list, FILLITK)
          IN  /\ failed => ~isError
              /\ error' = IF failed THEN "FAILTOFILL" ELSE error
              /\ task_list' =
                    IF isError THEN stop(task_list, FILLITK)
                    ELSE IF tank = "full" THEN start(over, PRIMING)
                    ELSE IF failed THEN over
                    ELSE task_list
    /\ UNCHANGED <<paused, relayVars, primingVars, samplingVars, leak,
                   waterVars, wifiVars, hang>>

fillITK_deinit ==
    /\ Calls(FILLITK, "STOPPING")
    /\ turnOff({"SUPPLYPUMP"})
    /\ task_list' = hardStop(allow(task_list, FILLITK, TRUE), FILLITK)
    /\ UNCHANGED <<error, paused, out, feed, primingVars, samplingVars, leak,
                   waterVars, wifiVars, hang>>

fillITK == fillITK_init \/ fillITK_runnable \/ fillITK_deinit

=============================================================================
