---------------------------- MODULE LeakHandler ----------------------------
(***************************************************************************)
(* The task LEAKHANDLER (lib/tasks/leakHandler.h), started by the poll of  *)
(* the leak switch.  It looks at the switch once, between 100 and 105 ms   *)
(* after its init (leak.armed: not yet), and either raises LEAK or stops.  *)
(***************************************************************************)
EXTENDS RigState

leakHandler_init ==
    /\ Calls(LEAKHANDLER, "STARTING")
    /\ leak' = [leak EXCEPT !.armed = TRUE]
    /\ task_list' = hardStart(task_list, LEAKHANDLER)
    /\ UNCHANGED <<error, paused, relayVars, primingVars, samplingVars,
                   waterVars, wifiVars, hang>>

(* A run may fall into the window or not, and a slow pass may miss it.  A  *)
(* second flick of the pause switch stops the task, too.                   *)
leakHandler_runnable ==
    /\ Calls(LEAKHANDLER, "RUNNING")
    /\ \E inWindow \in {FALSE, leak.armed}, flick \in {FALSE, "flick" \in Inputs} :
          /\ error' = IF inWindow /\ leak.wet THEN "LEAK" ELSE error
          /\ leak' = IF inWindow /\ leak.wet THEN [leak EXCEPT !.armed = FALSE] ELSE leak
          /\ task_list' = IF flick \/ (inWindow /\ ~leak.wet)
                          THEN stop(task_list, LEAKHANDLER) ELSE task_list
    /\ UNCHANGED <<paused, relayVars, primingVars, samplingVars,
                   waterVars, wifiVars, hang>>

(* Clears whatever error there is.                                         *)
leakHandler_deinit ==
    /\ Calls(LEAKHANDLER, "STOPPING")
    /\ errorState("NOT_RUNNING", hardStop(task_list, LEAKHANDLER))
    /\ UNCHANGED <<paused, relayVars, primingVars, samplingVars, leak,
                   waterVars, wifiVars, hang>>

leakHandler == leakHandler_init \/ leakHandler_runnable \/ leakHandler_deinit

=============================================================================
