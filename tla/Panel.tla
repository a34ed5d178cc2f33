------------------------------- MODULE Panel -------------------------------
(***************************************************************************)
(* The system tasks other than WIFI: BTNHANDLER polls the start button and *)
(* the switches (lib/system/btnHandler.h), SHIFTREGISTERHANDLER sends the  *)
(* relay word to the shift register (lib/cfg/shiftRegisterHandler.h), IDLE *)
(* reads the pause switch (lib/tasks/idle.h).                              *)
(*                                                                         *)
(* Nobody stops these tasks, so their deinit never runs and has no action. *)
(***************************************************************************)
EXTENDS RigState

Levels == <<"empty", "mid", "full">>

(* What the level sensors of the tank may show next: water only comes in   *)
(* through the supply pump and only leaves through the feed pump.          *)
NextLevels ==
    LET n == CHOOSE l \in 1 .. 3 : Levels[l] = tank
        higher == IF "SUPPLYPUMP" \in out /\ n < 3 THEN {n + 1} ELSE {}
        lower == IF feed /\ n > 1 THEN {n - 1} ELSE {}
    IN  {Levels[l] : l \in {n} \cup higher \cup lower}

btnHandler_init ==
    /\ Calls(BTNHANDLER, "STARTING")
    /\ task_list' = hardStart(task_list, BTNHANDLER)
    /\ UNCHANGED <<error, paused, relayVars, primingVars, samplingVars, leak,
                   waterVars, wifiVars, hang>>

(* A switch that was on at the last poll starts its task, then takes the   *)
(* new level; a long press of the start button starts FILLITK.             *)
btnHandler_runnable ==
    /\ Calls(BTNHANDLER, "RUNNING")
    /\ \E clicked \in {FALSE, "start" \in Inputs}, drain \in {FALSE, "drain" \in Inputs} :
          LET started == (IF clicked THEN {FILLITK} ELSE {}) \cup
                         (IF leak.wet THEN {LEAKHANDLER} ELSE {}) \cup
                         (IF drain THEN {DRAINING} ELSE {})
          IN  task_list' = [i \in DOMAIN task_list |->
                  IF i \in started THEN start(task_list, i)[i] ELSE task_list[i]]
    /\ leak' \in {leak} \cup {[leak EXCEPT !.wet = ~leak.wet] : f \in Faults \cap {"LEAK"}}
    /\ tank' \in NextLevels
    /\ UNCHANGED <<error, paused, relayVars, primingVars, samplingVars, bottle,
                   wifiVars, hang>>

(* shiftRegister_shutDown().                                               *)
shiftRegisterHandler_init ==
    /\ Calls(SHIFTREGISTERHANDLER, "STARTING")
    /\ relay' = {}
    /\ out' = {}
    /\ task_list' = hardStart(task_list, SHIFTREGISTERHANDLER)
    /\ UNCHANGED <<error, paused, feed, primingVars, samplingVars, leak,
                   waterVars, wifiVars, hang>>

shiftRegisterHandler_runnable ==
    /\ Calls(SHIFTREGISTERHANDLER, "RUNNING")
    /\ out' = relay
    /\ UNCHANGED <<task_list, error, paused, relay, feed, primingVars, samplingVars,
                   leak, waterVars, wifiVars, hang>>

idle_init ==
    /\ Calls(IDLE, "STARTING")
    /\ task_list' = hardStart(task_list, IDLE)
    /\ UNCHANGED <<error, paused, relayVars, primingVars, samplingVars, leak,
                   waterVars, wifiVars, hang>>

(* Two flicks of the pause switch within half a second clear the error;    *)
(* a change of the switch takes effect between 200 and 300 ms after it.    *)
idle_runnable ==
    /\ Calls(IDLE, "RUNNING")
    /\ \/ UNCHANGED <<task_list, error>>
       \/ "flick" \in Inputs /\ errorState("NOT_RUNNING", task_list)
    /\ paused' \in {paused} \cup {~paused : p \in Inputs \cap {"pause"}}
    /\ UNCHANGED <<relayVars, primingVars, samplingVars, leak, waterVars,
                   wifiVars, hang>>

btnHandler == btnHandler_init \/ btnHandler_runnable

shiftRegisterHandler == shiftRegisterHandler_init \/ shiftRegisterHandler_runnable

idle == idle_init \/ idle_runnable

=============================================================================
