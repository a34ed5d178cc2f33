------------------------------ MODULE Sampling ------------------------------
(***************************************************************************)
(* The task SAMPLING (lib/tasks/sampling.h): empties the bottle, through   *)
(* the sampler when a sample is due.  The dialogue with the sampler is one *)
(* call here; it may end in SAMPLERERROR (sampling_error), and then the    *)
(* step may be left as done or not done (cmdSuccess returns true after too *)
(* many attempts).                                                         *)
(***************************************************************************)
EXTENDS RigState

(* error after a call of the sampler.                                      *)
AfterSampler == {error} \cup (Faults \cap {"SAMPLERERROR"})

sampling_init ==
    /\ Calls(SAMPLING, "STARTING")
    /\ sampling_state' = "drainingPending"
    /\ samplling_sampleState' = 0
    /\ error' \in AfterSampler
    /\ task_list' = hardStart(task_list, SAMPLING)
    /\ UNCHANGED <<paused, relayVars, primingVars, leak, waterVars, wifiVars, hang>>

sampling_stops ==
    /\ Calls(SAMPLING, "RUNNING")
    /\ isError /\ error # "SAMPLERERROR"
    /\ task_list' = stop(task_list, SAMPLING)
    /\ UNCHANGED <<error, paused, relayVars, primingVars, samplingVars, leak,
                   waterVars, wifiVars, hang>>

sampling_resetSampler_anyError ==
    /\ Calls(SAMPLING, "RUNNING")
    /\ isError
    /\ turnOff({"OUTPUTPUMP", "BOTTLEFILLVALVE", "CO2VALVES"})
    /\ feed' = FALSE
    /\ priming_hasStarted' = FALSE
    /\ task_list' = hardStop(allow(task_list, PRIMING, TRUE), FILLITK)
    /\ hang' = "reset"
    /\ UNCHANGED <<error, paused, out, priming_state, samplingVars, leak,
                   waterVars, wifiVars>>

(* Up to the call of sampler.reset(), which takes 40 seconds and more; the *)
(* rest of the branch is sampling_resetDone.                               *)
sampling_resetSampler ==
    /\ Calls(SAMPLING, "RUNNING")
    /\ error = "SAMPLERERROR"
    /\ turnOff({"OUTPUTPUMP", "BOTTLEFILLVALVE", "CO2VALVES"})
    /\ feed' = FALSE
    /\ priming_hasStarted' = FALSE
    /\ task_list' = hardStop(allow(task_list, PRIMING, TRUE), FILLITK)
    /\ hang' = "reset"
    /\ UNCHANGED <<error, paused, out, priming_state, samplingVars, leak,
                   waterVars, wifiVars>>

sampling_resetDone ==
    /\ hang = "reset"
    /\ hang' = "none"
    /\ errorState("RUNNING", start(task_list, FILLITK))
    /\ UNCHANGED <<turn, check, paused, relayVars, primingVars, samplingVars, leak,
                   waterVars, wifiVars>>

(* A run of sampling_runnable in one of the states of sampling_stateEnum.  *)
InState(s) ==
    /\ Calls(SAMPLING, "RUNNING")
    /\ ~isError
    /\ sampling_state = s

sampling_drainingPending ==
    /\ InState("drainingPending")
    /\ IF paused
       THEN UNCHANGED <<task_list, sampling_state>>
       ELSE /\ task_list' = allow(task_list, SAMPLING, FALSE)
            /\ sampling_state' = "DRAINING"
    /\ UNCHANGED <<error, paused, relayVars, primingVars, samplling_sampleState,
                   leak, waterVars, wifiVars, hang>>

sampling_DRAINING ==
    /\ InState("DRAINING")
    /\ \/ turnOn({"OUTPUTPUMP"}) /\ UNCHANGED sampling_state
       \/ /\ turnOn({"OUTPUTPUMP", "SAMPLEVALVE", "WASTEVALVE", "WASTEPUMP"})
          /\ sampling_state' = "CLEARSAMPLERLINES"
    /\ UNCHANGED <<task_list, error, paused, out, feed, primingVars,
                   samplling_sampleState, leak, waterVars, wifiVars, hang>>

sampling_CLEARSAMPLERLINES ==
    /\ InState("CLEARSAMPLERLINES")
    /\ \/ turnOn({"OUTPUTPUMP"}) /\ UNCHANGED sampling_state
       \/ turnOff({"OUTPUTPUMP"}) /\ sampling_state' = "CLEARSAMPLERWASTE"
    /\ UNCHANGED <<task_list, error, paused, out, feed, primingVars,
                   samplling_sampleState, leak, waterVars, wifiVars, hang>>

sampling_CLEARSAMPLERWASTE ==
    /\ InState("CLEARSAMPLERWASTE")
    /\ \/ UNCHANGED <<relay, sampling_state>>
       \/ turnOff({"WASTEPUMP"}) /\ sampling_state' = "SAMPLING"
    /\ UNCHANGED <<task_list, error, paused, out, feed, primingVars,
                   samplling_sampleState, leak, waterVars, wifiVars, hang>>

PumpOn_forgotten == relay

(* "make sure output on"                                                   *)
PumpOn == relay \cup {"OUTPUTPUMP"}

(* No sample is due for this bottle, or sampling is disabled.              *)
sampling_skips ==
    /\ InState("SAMPLING")
    /\ samplling_sampleState = 0
    /\ relay' = PumpOn \ {"SAMPLEVALVE", "WASTEVALVE"}
    /\ sampling_state' = "DRAINING1"
    /\ UNCHANGED <<task_list, error, paused, out, feed, primingVars,
                   samplling_sampleState, leak, waterVars, wifiVars, hang>>

(* The relays after step n of sampling_sampling has run, done or not.      *)
SampleRelays(n, done) ==
    CASE n = 1 /\ done -> PumpOn \cup {"SAMPLEVALVE"}
      [] n = 2 /\ done -> PumpOn \ {"WASTEVALVE", "SAMPLEVALVE"}
      [] n = 3 /\ done -> relay \ {"WASTEPUMP"}
      [] n = 4 \/ (n = 2 /\ ~done) -> PumpOn
      [] OTHER -> relay

NextSampleState_noReset(n) == n + 1

NextSampleState(n) == IF n = 4 THEN 0 ELSE n + 1

(* Steps 0, 3 and 4 move the needle; an answer E01 to one of them resets   *)
(* the sampler on the spot and leaves the step done.  Steps 2 and 4 end    *)
(* with askNumSample, step 1 does not talk to the sampler.                 *)
sampling_sampling ==
    /\ InState("SAMPLING")
    /\ \E done \in BOOLEAN :
          LET n == samplling_sampleState IN
          /\ relay' = SampleRelays(n, done)
          /\ samplling_sampleState' = IF done THEN NextSampleState(n) ELSE n
          /\ sampling_state' = IF done /\ n = 4 THEN "DRAINING1" ELSE "SAMPLING"
          /\ error' \in IF n = 1 \/ (n = 2 /\ ~done) THEN {error} ELSE AfterSampler
          /\ hang' \in {"none"} \cup
                (IF done /\ n \in {0, 3, 4} THEN Faults \cap {"E01"} ELSE {})
    /\ UNCHANGED <<task_list, paused, out, feed, primingVars, leak, waterVars, wifiVars>>

sampling_DRAINING1 ==
    /\ InState("DRAINING1")
    /\ sampling_state' = "DRAINING2"
    /\ UNCHANGED <<task_list, error, paused, relayVars, primingVars,
                   samplling_sampleState, leak, waterVars, wifiVars, hang>>

sampling_DRAINING2 ==
    /\ InState("DRAINING2")
    /\ turnOff({"OUTPUTPUMP"})
    /\ bottle' = IF "OUTPUTPUMP" \in out THEN "empty" ELSE bottle
    /\ task_list' = stop(task_list, SAMPLING)
    /\ UNCHANGED <<error, paused, out, feed, primingVars, samplingVars, leak, tank,
                   wifiVars, hang>>

(* A run in DRAINING2 before its time is over changes nothing.             *)
sampling_drainsOn ==
    /\ InState("DRAINING2")
    /\ UNCHANGED <<task_list, error, paused, relayVars, primingVars, samplingVars,
                   leak, waterVars, wifiVars, hang>>

Off_valveForgotten == {"SAMPLEVALVE", "WASTEPUMP", "OUTPUTPUMP"}

(* The relays that sampling_deinit turns off.                              *)
Off == {"SAMPLEVALVE", "WASTEVALVE", "WASTEPUMP", "OUTPUTPUMP"}

sampling_deinit ==
    /\ Calls(SAMPLING, "STOPPING")
    /\ turnOff(Off)
    /\ task_list' = hardStop(allow(task_list, SAMPLING, TRUE), SAMPLING)
    /\ UNCHANGED <<error, paused, out, feed, primingVars, samplingVars, leak,
                   waterVars, wifiVars, hang>>

sampling_runnable ==
    \/ sampling_stops
    \/ sampling_resetSampler
    \/ sampling_drainingPending
    \/ sampling_DRAINING
    \/ sampling_CLEARSAMPLERLINES
    \/ sampling_CLEARSAMPLERWASTE
    \/ sampling_skips
    \/ sampling_sampling
    \/ sampling_DRAINING1
    \/ sampling_DRAINING2
    \/ sampling_drainsOn

sampling == sampling_init \/ sampling_runnable \/ sampling_resetDone \/ sampling_deinit

=============================================================================
