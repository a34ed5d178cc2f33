------------------------------ MODULE RigState ------------------------------
(***************************************************************************)
(* What the tasks of the rig share: task_list, the error state, the relay  *)
(* word and its copy in the shift register, the feed pump, the pause flag  *)
(* and the wifi connection, with the water in the tank and the bottle.     *)
(* The modules of the tasks extend this one; Rig composes them.            *)
(*                                                                         *)
(* Time is abstracted: a comparison with millis() may turn out either way  *)
(* each time it is evaluated, except where a comment says otherwise.       *)
(* Passes are counted exactly (Tasks, Scheduler), with loop_ms scaled      *)
(* down: 100 becomes FastLoop, 1000 becomes WifiLoop.                      *)
(***************************************************************************)
EXTENDS Integers

CONSTANTS
    FastLoop,   \* passes from one run of PRIMING, FILLITK or SAMPLING to the next
    WifiLoop,   \* passes from one run of WIFI to the next
    Faults,     \* the errors the hardware may cause
    Inputs      \* what the operator may do

(* task_enum *)
PRIMING == 0
FILLITK == 1
LEAKHANDLER == 2
SAMPLING == 3
DRAINING == 4
SENSORS == 5
BTNHANDLER == 6
SHIFTREGISTERHANDLER == 7
IDLE == 8
WIFI == 9
MAX_TASKS == 10

LoopMs == [i \in 0 .. MAX_TASKS - 1 |->
              IF i \in {PRIMING, FILLITK, SAMPLING} THEN FastLoop
              ELSE IF i = WIFI THEN WifiLoop ELSE 0]

ASSUME RigAssumption ==
    /\ FastLoop \in Nat /\ WifiLoop \in Nat
    /\ Faults \subseteq {"TOOFAST", "TOOSLOW", "HIGHPRESSURE", "LOWCO2PRESSURE",
           "FAILTOFILL", "SAMPLERERROR", "LEAK", "FINISHED", "E01", "NETWORK"}
    /\ Inputs \subseteq {"start", "sample", "prime", "sensors", "drain",
           "pause", "clear", "flick"}

VARIABLES
    task_list, turn, check,     \* as in Scheduler
    error,                      \* _errorState
    paused,
    relay,                      \* the relays that shiftRegister_value_new has on
    out,                        \* the relays that the shift register has on
    feed,                       \* the feed pump's PWM is not 0
    priming_state,
    priming_hasStarted,
    sampling_state,
    samplling_sampleState,      \* the step of sampling_sampling
    leak,                       \* the leak sensor is wet, and the alarm's timer
    tank,                       \* the level sensors of the ITK, as last polled
    bottle,                     \* "full" from the start of a priming until drained
    s_wifiState,
    net,                        \* WiFi.status() and wifi_client.connected()
    hang                        \* the blocking call the processor is in

schedVars == <<task_list, turn, check>>
relayVars == <<relay, out, feed>>
primingVars == <<priming_state, priming_hasStarted>>
samplingVars == <<sampling_state, samplling_sampleState>>
wifiVars == <<s_wifiState, net>>
waterVars == <<tank, bottle>>

vars == <<schedVars, error, paused, relayVars, primingVars, samplingVars,
          leak, waterVars, wifiVars, hang>>

Sched == INSTANCE Scheduler

start(list, i) == Sched!start(list, i)
stop(list, i) == Sched!stop(list, i)
hardStart(list, i) == Sched!hardStart(list, i)
hardStop(list, i) == Sched!hardStop(list, i)
allow(list, i, b) == Sched!allow(list, i, b)

(* The states that the dispatcher of task i runs init, runnable and deinit *)
(* in.  Nothing is called while the processor hangs in a call.             *)
Calls(i, state) ==
    /\ hang = "none"
    /\ Sched!Calls(i, CHOOSE c \in 1 .. 3 : Sched!Checks[c] = state)

Stopped(i) == task_list[i].state = "STOPPED"

-----------------------------------------------------------------------------
(* The errors that start DRAINING, the others, and isError().              *)
DrainErrors == {"TOOFAST", "TOOSLOW", "HIGHPRESSURE", "LOWCO2PRESSURE", "FAILTOFILL"}
ErrorState == DrainErrors \cup
    {"NOT_RUNNING", "RUNNING", "SAMPLERERROR", "LEAK", "FINISHED"}

isError == error \notin {"RUNNING", "NOT_RUNNING"}

(* What errorState(e) does to task_list; it also sets error to e.          *)
AfterError(e, list) == IF e \in DrainErrors THEN start(list, DRAINING) ELSE list

errorState(e, list) ==
    /\ error' = e
    /\ task_list' = AfterError(e, list)

Relay == {"SUPPLYPUMP", "WASTEVALVE", "SAMPLEVALVE", "BOTTLEFILLVALVE",
          "WASTEPUMP", "OUTPUTPUMP", "CO2VALVES"}     \* the two valves as one

turnOn(relays) == relay' = relay \cup relays
turnOff(relays) == relay' = relay \ relays

(* isDangerousTaskRunning() *)
isDangerousTaskRunning ==
    \E i \in 0 .. MAX_TASKS - 1 :
        ~Stopped(i) /\ ~task_list[i].allowWifiReconnect

=============================================================================
