-------------------------------- MODULE Rig --------------------------------
(***************************************************************************)
(* The whole rig: the ten tasks of task_list under the scheduler, with the *)
(* water they move.  The modules of the tasks say what a call of each fptr *)
(* does; here they are composed, and the properties that need more than    *)
(* one task are stated.                                                    *)
(***************************************************************************)
EXTENDS Priming, FillITK, LeakHandler, Sampling, Draining, Sensors, Panel, Wifi

(* The states and the order of task_list; shiftRegister_value_new is 0,    *)
(* which is all relays on, and the register holds anything at power up.    *)
Init ==
    /\ task_list = [i \in 0 .. MAX_TASKS - 1 |->
           [state |-> IF i \in {BTNHANDLER, SHIFTREGISTERHANDLER, IDLE, WIFI}
                      THEN "STARTING" ELSE "STOPPED",
            timer |-> 0, allowWifiReconnect |-> TRUE]]
    /\ turn = MAX_TASKS /\ check = 0
    /\ error = "NOT_RUNNING"
    /\ paused = FALSE
    /\ relay = Relay
    /\ out \in {{}, Relay}
    /\ feed = FALSE
    /\ priming_state = "WAITING" /\ priming_hasStarted = FALSE
    /\ sampling_state = "drainingPending" /\ samplling_sampleState = 0
    /\ leak = [wet |-> FALSE, armed |-> FALSE]
    /\ tank = "empty" /\ bottle = "empty"
    /\ s_wifiState = "OFF"
    /\ net = [link |-> FALSE, client |-> FALSE]
    /\ hang = "none"

NextPass ==
    /\ hang = "none"
    /\ Sched!NextPass
    /\ UNCHANGED <<error, paused, relayVars, primingVars, samplingVars, leak,
                   waterVars, wifiVars, hang>>

(* A blocking call with nothing behind it returns.                         *)
HangEnds ==
    /\ hang \in {"wifi", "broker", "E01"}
    /\ hang' = "none"
    /\ UNCHANGED <<schedVars, error, paused, relayVars, primingVars, samplingVars,
                   leak, waterVars, wifiVars>>

scheduler_runTasks ==
    \/ priming
    \/ fillITK
    \/ leakHandler
    \/ sampling
    \/ draining
    \/ sensors
    \/ btnHandler
    \/ shiftRegisterHandler
    \/ idle
    \/ wifi

loop == NextPass \/ scheduler_runTasks \/ HangEnds

Next == loop \/ NetworkDrops

Spec == Init /\ [][Next]_vars

(* The processor runs on.                                                  *)
LoopSpec == Spec /\ WF_vars(loop)

(* In addition, water that is pumped moves, and a timer that is compared   *)
(* with millis() again and again elapses.                                  *)
FairSpec ==
    /\ LoopSpec
    /\ SF_vars(btnHandler_runnable /\ tank' # tank)
    /\ SF_vars(priming_starts)
    /\ SF_vars(priming_doses /\ task_list'[PRIMING].state = "STOPPING")
    /\ SF_vars(sampling_runnable /\ samplingVars' # samplingVars)
    /\ SF_vars(sampling_DRAINING2)

-----------------------------------------------------------------------------
TypeOK ==
    /\ Sched!TypeOK
    /\ error \in ErrorState /\ paused \in BOOLEAN /\ feed \in BOOLEAN
    /\ relay \subseteq Relay /\ out \subseteq Relay
    /\ priming_state \in {"WAITING", "IDLE", "DOSING"} /\ priming_hasStarted \in BOOLEAN
    /\ sampling_state \in {"drainingPending", "DRAINING", "CLEARSAMPLERLINES",
           "CLEARSAMPLERWASTE", "SAMPLING", "DRAINING1", "DRAINING2"}
    /\ samplling_sampleState \in 0 .. 4
    /\ leak \in [wet : BOOLEAN, armed : BOOLEAN]
    /\ tank \in {"empty", "mid", "full"} /\ bottle \in {"empty", "full"}
    /\ s_wifiState \in {"OFF", "WIFI_PENDING", "BROKER_PENDING", "CONNECTED"}
    /\ net \in [link : BOOLEAN, client : BOOLEAN]
    /\ hang \in {"none", "wifi", "broker", "reset", "E01"}

(* The tasks that turn a relay on, and that turn it off in their deinit.   *)
Owners == [SUPPLYPUMP |-> {FILLITK}, WASTEVALVE |-> {SAMPLING},
           SAMPLEVALVE |-> {SAMPLING, DRAINING}, BOTTLEFILLVALVE |-> {PRIMING},
           CO2VALVES |-> {PRIMING},
           WASTEPUMP |-> {SAMPLING, DRAINING}, OUTPUTPUMP |-> {SAMPLING, DRAINING}]

booted == task_list[SHIFTREGISTERHANDLER].state # "STARTING"

(* Nothing is left on: whatever sequence of starts, stops, errors and      *)
(* pauses led here, a relay that is on has a task that is not stopped and  *)
(* that will turn it off, and so has the feed pump (the deinit functions). *)
(* The reset of the sampler is left out here, see PumpsOffInReset.         *)
RelaysOwned ==
    booted /\ hang # "reset" =>
        /\ \A r \in relay : \E i \in Owners[r] : ~Stopped(i)
        /\ feed => ~Stopped(PRIMING)

(* A pump that may be on belongs to a task that keeps wifi_retry from      *)
(* reconnecting (_task_cfg.h:78, wifi.h:362).                              *)
DangerousWhenPumping ==
    booted /\ hang # "reset" /\ (feed \/ relay \cap {"SUPPLYPUMP", "OUTPUTPUMP"} # {})
        => isDangerousTaskRunning

(* The bottle is not filled while it is being emptied: priming.h:126 waits *)
(* for SAMPLING, and SAMPLING starts when PRIMING stops.                   *)
PrimingExcludesSampling ==
    feed => task_list[SAMPLING].state \in {"STOPPED", "STARTING"}

(* The pressures are watched as long as the bottle is being filled.        *)
MonitoredPriming == feed /\ ~isError => ~Stopped(SENSORS)

(* No priming starts with a bottle that has not been drained, so that the  *)
(* bottle is never filled twice.                                           *)
NoOverfill == [][priming_hasStarted' /\ ~priming_hasStarted => bottle = "empty"]_vars

(* Who ends an error: the operator, in IDLE or through WIFI; the recovery  *)
(* of SAMPLING, but only SAMPLERERROR; and the end of LEAKHANDLER, which   *)
(* takes any error with it (leakHandler.h:58).  No task ends the error of  *)
(* another by going on: not FILLITK, which refreshes the state when it is  *)
(* started again (fillITK.h:33), not a reset that comes back after an      *)
(* error that stops the machine (sampling.h:70), not a new start.          *)
ErrorHolds ==
    [][isError /\ ~isError' =>
          \/ turn' = IDLE /\ "flick" \in Inputs
          \/ turn' = WIFI /\ "clear" \in Inputs
          \/ turn' = LEAKHANDLER /\ Stopped(LEAKHANDLER)'
          \/ hang = "reset" /\ error = "SAMPLERERROR"]_vars

(* An error stops the machine (_task_cfg.cpp:26): the pumps that fill the  *)
(* tank and the bottle go off, unless the error is cleared before.         *)
ErrorStops == isError ~> ~isError \/ (~feed /\ "SUPPLYPUMP" \notin out)

(* WIFI gives up a lost connection, and then hangs in connecting again,    *)
(* only when no pump runs (_task_cfg.h:78): WIFI comes after               *)
(* SHIFTREGISTERHANDLER in every pass, so what has been turned off is off. *)
RetryWithPumpsOff ==
    [][s_wifiState = "CONNECTED" /\ s_wifiState' = "WIFI_PENDING"
         => ~feed /\ out \cap {"SUPPLYPUMP", "OUTPUTPUMP"} = {}]_vars

(* The cycle goes on by itself: when the connection stays, the rig is not  *)
(* paused and the operator does not start it again, a tank that is being   *)
(* filled is pumped into the bottle, and the bottle is emptied again.      *)
Starts ==
    /\ turn' \in {BTNHANDLER, WIFI}
    /\ Stopped(FILLITK) /\ task_list'[FILLITK].state = "STARTING"

CycleContinues ==
    <>[](net.client /\ ~paused) /\ <>[][~Starts]_vars =>
        /\ ~Stopped(FILLITK) ~> bottle = "full"
        /\ bottle = "full" ~> bottle = "empty"

(* The scheduler's specification, whose tasks know only the contract of    *)
(* _task_cfg.h, is implemented by the rig's tasks.                         *)
ImplementsScheduler == Sched!Spec

-----------------------------------------------------------------------------
(* What the comments promise and the code does not keep.                   *)


(* sampling.h:76: filling is turned off because the reset of the sampler   *)
(* hangs the machine.                                                      *)
PumpsOffInReset == hang = "reset" => "SUPPLYPUMP" \notin out

(* _task_cfg.h:78: the processor does not hang in a connection attempt     *)
(* with a pump on.                                                         *)
NoHangWithPump ==
    hang \in {"wifi", "broker"} => ~feed /\ out \cap {"SUPPLYPUMP", "OUTPUTPUMP"} = {}

(* sampling.h:145: "finish draining bottle".  In the last state of a       *)
(* sampling the output pump is on, from the first update of the shift      *)
(* register on.                                                            *)
FinishesDraining ==
    sampling_state = "DRAINING2" /\ turn = SHIFTREGISTERHANDLER
    /\ task_list[SAMPLING].state \in {"RUNNING", "WAITING"} => "OUTPUTPUMP" \in out

=============================================================================
