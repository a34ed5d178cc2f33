-------------------------------- MODULE Wifi --------------------------------
(***************************************************************************)
(* The task WIFI (lib/cfg/wifi.h): the connection to the access point and  *)
(* to the broker, and the commands that come through it.                   *)
(***************************************************************************)
EXTENDS RigState

(* What an attempt to connect may leave: it succeeds if the network does.  *)
Attempt == {TRUE} \cup {FALSE : f \in Faults \cap {"NETWORK"}}

wifi_init ==
    /\ Calls(WIFI, "STARTING")
    /\ s_wifiState' = "WIFI_PENDING"
    /\ task_list' = hardStart(task_list, WIFI)
    /\ UNCHANGED <<error, paused, relayVars, primingVars, samplingVars, leak,
                   waterVars, net, hang>>

wifi_retry_always ==
    /\ s_wifiState' = "WIFI_PENDING"
    /\ net' = [link |-> FALSE, client |-> FALSE]

(* wifi_deinit and wifi_init, unless a dangerous task runs.                *)
wifi_retry ==
    IF isDangerousTaskRunning
    THEN UNCHANGED <<s_wifiState, net>>
    ELSE /\ s_wifiState' = "WIFI_PENDING"
         /\ net' = [link |-> FALSE, client |-> FALSE]

(* The blocking calls: WiFi.begin here, wifi_client.connect below.         *)
wifi_pending ==
    /\ Calls(WIFI, "RUNNING")
    /\ s_wifiState = "WIFI_PENDING"
    /\ IF net.link
       THEN /\ s_wifiState' = "BROKER_PENDING"
            /\ UNCHANGED <<net, hang>>
       ELSE /\ hang' = "wifi"
            /\ \E b \in Attempt : net' = [link |-> b, client |-> FALSE]
            /\ UNCHANGED s_wifiState
    /\ UNCHANGED <<task_list, error, paused, relayVars, primingVars, samplingVars,
                   leak, waterVars>>

brokerConnectionAttempt ==
    /\ hang' = "broker"
    /\ \E b \in Attempt : net' = [net EXCEPT !.client = b]
    /\ UNCHANGED s_wifiState

wifi_broker ==
    /\ Calls(WIFI, "RUNNING")
    /\ s_wifiState = "BROKER_PENDING" /\ ~net.client
    /\ IF net.link THEN brokerConnectionAttempt ELSE wifi_retry /\ UNCHANGED hang
    /\ UNCHANGED <<task_list, error, paused, relayVars, primingVars, samplingVars,
                   leak, waterVars>>

(* What the payloads of /CVR2_start_to_rig and /CVR2_sampling_to_rig start.*)
Commands == [start |-> FILLITK, sample |-> SAMPLING, prime |-> PRIMING,
             sensors |-> SENSORS]

(* Any number of messages, in any order, in one run of WIFI: they come in  *)
(* loop(), and while subscribe() waits for its acknowledgement.  DRAINING  *)
(* may be started and stopped, the error cleared, the rig paused.          *)
wifi_messageReceived ==
    /\ \E sent \in SUBSET (Inputs \cap DOMAIN Commands),
          draining \in IF "drain" \in Inputs THEN Sched!Touched(task_list, DRAINING)
                       ELSE {task_list[DRAINING]} :
          task_list' = [i \in DOMAIN task_list |->
              IF \E m \in sent : Commands[m] = i THEN start(task_list, i)[i]
              ELSE IF i = DRAINING THEN draining ELSE task_list[i]]
    /\ error' \in {error} \cup {"NOT_RUNNING" : m \in Inputs \cap {"clear"}}
    /\ paused' \in {paused} \cup {~paused : m \in Inputs \cap {"pause"}}

(* A subscription that fails closes the connection.                        *)
wifi_subscribes ==
    /\ Calls(WIFI, "RUNNING")
    /\ s_wifiState = "BROKER_PENDING" /\ net.client
    /\ wifi_messageReceived
    /\ \E b \in Attempt :
          /\ net' = [net EXCEPT !.client = b]
          /\ s_wifiState' = IF b THEN "CONNECTED" ELSE "BROKER_PENDING"
    /\ UNCHANGED <<relayVars, primingVars, samplingVars, leak, waterVars, hang>>

wifi_loses ==
    /\ Calls(WIFI, "RUNNING")
    /\ s_wifiState = "CONNECTED" /\ ~(net.link /\ net.client)
    /\ wifi_retry
    /\ UNCHANGED <<task_list, error, paused, relayVars, primingVars, samplingVars,
                   leak, waterVars, hang>>

wifi_loops ==
    /\ Calls(WIFI, "RUNNING")
    /\ s_wifiState = "CONNECTED" /\ net.link /\ net.client
    /\ wifi_messageReceived
    /\ UNCHANGED <<relayVars, primingVars, samplingVars, leak, waterVars,
                   wifiVars, hang>>

(* The access point or the broker goes away, at any time.                  *)
NetworkDrops ==
    /\ "NETWORK" \in Faults
    /\ \E b \in {FALSE, net.link} : net' = [link |-> b, client |-> FALSE]
    /\ UNCHANGED <<schedVars, error, paused, relayVars, primingVars, samplingVars,
                   leak, waterVars, s_wifiState, hang>>

wifi ==
    \/ wifi_init
    \/ wifi_pending
    \/ wifi_broker
    \/ wifi_subscribes
    \/ wifi_loses
    \/ wifi_loops

=============================================================================
