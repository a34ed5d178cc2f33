----------------------------- MODULE MQTTClient -----------------------------
(***************************************************************************)
(* The MQTT client (arduino-mqtt: MQTTClient.cpp over lwmqtt/client.c) as  *)
(* the wifi task uses it: connect to the broker, subscribe to each topic,  *)
(* then loop for ever, publishing now and then.                            *)
(*                                                                         *)
(* A call of the client blocks the rig: call says which one is in progress *)
(* and for which packet it waits.  The broker and the TCP link between the *)
(* two are external: the link carries packets in order, may go silent and  *)
(* recover, or break.  A packet is [type, id, arg]; what its bytes are is  *)
(* in Packet.  Time passes in ticks.                                       *)
(***************************************************************************)
EXTENDS Integers, Sequences

CONSTANTS
    KeepAlive, Timeout,     \* ticks of setOptions(12, false, 3000)
    MaxPacketId,            \* 65535
    numSubs,                \* topics to subscribe to
    Qos,                    \* levels of the messages, both ways
    Window,                 \* packets that the socket's read buffer holds
    Capacity                \* packets that the link holds each way

ASSUME MQTTAssumption ==
    /\ KeepAlive \in Nat \ {0} /\ Timeout \in Nat \ {0}
    /\ MaxPacketId \in Nat \ {0} /\ numSubs \in Nat
    /\ Qos \subseteq 0 .. 2 /\ Window \in Nat \ {0} /\ Capacity \in Nat \ {0}

VARIABLES
    net,                \* "down", "up" or "mute": TCP says connected, nothing gets through
    in, out,            \* packets on their way to the client and to the broker
    _connected, last_packet_id, pong_pending,
    keep_alive_timer, command_timer,
    call,               \* the blocking call in progress
    s_wifiState, subscribed,    \* wifi_runnable: topics its loop is done with
    granted,            \* topics the broker will send
    silent,             \* the link has been mute since the last answer to a ping
    crowded             \* the last loop found more than the read buffer holds

linkVars == <<net, in, out>>
clientVars == <<_connected, last_packet_id, pong_pending, keep_alive_timer, command_timer, call>>
mqttVars == <<linkVars, clientVars, s_wifiState, subscribed, granted, silent, crowded>>

packet(type, id, arg) == [type |-> type, id |-> id, arg |-> arg]
NoCall == [fn |-> "none", needle |-> "NO_PACKET", id |-> 0, left |-> 0]
waitFor(fn, needle, id) == [fn |-> fn, needle |-> needle, id |-> id, left |-> 0]
Least(a, b) == IF a < b THEN a ELSE b

connected == net # "down" /\ _connected
Idle == call = NoCall
Waits == call.fn \notin {"none", "keep_alive"}
Torn == in # <<>> /\ Head(in).type = "PART"

lwmqtt_get_next_packet_id ==
    IF last_packet_id = MaxPacketId THEN 1 ELSE last_packet_id + 1

MQTTInit ==
    /\ net = "down" /\ in = <<>> /\ out = <<>>
    /\ _connected = FALSE /\ last_packet_id = 1 /\ pong_pending = FALSE
    /\ keep_alive_timer = 0 /\ command_timer = 0 /\ call = NoCall
    /\ s_wifiState = "BROKER_PENDING" /\ subscribed = 0
    /\ granted = {} /\ silent = FALSE /\ crowded = FALSE

(* MQTTClient::close, which every error of the client ends in.             *)
close ==
    /\ _connected' = FALSE
    /\ net' = "down" /\ in' = <<>> /\ out' = <<>>

(* lwmqtt_send_packet_in_buffer: a link that is full or broken refuses.    *)
CanSend(ps) == net # "down" /\ Len(out) + Len(ps) <= Capacity
send(p) == out' = Append(out, p) /\ keep_alive_timer' = KeepAlive

(* A call that fails before it has to wait.                                *)
FailsAtOnce ==
    /\ close /\ call' = NoCall
    /\ UNCHANGED keep_alive_timer

(* MQTTClient::connect, from brokerConnectionAttempt: a new TCP connection *)
(* and CONNECT.                                                            *)
PongOnConnect_kept == pong_pending
PongOnConnect == FALSE

connect ==
    /\ Idle /\ s_wifiState = "BROKER_PENDING" /\ ~connected
    /\ \/ UNCHANGED <<linkVars, clientVars, silent>>      \* NETWORK_FAILED_CONNECT
       \/ /\ net' = "up" /\ silent' = FALSE /\ in' = <<>>
          /\ out' = <<packet("CONNECT", 0, 0)>>
          /\ keep_alive_timer' = KeepAlive /\ command_timer' = Timeout
          /\ pong_pending' = PongOnConnect
          /\ call' = waitFor("connect", "CONNACK", 0)
          /\ UNCHANGED <<_connected, last_packet_id>>
    /\ subscribed' = 0
    /\ UNCHANGED <<s_wifiState, granted, crowded>>

(* MQTTClient::subscribe, one topic after the other.  One that fails ends  *)
(* the loop.                                                               *)
subscribe ==
    /\ Idle /\ s_wifiState = "BROKER_PENDING" /\ connected /\ subscribed < numSubs
    /\ command_timer' = Timeout
    /\ last_packet_id' = lwmqtt_get_next_packet_id
    /\ LET p == packet("SUBSCRIBE", last_packet_id', subscribed + 1) IN
       IF CanSend(<<p>>)
       THEN /\ send(p) /\ call' = waitFor("subscribe", "SUBACK", p.id)
            /\ UNCHANGED <<net, in, _connected, subscribed>>
       ELSE FailsAtOnce /\ subscribed' = numSubs
    /\ UNCHANGED <<pong_pending, s_wifiState, granted, silent, crowded>>

(* The end of the loop over the subscriptions: wifi_runnable asks only     *)
(* whether the client is still connected.                                  *)
Subscribed ==
    /\ Idle /\ s_wifiState = "BROKER_PENDING" /\ connected /\ subscribed = numSubs
    /\ s_wifiState' = "CONNECTED"
    /\ UNCHANGED <<linkVars, clientVars, subscribed, granted, silent, crowded>>

(* wifi_retry once the client is not connected or the wifi is lost.        *)
(* MQTTClient::disconnect does nothing for a client that is not connected: *)
(* _connected outlives a link that broke between two calls.                *)
Retry ==
    /\ Idle /\ s_wifiState = "CONNECTED" /\ net # "up"
    /\ IF connected THEN close ELSE UNCHANGED <<linkVars, _connected>>
    /\ s_wifiState' = "BROKER_PENDING"
    /\ UNCHANGED <<last_packet_id, pong_pending, keep_alive_timer, command_timer, call,
                   subscribed, granted, silent, crowded>>

(* MQTTClient::publish, by wifi_publish outside the callback.              *)
AckType == <<"PUBACK", "PUBCOMP">>

publish ==
    /\ Idle /\ s_wifiState = "CONNECTED" /\ connected
    /\ command_timer' = Timeout
    /\ \E qos \in Qos :
         LET id == IF qos = 0 THEN 0 ELSE lwmqtt_get_next_packet_id
             p == packet("PUBLISH", id, qos)
         IN  /\ last_packet_id' = IF qos = 0 THEN last_packet_id ELSE id
             /\ IF CanSend(<<p>>)
                THEN /\ send(p)
                     /\ call' = IF qos = 0 THEN NoCall ELSE waitFor("publish", AckType[qos], id)
                     /\ UNCHANGED <<net, in, _connected>>
                ELSE FailsAtOnce
    /\ UNCHANGED <<pong_pending, s_wifiState, subscribed, granted, silent, crowded>>

(* MQTTClient::loop: what has arrived is read first, then the connection   *)
(* is kept alive.  available() knows of no more than the read buffer holds.*)
Available == Least(Window, Len(in))

Loops == Idle /\ s_wifiState = "CONNECTED" /\ connected

loop ==
    /\ Loops /\ Available > 0
    /\ call' = [NoCall EXCEPT !.fn = "yield", !.left = Available] /\ command_timer' = Timeout
    /\ crowded' = (Len(in) > Window)
    /\ UNCHANGED <<linkVars, _connected, last_packet_id, pong_pending, keep_alive_timer,
                   s_wifiState, subscribed, granted, silent>>

(* lwmqtt_keep_alive.                                                      *)
GivesUp_never == FALSE
GivesUp == pong_pending

KeepsAlive == (Loops /\ Available = 0) \/ call.fn = "keep_alive"
PingDue == KeepsAlive /\ keep_alive_timer = 0

KeepAliveOver ==
    /\ KeepsAlive /\ (keep_alive_timer > 0 \/ (pong_pending /\ ~GivesUp))
    /\ call' = NoCall /\ command_timer' = Timeout
    /\ UNCHANGED <<linkVars, _connected, last_packet_id, pong_pending, keep_alive_timer,
                   s_wifiState, subscribed, granted, silent, crowded>>

Ping ==
    /\ PingDue /\ ~pong_pending
    /\ IF CanSend(<<"PINGREQ">>)
       THEN /\ send(packet("PINGREQ", 0, 0)) /\ pong_pending' = TRUE /\ call' = NoCall
            /\ UNCHANGED <<net, in, _connected>>
       ELSE FailsAtOnce /\ UNCHANGED pong_pending
    /\ command_timer' = Timeout
    /\ UNCHANGED <<last_packet_id, s_wifiState, subscribed, granted, silent, crowded>>

PongTimeout ==
    /\ PingDue /\ GivesUp
    /\ FailsAtOnce /\ command_timer' = Timeout
    /\ UNCHANGED <<last_packet_id, pong_pending, s_wifiState, subscribed, granted, silent, crowded>>

(* What lwmqtt_cycle sends on a packet.  The rig's callback answers most   *)
(* commands of the UI with a publication of its own, from inside the cycle,*)
(* and is silent on the others and on those meant for another rig.         *)
Answers(p) ==
    {<<>>} \cup IF p.type = "PUBLISH" /\ _connected THEN {<<packet("PUBLISH", 0, 0)>>} ELSE {}

(* The acknowledgements of both sides: PUBLISH by its level, then the next *)
(* packet of level 2.                                                      *)
AckOf(p) ==
    IF p.type = "PUBLISH" THEN <<"none", "PUBACK", "PUBREC">>[p.arg + 1]
    ELSE IF p.type = "PUBREC" THEN "PUBREL"
    ELSE IF p.type = "PUBREL" THEN "PUBCOMP"
    ELSE "none"

Handshake(p) == IF AckOf(p) = "none" THEN <<>> ELSE <<packet(AckOf(p), p.id, 0)>>

Replies(p, answer) == answer \o Handshake(p)

(* A CONNACK that denies and a SUBACK with a failure code carry arg 1.     *)
Accepts_any(p) == TRUE
Accepts(p) == p.type \in {"CONNACK", "SUBACK"} => p.arg = 0

(* The packet that ends the call, and what the call was for is done.       *)
Found(p) == p.type = call.needle

Ends(p) ==
    /\ call' = NoCall
    /\ _connected' = (_connected \/ call.fn = "connect")
    /\ subscribed' = IF call.fn = "subscribe" THEN subscribed + 1 ELSE subscribed

GoesOn ==
    /\ call' = IF call.fn # "yield" THEN call
               ELSE IF call.left > 1 THEN [call EXCEPT !.left = @ - 1]
               ELSE [NoCall EXCEPT !.fn = "keep_alive"]
    /\ UNCHANGED <<_connected, subscribed>>

(* MQTTClient.cpp's "close connection" after an error of lwmqtt.           *)
EndsCall ==
    /\ call' = NoCall
    /\ subscribed' = IF call.fn = "subscribe" THEN numSubs ELSE subscribed

Fails_publishOpen ==
    EndsCall /\ IF call.fn = "publish" THEN UNCHANGED <<linkVars, _connected>> ELSE close

Fails == EndsCall /\ close

(* lwmqtt_cycle: one packet is read and handled.                           *)
Reads == Waits /\ net # "down" /\ command_timer > 0

Cycle ==
    /\ Reads /\ in # <<>> /\ ~Torn
    /\ \E answer \in Answers(Head(in)) :
       LET p == Head(in)
           replies == Replies(p, answer)
       IN
       /\ pong_pending' = (pong_pending /\ p.type # "PINGRESP")
       /\ silent' = (silent /\ (p.type = "PINGRESP" => net = "mute"))
       /\ keep_alive_timer' = IF replies = <<>> THEN keep_alive_timer ELSE KeepAlive
       /\ command_timer' = IF answer = <<>> THEN command_timer ELSE Timeout
       /\ \/ /\ CanSend(replies) /\ ~(Found(p) /\ ~Accepts(p))
             /\ in' = Tail(in) /\ out' = out \o replies /\ UNCHANGED net
             /\ IF Found(p) THEN Ends(p) ELSE GoesOn
          \/ /\ ~CanSend(replies) \/ (Found(p) /\ ~Accepts(p))
             /\ Fails
    /\ UNCHANGED <<last_packet_id, s_wifiState, granted, crowded>>

(* The command timer ends the wait: a call that waits for its packet       *)
(* fails, and so does any that has half a packet.  loop goes on.           *)
TimesOut ==
    /\ Waits /\ net # "down" /\ command_timer = 0
    /\ IF call.fn = "yield" /\ ~Torn
       THEN /\ call' = [NoCall EXCEPT !.fn = "keep_alive"]
            /\ UNCHANGED <<linkVars, _connected, subscribed>>
       ELSE Fails
    /\ UNCHANGED <<last_packet_id, pong_pending, keep_alive_timer, command_timer,
                   s_wifiState, granted, silent, crowded>>

(* The link broke in the middle of a call: reading and writing fail.       *)
Breaks ==
    /\ Waits /\ net = "down"
    /\ Fails
    /\ UNCHANGED <<last_packet_id, pong_pending, keep_alive_timer, command_timer,
                   s_wifiState, granted, silent, crowded>>

(***************************************************************************)
(* The broker and the link.                                                *)
(***************************************************************************)
BrokerReply(p, refuse) ==
    IF p.type = "CONNECT" THEN <<packet("CONNACK", 0, refuse)>>
    ELSE IF p.type = "SUBSCRIBE" THEN <<packet("SUBACK", p.id, refuse)>>
    ELSE IF p.type = "PINGREQ" THEN <<packet("PINGRESP", 0, 0)>>
    ELSE Handshake(p)

(* The rig asks for a session that outlives the connection; whether the    *)
(* broker still has it is open.                                            *)
BrokerReads ==
    /\ net = "up" /\ out # <<>>
    /\ LET p == Head(out) IN
       \E refuse \in IF p.type \in {"CONNECT", "SUBSCRIBE"} THEN {0, 1} ELSE {0} :
         /\ Len(in \o BrokerReply(p, refuse)) <= Capacity
         /\ in' = in \o BrokerReply(p, refuse)
         /\ granted' \in IF p.type = "CONNECT" THEN {{}, granted}
                         ELSE IF p.type = "SUBSCRIBE" /\ refuse = 0 THEN {granted \cup {p.arg}}
                         ELSE {granted}
    /\ out' = Tail(out)
    /\ UNCHANGED <<net, clientVars, s_wifiState, subscribed, silent, crowded>>

(* A command of the UI, whole or cut off by a link that goes silent.       *)
BrokerPublishes ==
    /\ net = "up" /\ granted # {} /\ Len(in) < Capacity
    /\ \A i \in DOMAIN out : out[i].type # "CONNECT"
    /\ \/ /\ \E qos \in Qos : in' = Append(in, packet("PUBLISH", IF qos = 0 THEN 0 ELSE 1, qos))
          /\ UNCHANGED <<net, silent>>
       \/ in' = Append(in, packet("PART", 0, 0)) /\ net' = "mute" /\ silent' = TRUE
    /\ UNCHANGED <<out, clientVars, s_wifiState, subscribed, granted, crowded>>

LinkChanges ==
    /\ \/ net = "up" /\ net' = "mute" /\ silent' = TRUE /\ UNCHANGED <<in, out>>
       \/ /\ net = "mute" /\ net' = "up" /\ \A i \in DOMAIN in : in[i].type # "PART"
          /\ UNCHANGED <<in, out, silent>>
       \/ net # "down" /\ net' = "down" /\ in' = <<>> /\ out' = <<>> /\ UNCHANGED silent
    /\ UNCHANGED <<clientVars, s_wifiState, subscribed, granted, crowded>>

(* Time passes for a rig that waits for a packet, and for one that is busy *)
(* elsewhere; a link that works delivers and is answered within a tick.    *)
Tick ==
    /\ Idle \/ (Waits /\ command_timer > 0 /\ (in = <<>> \/ Torn))
    /\ net = "up" => out = <<>>
    /\ keep_alive_timer' = IF keep_alive_timer > 0 THEN keep_alive_timer - 1 ELSE 0
    /\ command_timer' = IF command_timer > 0 THEN command_timer - 1 ELSE 0
    /\ UNCHANGED <<linkVars, _connected, last_packet_id, pong_pending, call,
                   s_wifiState, subscribed, granted, silent, crowded>>

RigStep ==
    \/ connect \/ subscribe \/ Subscribed \/ Retry \/ loop
    \/ KeepAliveOver \/ Ping \/ PongTimeout \/ Cycle \/ TimesOut \/ Breaks

MQTTNext == RigStep \/ publish \/ BrokerReads \/ BrokerPublishes \/ LinkChanges \/ Tick

(* The scheduler calls the wifi task for ever and the clock goes on.       *)
MQTTFairness == WF_mqttVars(RigStep) /\ WF_mqttVars(Tick)
MQTTSpec == MQTTInit /\ [][MQTTNext]_mqttVars /\ MQTTFairness

(***************************************************************************)
(* Properties                                                              *)
(***************************************************************************)

(* lwmqtt compares the type of an acknowledgement, never its packet id.    *)
(* An acknowledgement that ends a call is still the one for its packet,    *)
(* because MQTTClient closes the connection on every error: no late one    *)
(* survives the call it was for.                                           *)
AckIsMine ==
    [][ (Cycle /\ call.fn \in {"subscribe", "publish"} /\ call' = NoCall /\ _connected')
          => Head(in).id = call.id ]_mqttVars

(* A rig that calls itself CONNECTED hears every command of the UI: the    *)
(* loop over the subscriptions (cfg/wifi.h) forgets that one failed and    *)
(* relies on subscribe to close the connection when it fails.              *)
HearsEverything ==
    s_wifiState = "CONNECTED" => granted = 1 .. numSubs

(* The keep alive does not give up a broker that answers: when it does,    *)
(* the link has been silent.  So it is even if the rig was busy for so     *)
(* long that ping and answer both became overdue, because loop reads first,*)
(* and after a reconnect.  The exception is a socket whose read buffer had *)
(* no room for all that had come: then the answer is there and waits, or   *)
(* went down with the link, behind what this loop has read.                *)
AnswerWaits == net = "down" \/ \E i \in DOMAIN in : in[i].type = "PINGRESP"

PongTimeoutIsTrue ==
    [][PongTimeout => silent \/ (crowded /\ AnswerWaits)]_mqttVars

(* A link that stays silent is noticed, by the keep alive or by a write    *)
(* that fails: the rig does not wait for commands that cannot come.        *)
SilenceIsNoticed ==
    (net = "mute" /\ _connected) ~> (net # "mute" \/ ~_connected)

=============================================================================
