----------------------------- MODULE MQTTProofs ------------------------------
(***************************************************************************)
(* For any number of topics, any levels of the messages, any times and any *)
(* capacity of link and buffer.                                            *)
(***************************************************************************)
EXTENDS MQTTClient, TLAPS

-----------------------------------------------------------------------------
(* The rest of a sequence.                                                 *)
LEMMA TailFacts ==
    ASSUME NEW S, NEW q \in Seq(S), q # <<>>
    PROVE  /\ Tail(q) \in Seq(S) /\ Head(q) \in S
           /\ Head(q) = q[1] /\ 1 \in DOMAIN q /\ Len(q) \in Nat
           /\ Len(Tail(q)) = Len(q) - 1
           /\ \A i \in DOMAIN Tail(q) :
                 i \in Nat /\ i + 1 \in DOMAIN q /\ Tail(q)[i] = q[i + 1]
  OBVIOUS

(* Two sequences joined.                                                   *)
LEMMA JoinFacts ==
    ASSUME NEW S, NEW q \in Seq(S), NEW r \in Seq(S)
    PROVE  /\ q \o r \in Seq(S)
           /\ Len(q \o r) = Len(q) + Len(r) /\ Len(q) \in Nat /\ Len(r) \in Nat
           /\ \A i \in DOMAIN (q \o r) :
                 \/ i \in DOMAIN q /\ (q \o r)[i] = q[i]
                 \/ i \in Nat /\ i - Len(q) \in DOMAIN r /\ (q \o r)[i] = r[i - Len(q)]
  OBVIOUS

(* A packet added is a sequence joined.                                    *)
LEMMA AppendIsJoin ==
    ASSUME NEW S, NEW q \in Seq(S), NEW p \in S
    PROVE  /\ Append(q, p) = q \o <<p>> /\ <<p>> \in Seq(S)
           /\ DOMAIN <<p>> = {1} /\ <<p>>[1] = p
  OBVIOUS

-----------------------------------------------------------------------------
(* The invariant.  What is on its way belongs to the call in progress: a   *)
(* CONNECT is alone, its CONNACK and a SUBSCRIBE or its SUBACK are there   *)
(* once; a SUBACK that grants means the topic the loop asks for.           *)
Types ==
    {"CONNECT", "CONNACK", "SUBSCRIBE", "SUBACK", "PUBLISH", "PUBACK", "PUBREC", "PUBREL",
     "PUBCOMP", "PINGREQ", "PINGRESP", "PART"}
Packets ==
    {p \in [type : Types, id : Nat, arg : Nat] : p.type = "PUBLISH" => p.arg \in 0 .. 2}
Calls ==
    [fn : {"none", "connect", "subscribe", "publish", "yield", "keep_alive"},
     needle : Types \cup {"NO_PACKET"}, id : Nat, left : Int]

MQTTTypeOK ==
    /\ net \in {"down", "up", "mute"} /\ in \in Seq(Packets) /\ out \in Seq(Packets)
    /\ _connected \in BOOLEAN /\ last_packet_id \in Nat
    /\ call \in Calls
    /\ s_wifiState \in {"BROKER_PENDING", "CONNECTED"}
    /\ subscribed \in 0 .. numSubs /\ granted \subseteq 1 .. numSubs

Has(ps, t) == \E i \in DOMAIN ps : ps[i].type = t
Once(ps, t) ==
    \A i, j \in DOMAIN ps : (ps[i].type = t /\ ps[j].type = t) => i = j

LinkIsEmpty == net = "down" => (in = <<>> /\ out = <<>>)

Connecting ==
    /\ call.fn = "connect" =>
          s_wifiState = "BROKER_PENDING" /\ subscribed = 0 /\ call.needle = "CONNACK"
    /\ Has(out, "CONNECT") => call.fn = "connect" /\ in = <<>> /\ Len(out) = 1
    /\ Has(in, "CONNACK") => call.fn = "connect"
    /\ Once(in, "CONNACK")

Subscribing ==
    /\ call.fn = "subscribe" =>
          s_wifiState = "BROKER_PENDING" /\ subscribed < numSubs /\ call.needle = "SUBACK"
    /\ Has(out, "SUBSCRIBE") => call.fn = "subscribe" /\ ~Has(in, "SUBACK")
    /\ Once(out, "SUBSCRIBE")
    /\ Has(in, "SUBACK") => call.fn = "subscribe"
    /\ Once(in, "SUBACK")

Meant ==
    /\ \A i \in DOMAIN out : out[i].type = "SUBSCRIBE" => out[i].arg = subscribed + 1
    /\ \A i \in DOMAIN in :
          (in[i].type = "SUBACK" /\ in[i].arg = 0) => subscribed + 1 \in granted

Granted ==
    /\ (connected /\ s_wifiState = "BROKER_PENDING") => 1 .. subscribed \subseteq granted
    /\ HearsEverything

MQTTInv == MQTTTypeOK /\ LinkIsEmpty /\ Connecting /\ Subscribing /\ Meant /\ Granted

-----------------------------------------------------------------------------
(* What is on its way after a packet has been taken or added.              *)
LEMMA HasTail ==
    ASSUME NEW S, NEW q \in Seq(S), q # <<>>, NEW t
    PROVE  /\ ~Has(q, t) => ~Has(Tail(q), t)
           /\ Once(q, t) => Once(Tail(q), t)
           /\ (Once(q, t) /\ Head(q).type = t) => ~Has(Tail(q), t)
<1>1. ~Has(q, t) => ~Has(Tail(q), t)
  BY TailFacts DEF Has
<1>2. Once(q, t) => Once(Tail(q), t)
  <2>. SUFFICES ASSUME Once(q, t), NEW i \in DOMAIN Tail(q), NEW j \in DOMAIN Tail(q),
                       Tail(q)[i].type = t, Tail(q)[j].type = t
                PROVE  i = j
    BY DEF Once
  <2>1. i + 1 = j + 1 /\ i \in Nat /\ j \in Nat
    BY TailFacts DEF Once
  <2>. QED
    BY <2>1
<1>3. (Once(q, t) /\ Head(q).type = t) => ~Has(Tail(q), t)
  <2>. SUFFICES ASSUME Once(q, t), q[1].type = t, NEW i \in DOMAIN Tail(q),
                       Tail(q)[i].type = t
                PROVE  FALSE
    BY TailFacts DEF Has
  <2>1. i \in Nat /\ i # 0 /\ i + 1 = 1
    BY TailFacts DEF Once
  <2>. QED
    BY <2>1
<1>. QED
  BY <1>1, <1>2, <1>3

(* A type that one of two sequences has.                                   *)
LEMMA HasJoin ==
    ASSUME NEW S, NEW q \in Seq(S), NEW r \in Seq(S), NEW t
    PROVE  /\ (~Has(q, t) /\ ~Has(r, t)) => ~Has(q \o r, t)
           /\ (Once(q, t) /\ ~Has(r, t)) => Once(q \o r, t)
           /\ (~Has(q, t) /\ Once(r, t)) => Once(q \o r, t)
<1>1. (~Has(q, t) /\ ~Has(r, t)) => ~Has(q \o r, t)
  BY JoinFacts DEF Has
<1>2. (Once(q, t) /\ ~Has(r, t)) => Once(q \o r, t)
  BY JoinFacts DEF Has, Once
<1>3. (~Has(q, t) /\ Once(r, t)) => Once(q \o r, t)
  <2>. SUFFICES ASSUME ~Has(q, t), Once(r, t),
                       NEW i \in DOMAIN (q \o r), NEW j \in DOMAIN (q \o r),
                       (q \o r)[i].type = t, (q \o r)[j].type = t
                PROVE  i = j
    BY DEF Once
  <2>1. i \in Nat /\ i - Len(q) \in DOMAIN r /\ r[i - Len(q)].type = t
    BY JoinFacts DEF Has
  <2>2. j \in Nat /\ j - Len(q) \in DOMAIN r /\ r[j - Len(q)].type = t
    BY JoinFacts DEF Has
  <2>3. i - Len(q) = j - Len(q) /\ Len(q) \in Nat
    BY <2>1, <2>2, JoinFacts DEF Once
  <2>. QED
    BY <2>1, <2>2, <2>3
<1>. QED
  BY <1>1, <1>2, <1>3

(* No packets, no type.                                                    *)
LEMMA HasEmpty ==
    ASSUME NEW t
    PROVE  ~Has(<<>>, t) /\ Once(<<>>, t)
  BY DEF Has, Once

(* A single packet has its type only, and once.                            *)
LEMMA HasOne ==
    ASSUME NEW p, NEW t
    PROVE  Once(<<p>>, t) /\ (Has(<<p>>, t) => p.type = t)
  BY DEF Has, Once

(* packet makes a packet.                                                  *)
LEMMA PacketFacts ==
    ASSUME NEW t \in Types, NEW n \in Nat, NEW a \in Nat, t = "PUBLISH" => a \in 0 .. 2
    PROVE  /\ packet(t, n, a) \in Packets
           /\ packet(t, n, a).type = t /\ packet(t, n, a).arg = a /\ packet(t, n, a).id = n
  BY DEF packet, Packets

(* Every packet of the handshake follows the one before it, with its id.   *)
LEMMA HandshakeFacts ==
    ASSUME NEW p \in Packets
    PROVE  \/ Handshake(p) = <<>>
           \/ \E r \in Packets :
                 /\ Handshake(p) = <<r>> /\ r.id = p.id
                 /\ r.type \in {"PUBACK", "PUBREC", "PUBREL", "PUBCOMP"}
                 /\ r.type = "PUBREL" => p.type = "PUBREC"
                 /\ r.type \in {"PUBACK", "PUBREC"} => p.type = "PUBLISH" /\ p.arg # 0
                 /\ r.type = "PUBCOMP" => p.type = "PUBREL"
<1>. DEFINE r == packet(AckOf(p), p.id, 0)
<1>1. p.id \in Nat /\ (p.type = "PUBLISH" => p.arg \in {0, 1, 2})
  BY DEF Packets
<1>2. /\ AckOf(p) \in {"none", "PUBACK", "PUBREC", "PUBREL", "PUBCOMP"}
      /\ AckOf(p) = "PUBREL" => p.type = "PUBREC"
      /\ AckOf(p) \in {"PUBACK", "PUBREC"} => p.type = "PUBLISH" /\ p.arg # 0
      /\ AckOf(p) = "PUBCOMP" => p.type = "PUBREL"
  BY <1>1 DEF AckOf
<1>3. AckOf(p) # "none" => r \in Packets /\ r.type = AckOf(p) /\ r.id = p.id
  BY <1>1, <1>2, PacketFacts DEF Types
<1>4. Handshake(p) = IF AckOf(p) = "none" THEN <<>> ELSE <<r>>
  BY DEF Handshake
<1>. HIDE DEF r
<1>. QED
  BY <1>2, <1>3, <1>4

(* The callback answers with a PUBLISH, if at all.                         *)
LEMMA AnswersFacts ==
    ASSUME NEW p, NEW answer \in Answers(p)
    PROVE  answer = <<>> \/ \E a \in Packets : answer = <<a>> /\ a.type = "PUBLISH" /\ a.arg = 0
<1>1. /\ packet("PUBLISH", 0, 0) \in Packets
      /\ packet("PUBLISH", 0, 0).type = "PUBLISH" /\ packet("PUBLISH", 0, 0).arg = 0
  BY PacketFacts DEF Types
<1>. QED
  BY <1>1 DEF Answers

(* The client answers with no CONNECT and no SUBSCRIBE.                    *)
LEMMA RepliesFacts ==
    ASSUME NEW p \in Packets, NEW answer \in Answers(p)
    PROVE  /\ Replies(p, answer) \in Seq(Packets)
           /\ ~Has(Replies(p, answer), "CONNECT") /\ ~Has(Replies(p, answer), "SUBSCRIBE")
<1>1. <<>> \in Seq(Packets) /\ \A a \in Packets : <<a>> \in Seq(Packets)
  OBVIOUS
<1>2. answer \in Seq(Packets) /\ ~Has(answer, "CONNECT") /\ ~Has(answer, "SUBSCRIBE")
  <2>1. CASE answer = <<>>
    BY <1>1, <2>1, HasEmpty
  <2>2. CASE answer # <<>>
    <3>1. PICK a \in Packets : answer = <<a>> /\ a.type = "PUBLISH"
      BY <2>2, AnswersFacts
    <3>. QED
      BY <1>1, <3>1, HasOne
  <2>. QED
    BY <2>1, <2>2
<1>3. Handshake(p) \in Seq(Packets)
  <2>1. <<>> \in Seq(Packets) /\ \A r \in Packets : <<r>> \in Seq(Packets)
    OBVIOUS
  <2>. QED
    BY <2>1, HandshakeFacts
<1>4. ~Has(Handshake(p), "CONNECT") /\ ~Has(Handshake(p), "SUBSCRIBE")
  BY HandshakeFacts, HasEmpty, HasOne
<1>5. Replies(p, answer) = answer \o Handshake(p)
  BY DEF Replies
<1>. QED
  BY <1>2, <1>3, <1>4, <1>5, JoinFacts, HasJoin

(* The broker answers only a CONNECT with CONNACK, only a SUBSCRIBE with   *)
(* SUBACK.                                                                 *)
LEMMA BrokerFacts ==
    ASSUME NEW p \in Packets, NEW refuse \in {0, 1}
    PROVE  /\ BrokerReply(p, refuse) \in Seq(Packets)
           /\ p.type # "CONNECT" => ~Has(BrokerReply(p, refuse), "CONNACK")
           /\ p.type # "SUBSCRIBE" => ~Has(BrokerReply(p, refuse), "SUBACK")
           /\ Once(BrokerReply(p, refuse), "CONNACK")
           /\ Once(BrokerReply(p, refuse), "SUBACK")
<1>1. \/ BrokerReply(p, refuse) = <<>>
      \/ \E r \in Packets : /\ BrokerReply(p, refuse) = <<r>>
                            /\ r.type = "CONNACK" => p.type = "CONNECT"
                            /\ r.type = "SUBACK" => p.type = "SUBSCRIBE"
  <2>1. \A t \in {"CONNACK", "SUBACK", "PINGRESP"}, id \in Nat, a \in {0, 1} :
           packet(t, id, a) \in Packets /\ packet(t, id, a).type = t
    BY PacketFacts DEF Types
  <2>2. p.id \in Nat
    BY DEF Packets
  <2>. QED
    BY <2>1, <2>2, HandshakeFacts DEF BrokerReply
<1>2. <<>> \in Seq(Packets) /\ \A r \in Packets : <<r>> \in Seq(Packets)
  OBVIOUS
<1>3. CASE BrokerReply(p, refuse) = <<>>
  BY <1>2, <1>3, HasEmpty
<1>4. CASE BrokerReply(p, refuse) # <<>>
  <2>1. PICK r \in Packets : /\ BrokerReply(p, refuse) = <<r>>
                             /\ r.type = "CONNACK" => p.type = "CONNECT"
                             /\ r.type = "SUBACK" => p.type = "SUBSCRIBE"
    BY <1>1, <1>4
  <2>2. /\ <<r>> \in Seq(Packets)
        /\ p.type # "CONNECT" => ~Has(<<r>>, "CONNACK")
        /\ p.type # "SUBSCRIBE" => ~Has(<<r>>, "SUBACK")
        /\ Once(<<r>>, "CONNACK") /\ Once(<<r>>, "SUBACK")
    BY <1>2, <2>1, HasOne
  <2>. QED
    BY <2>1, <2>2
<1>. QED
  BY <1>3, <1>4

-----------------------------------------------------------------------------
(* A step that closes the connection leaves nothing on its way.            *)
LEMMA ClosedInv ==
    ASSUME MQTTInv, close, call' = NoCall, subscribed' \in {subscribed, numSubs},
           last_packet_id' \in Nat, UNCHANGED <<s_wifiState, granted>>
    PROVE  MQTTInv'
<1>1. net' = "down" /\ in' = <<>> /\ out' = <<>> /\ _connected' = FALSE /\ numSubs \in Nat
      /\ call'.fn = "none"
  BY MQTTAssumption DEF close, NoCall
<1>2. MQTTTypeOK'
  <2>1. NoCall \in Calls /\ <<>> \in Seq(Packets)
    BY DEF NoCall, Calls
  <2>2. subscribed' \in 0 .. numSubs
    BY <1>1 DEF MQTTInv, MQTTTypeOK
  <2>. QED
    BY <1>1, <2>1, <2>2 DEF MQTTInv, MQTTTypeOK
<1>3. LinkIsEmpty'
  BY <1>1 DEF LinkIsEmpty
<1>4. Connecting' /\ Subscribing'
  BY <1>1, HasEmpty DEF Connecting, Subscribing
<1>5. Meant'
  BY <1>1 DEF Meant
<1>6. Granted'
  BY <1>1 DEF MQTTInv, Granted, HearsEverything, connected
<1>. QED
  BY <1>2, <1>3, <1>4, <1>5, <1>6 DEF MQTTInv

(* A step of the client that touches neither link nor subscriptions.       *)
LEMMA QuietInv ==
    ASSUME MQTTInv, UNCHANGED <<linkVars, _connected, s_wifiState, subscribed, granted>>,
           last_packet_id' \in Nat, call' \in Calls,
           \/ call' = call
           \/ call.fn \notin {"connect", "subscribe"} /\ call'.fn \notin {"connect", "subscribe"}
    PROVE  MQTTInv'
<1>1. MQTTTypeOK' /\ LinkIsEmpty' /\ Meant' /\ Granted'
  BY DEF MQTTInv, MQTTTypeOK, LinkIsEmpty, Meant, Granted, HearsEverything, connected, linkVars
<1>2. Connecting' /\ Subscribing'
  BY DEF MQTTInv, Connecting, Subscribing, linkVars
<1>. QED
  BY <1>1, <1>2 DEF MQTTInv

-----------------------------------------------------------------------------
(* One action after the other; at first nothing is on its way.             *)
LEMMA InitInv == MQTTInit => MQTTInv
<1>. SUFFICES ASSUME MQTTInit PROVE MQTTInv
  OBVIOUS
<1>1. MQTTTypeOK
  <2>1. NoCall \in Calls /\ <<>> \in Seq(Packets) /\ 0 \in 0 .. numSubs
    BY MQTTAssumption DEF NoCall, Calls
  <2>. QED
    BY <2>1 DEF MQTTInit, MQTTTypeOK
<1>2. Connecting /\ Subscribing
  BY HasEmpty DEF MQTTInit, Connecting, Subscribing, NoCall
<1>3. LinkIsEmpty /\ Meant /\ Granted
  BY DEF MQTTInit, LinkIsEmpty, Meant, Granted, HearsEverything, connected
<1>. QED
  BY <1>1, <1>2, <1>3 DEF MQTTInv

(* A connection starts with nothing but its CONNECT on its way.            *)
LEMMA ConnectInv ==
    ASSUME MQTTInv, connect
    PROVE  MQTTInv'
<1>. DEFINE p == packet("CONNECT", 0, 0)
<1>1. call.fn = "none" /\ s_wifiState = "BROKER_PENDING" /\ s_wifiState' = s_wifiState
      /\ subscribed' = 0 /\ granted' = granted /\ last_packet_id' = last_packet_id
      /\ _connected' = _connected /\ ~connected /\ 0 \in 0 .. numSubs
  BY MQTTAssumption DEF connect, Idle, NoCall, clientVars
<1>2. CASE UNCHANGED <<linkVars, clientVars, silent>>
  <2>1. MQTTTypeOK' /\ LinkIsEmpty' /\ Granted' /\ Meant'
    BY <1>1, <1>2 DEF MQTTInv, MQTTTypeOK, LinkIsEmpty, Granted, HearsEverything, connected,
                      Meant, Connecting, Subscribing, Has, linkVars, clientVars
  <2>2. Connecting' /\ Subscribing'
    BY <1>1, <1>2 DEF MQTTInv, Connecting, Subscribing, linkVars, clientVars
  <2>. QED
    BY <2>1, <2>2 DEF MQTTInv
<1>3. CASE net' = "up" /\ in' = <<>> /\ out' = <<p>> /\ call' = waitFor("connect", "CONNACK", 0)
  <2>1. p \in Packets /\ p.type = "CONNECT" /\ <<p>> \in Seq(Packets) /\ <<>> \in Seq(Packets)
    BY PacketFacts DEF Types
  <2>2. call' \in Calls /\ call'.fn = "connect" /\ call'.needle = "CONNACK"
    BY <1>3 DEF waitFor, Calls, Types
  <2>. HIDE DEF p
  <2>3. MQTTTypeOK' /\ LinkIsEmpty' /\ Granted'
    BY <1>1, <1>3, <2>1, <2>2
    DEF MQTTInv, MQTTTypeOK, LinkIsEmpty, Granted, HearsEverything, connected
  <2>4. Meant'
    BY <1>3, <2>1 DEF Meant
  <2>5. ~Has(<<p>>, "SUBSCRIBE") /\ Len(<<p>>) = 1
    BY <2>1, HasOne
  <2>6. Connecting' /\ Subscribing'
    BY <1>1, <1>3, <2>1, <2>2, <2>5, HasEmpty, HasOne DEF Connecting, Subscribing
  <2>. QED
    BY <2>3, <2>4, <2>6 DEF MQTTInv
<1>. QED
  BY <1>2, <1>3 DEF connect

(* A SUBSCRIBE is the only one, because no other call waits for its SUBACK.*)
LEMMA SubscribeInv ==
    ASSUME MQTTInv, subscribe
    PROVE  MQTTInv'
<1>. DEFINE n == last_packet_id'
            p == packet("SUBSCRIBE", n, subscribed + 1)
<1>1. call.fn = "none" /\ s_wifiState = "BROKER_PENDING" /\ s_wifiState' = s_wifiState
      /\ subscribed < numSubs /\ granted' = granted /\ connected /\ n \in Nat
      /\ numSubs \in Nat /\ subscribed \in Nat
  BY MQTTAssumption
  DEF subscribe, Idle, NoCall, MQTTInv, MQTTTypeOK, lwmqtt_get_next_packet_id
<1>2. p \in Packets /\ p.type = "SUBSCRIBE" /\ p.arg = subscribed + 1
  BY <1>1, PacketFacts DEF Types
<1>3. CASE CanSend(<<p>>)
  <2>1. /\ out' = Append(out, p) /\ net' = net /\ in' = in /\ _connected' = _connected
        /\ subscribed' = subscribed /\ call' = waitFor("subscribe", "SUBACK", p.id)
    BY <1>3 DEF subscribe, send
  <2>2. p.id = n
    BY DEF packet
  <2>3. call' \in Calls /\ call'.fn = "subscribe" /\ call'.needle = "SUBACK"
    BY <1>1, <2>1, <2>2 DEF waitFor, Calls, Types
  <2>. HIDE DEF p, n
  <2>4. PICK q \in Seq(Packets), r \in Packets : q = out /\ r = p
    BY <1>2 DEF MQTTInv, MQTTTypeOK
  <2>5. out' = q \o <<r>> /\ <<r>> \in Seq(Packets)
    BY <2>1, <2>4, AppendIsJoin
  <2>6. ~Has(q, "CONNECT") /\ ~Has(q, "SUBSCRIBE") /\ ~Has(in, "CONNACK") /\ ~Has(in, "SUBACK")
    BY <1>1, <2>4 DEF MQTTInv, Connecting, Subscribing
  <2>7. ~Has(q \o <<r>>, "CONNECT") /\ Once(q \o <<r>>, "SUBSCRIBE")
    BY <1>2, <2>4, <2>5, <2>6, HasJoin, HasOne
  <2>8. MQTTTypeOK'
    BY <1>1, <2>1, <2>3, <2>5, JoinFacts DEF MQTTInv, MQTTTypeOK, n
  <2>9. LinkIsEmpty' /\ Granted'
    BY <1>1, <2>1 DEF connected, MQTTInv, Granted, HearsEverything, LinkIsEmpty
  <2>10. Connecting' /\ Subscribing'
    BY <1>1, <2>1, <2>3, <2>5, <2>6, <2>7 DEF MQTTInv, Connecting, Subscribing
  <2>11. ASSUME NEW i \in DOMAIN out', out'[i].type = "SUBSCRIBE"
         PROVE  out'[i].arg = subscribed + 1
    BY <1>2, <2>4, <2>5, <2>6, <2>11, JoinFacts DEF Has
  <2>12. Meant'
    BY <1>1, <2>1, <2>11 DEF MQTTInv, Meant
  <2>. QED
    BY <2>8, <2>9, <2>10, <2>12 DEF MQTTInv
<1>4. CASE ~CanSend(<<p>>)
  BY <1>1, <1>4, ClosedInv DEF subscribe, FailsAtOnce
<1>. QED
  BY <1>3, <1>4

(* The loop over the subscriptions ends with every topic granted.          *)
LEMMA SubscribedInv ==
    ASSUME MQTTInv, Subscribed
    PROVE  MQTTInv'
<1>1. call.fn = "none" /\ s_wifiState' = "CONNECTED" /\ 1 .. numSubs \subseteq granted
      /\ UNCHANGED <<net, in, out, _connected, last_packet_id, call, subscribed, granted>>
  BY DEF Subscribed, Idle, NoCall, MQTTInv, Granted, linkVars, clientVars
<1>2. granted = 1 .. numSubs
  BY <1>1 DEF MQTTInv, MQTTTypeOK
<1>3. MQTTTypeOK' /\ LinkIsEmpty' /\ Meant' /\ Granted'
  BY <1>1, <1>2 DEF MQTTInv, MQTTTypeOK, LinkIsEmpty, Meant, Granted, HearsEverything
<1>4. Connecting' /\ Subscribing'
  BY <1>1 DEF MQTTInv, Connecting, Subscribing
<1>. QED
  BY <1>3, <1>4 DEF MQTTInv

(* A retry leaves nothing behind that the next connection could see.       *)
LEMMA RetryInv ==
    ASSUME MQTTInv, Retry
    PROVE  MQTTInv'
<1>1. call.fn = "none" /\ s_wifiState' = "BROKER_PENDING" /\ net # "up"
      /\ UNCHANGED <<last_packet_id, call, subscribed, granted>>
  BY DEF Retry, Idle, NoCall
<1>2. CASE connected
  <2>1. net' = "down" /\ in' = <<>> /\ out' = <<>> /\ _connected' = FALSE /\ <<>> \in Seq(Packets)
    BY <1>2 DEF Retry, close
  <2>2. MQTTTypeOK'
    BY <1>1, <2>1 DEF MQTTInv, MQTTTypeOK
  <2>3. LinkIsEmpty' /\ Meant' /\ Granted'
    BY <1>1, <2>1 DEF LinkIsEmpty, Meant, Granted, HearsEverything, connected
  <2>4. Connecting' /\ Subscribing'
    BY <1>1, <2>1, HasEmpty DEF Connecting, Subscribing
  <2>. QED
    BY <2>2, <2>3, <2>4 DEF MQTTInv
<1>3. CASE ~connected
  <2>1. UNCHANGED <<net, in, out, _connected>>
    BY <1>3 DEF Retry, linkVars
  <2>2. MQTTTypeOK' /\ LinkIsEmpty' /\ Meant' /\ Granted'
    BY <1>1, <1>3, <2>1
    DEF MQTTInv, MQTTTypeOK, LinkIsEmpty, Meant, Granted, HearsEverything, connected
  <2>3. Connecting' /\ Subscribing'
    BY <1>1, <2>1 DEF MQTTInv, Connecting, Subscribing
  <2>. QED
    BY <2>2, <2>3 DEF MQTTInv
<1>. QED
  BY <1>2, <1>3

(* A packet of neither kind sent by a rig that neither connects nor        *)
(* subscribes.                                                             *)
LEMMA SendsInv ==
    ASSUME MQTTInv, NEW r \in Packets, r.type \notin {"CONNECT", "SUBSCRIBE"},
           net # "down", out' = Append(out, r),
           UNCHANGED <<net, in, _connected, s_wifiState, subscribed, granted>>,
           last_packet_id' \in Nat, call' \in Calls,
           call.fn \notin {"connect", "subscribe"}, call'.fn \notin {"connect", "subscribe"}
    PROVE  MQTTInv'
<1>1. PICK q \in Seq(Packets) : q = out
  BY DEF MQTTInv, MQTTTypeOK
<1>2. out' = q \o <<r>> /\ <<r>> \in Seq(Packets) /\ q \o <<r>> \in Seq(Packets)
  BY <1>1, AppendIsJoin, JoinFacts
<1>3. ~Has(q, "CONNECT") /\ ~Has(q, "SUBSCRIBE") /\ ~Has(in, "CONNACK") /\ ~Has(in, "SUBACK")
  BY <1>1 DEF MQTTInv, Connecting, Subscribing
<1>4. ~Has(q \o <<r>>, "CONNECT") /\ ~Has(q \o <<r>>, "SUBSCRIBE")
  BY <1>2, <1>3, HasJoin, HasOne
<1>5. MQTTTypeOK'
  BY <1>2 DEF MQTTInv, MQTTTypeOK
<1>6. LinkIsEmpty' /\ Granted'
  BY DEF MQTTInv, LinkIsEmpty, Granted, HearsEverything, connected
<1>7. Once(out', "SUBSCRIBE") /\ Meant'
  BY <1>2, <1>3, <1>4 DEF Meant, Has, Once
<1>8. Connecting' /\ Subscribing'
  BY <1>2, <1>3, <1>4, <1>7 DEF MQTTInv, Connecting, Subscribing
<1>. QED
  BY <1>5, <1>6, <1>7, <1>8 DEF MQTTInv

(* A publication is neither CONNECT nor SUBSCRIBE.                         *)
LEMMA PublishInv ==
    ASSUME MQTTInv, publish
    PROVE  MQTTInv'
<1>1. PICK qos \in Qos, id \in Nat :
         /\ last_packet_id' \in Nat
         /\ \/ /\ send(packet("PUBLISH", id, qos)) /\ UNCHANGED <<net, in, _connected>>
               /\ call' = IF qos = 0 THEN NoCall ELSE waitFor("publish", AckType[qos], id)
            \/ FailsAtOnce
  BY DEF publish, lwmqtt_get_next_packet_id, MQTTInv, MQTTTypeOK
<1>2. call.fn = "none" /\ net # "down" /\ UNCHANGED <<s_wifiState, subscribed, granted>>
  BY DEF publish, Idle, NoCall, connected
<1>3. CASE FailsAtOnce
  BY <1>1, <1>2, <1>3, ClosedInv DEF FailsAtOnce
<1>4. CASE ~FailsAtOnce
  <2>1. qos \in {0, 1, 2}
    BY MQTTAssumption
  <2>2. PICK r \in Packets : r = packet("PUBLISH", id, qos) /\ r.type = "PUBLISH"
    BY <2>1, PacketFacts DEF Types
  <2>3. NoCall \in Calls /\ NoCall.fn = "none"
    BY DEF NoCall, Calls
  <2>4. ASSUME qos # 0
        PROVE  /\ waitFor("publish", AckType[qos], id) \in Calls
               /\ waitFor("publish", AckType[qos], id).fn = "publish"
    BY <2>1, <2>4 DEF waitFor, Calls, Types, AckType
  <2>5. call' \in Calls /\ call'.fn \notin {"connect", "subscribe"}
    BY <1>1, <1>4, <2>3, <2>4
  <2>. QED
    BY <1>1, <1>2, <1>4, <2>2, <2>5, SendsInv DEF send
<1>. QED
  BY <1>3, <1>4

(* loop and the keep alive: a PINGREQ at most.                             *)
LEMMA LoopInv ==
    ASSUME MQTTInv, loop \/ KeepAliveOver \/ Ping \/ PongTimeout
    PROVE  MQTTInv'
<1>1. call.fn \in {"none", "keep_alive"}
  BY DEF loop, KeepAliveOver, Ping, PongTimeout, PingDue, KeepsAlive, Loops, Idle, NoCall
<1>2. NoCall \in Calls /\ NoCall.fn = "none" /\ last_packet_id' = last_packet_id
      /\ last_packet_id \in Nat
  BY DEF NoCall, Calls, loop, KeepAliveOver, Ping, PongTimeout, MQTTInv, MQTTTypeOK
<1>3. CASE loop
  <2>1. Available \in Int
    BY MQTTAssumption DEF Available, Least, MQTTInv, MQTTTypeOK
  <2>2. call' \in Calls /\ call'.fn = "yield"
    BY <1>3, <2>1 DEF loop, NoCall, Calls
  <2>. QED
    BY <1>1, <1>2, <1>3, <2>2, QuietInv DEF loop
<1>4. CASE KeepAliveOver
  BY <1>1, <1>2, <1>4, QuietInv DEF KeepAliveOver
<1>5. CASE PongTimeout
  BY <1>2, <1>5, ClosedInv DEF PongTimeout, FailsAtOnce
<1>6. CASE Ping
  <2>1. CASE FailsAtOnce
    BY <1>2, <1>6, <2>1, ClosedInv DEF Ping, FailsAtOnce
  <2>2. CASE ~FailsAtOnce
    <3>1. PICK r \in Packets : r = packet("PINGREQ", 0, 0) /\ r.type = "PINGREQ"
      BY PacketFacts DEF Types
    <3>. QED
      BY <1>1, <1>2, <1>6, <2>2, <3>1, SendsInv DEF Ping, send, CanSend
  <2>. QED
    BY <2>1, <2>2
<1>. QED
  BY <1>3, <1>4, <1>5, <1>6

(* A call that times out or finds the link broken.                         *)
LEMMA GivesUpInv ==
    ASSUME MQTTInv, TimesOut \/ Breaks
    PROVE  MQTTInv'
<1>1. last_packet_id' = last_packet_id /\ last_packet_id \in Nat
      /\ UNCHANGED <<s_wifiState, granted>>
  BY DEF TimesOut, Breaks, MQTTInv, MQTTTypeOK
<1>2. CASE Fails
  BY <1>1, <1>2, ClosedInv DEF Fails, EndsCall
<1>3. CASE ~Fails
  <2>1. call.fn = "yield" /\ call' = [NoCall EXCEPT !.fn = "keep_alive"]
        /\ UNCHANGED <<linkVars, _connected, subscribed>>
    BY <1>3 DEF TimesOut, Breaks
  <2>2. call' \in Calls /\ call'.fn = "keep_alive"
    BY <2>1 DEF NoCall, Calls
  <2>. QED
    BY <1>1, <2>1, <2>2, QuietInv
<1>. QED
  BY <1>2, <1>3

(* A packet taken from the link, and the replies to it.                    *)
LEMMA CycleInv ==
    ASSUME MQTTInv, Cycle
    PROVE  MQTTInv'
<1>. DEFINE p == Head(in)
<1>0. PICK answer \in Answers(p) :
         \/ /\ in' = Tail(in) /\ out' = out \o Replies(p, answer) /\ UNCHANGED net
            /\ ~(Found(p) /\ ~Accepts(p))
            /\ IF Found(p) THEN Ends(p) ELSE GoesOn
         \/ Fails
  BY DEF Cycle
<1>. DEFINE R == Replies(p, answer)
<1>1. PICK q \in Seq(Packets), o \in Seq(Packets) : q = in /\ o = out /\ q # <<>>
  BY DEF Cycle, MQTTInv, MQTTTypeOK
<1>2. p \in Packets /\ p = q[1] /\ 1 \in DOMAIN q /\ Tail(q) \in Seq(Packets)
  BY <1>1, TailFacts
<1>3. R \in Seq(Packets) /\ ~Has(R, "CONNECT") /\ ~Has(R, "SUBSCRIBE")
  BY <1>2, RepliesFacts
<1>4. last_packet_id' = last_packet_id /\ last_packet_id \in Nat
      /\ UNCHANGED <<s_wifiState, granted>> /\ net # "down"
      /\ call \in Calls /\ numSubs \in Nat /\ subscribed \in Nat /\ _connected \in BOOLEAN
  BY MQTTAssumption DEF Cycle, Reads, MQTTInv, MQTTTypeOK
<1>5. CASE Fails
  BY <1>4, <1>5, ClosedInv DEF Fails, EndsCall
<1>6. CASE ~Fails
  <2>1. net' = net /\ in' = Tail(in) /\ out' = out \o R /\ ~(Found(p) /\ ~Accepts(p))
        /\ (IF Found(p) THEN Ends(p) ELSE GoesOn)
    BY <1>0, <1>6
  <2>. HIDE DEF R
  <2>2. PICK r \in Seq(Packets) : r = R /\ ~Has(r, "CONNECT") /\ ~Has(r, "SUBSCRIBE")
    BY <1>3
  <2>3. in' = Tail(q) /\ out' = o \o r /\ o \o r \in Seq(Packets)
    BY <1>1, <2>1, <2>2, JoinFacts
  <2>4. ~Has(o, "CONNECT")
    BY <1>1 DEF MQTTInv, Connecting
  <2>5. ~Has(out', "CONNECT") /\ Once(out', "SUBSCRIBE")
        /\ (Has(out', "SUBSCRIBE") => Has(out, "SUBSCRIBE"))
    <3>1. Once(o, "SUBSCRIBE")
      BY <1>1 DEF MQTTInv, Subscribing
    <3>. QED
      BY <1>1, <2>2, <2>3, <2>4, <3>1, HasJoin
  <2>6. /\ Once(in', "CONNACK") /\ Once(in', "SUBACK")
        /\ Has(in', "CONNACK") => Has(in, "CONNACK") /\ p.type # "CONNACK"
        /\ Has(in', "SUBACK") => Has(in, "SUBACK") /\ p.type # "SUBACK"
    <3>1. Once(q, "CONNACK") /\ Once(q, "SUBACK")
      BY <1>1 DEF MQTTInv, Connecting, Subscribing
    <3>. QED
      BY <1>1, <1>2, <2>3, <3>1, HasTail
  <2>7. LinkIsEmpty'
    BY <1>4, <2>1 DEF LinkIsEmpty
  <2>8. CASE ~Found(p)
    <3>1. /\ UNCHANGED <<_connected, subscribed>>
          /\ call' = IF call.fn # "yield" THEN call
                     ELSE IF call.left > 1 THEN [call EXCEPT !.left = @ - 1]
                     ELSE [NoCall EXCEPT !.fn = "keep_alive"]
      BY <2>1, <2>8 DEF GoesOn
    <3>2. call' \in Calls /\ (call' = call \/ (call.fn = "yield" /\ call'.fn \in {"yield", "keep_alive"}))
      <4>1. [call EXCEPT !.left = @ - 1] \in Calls /\ [call EXCEPT !.left = @ - 1].fn = call.fn
        <5>1. ASSUME NEW c \in Calls, NEW n \in Int
              PROVE  [c EXCEPT !.left = n] \in Calls /\ [c EXCEPT !.left = n].fn = c.fn
          BY DEF Calls
        <5>2. call.left - 1 \in Int
          BY <1>4 DEF Calls
        <5>. QED
          BY <1>4, <5>1, <5>2
      <4>2. [NoCall EXCEPT !.fn = "keep_alive"] \in Calls
            /\ [NoCall EXCEPT !.fn = "keep_alive"].fn = "keep_alive"
        BY DEF Calls, NoCall
      <4>. QED
        BY <1>4, <3>1, <4>1, <4>2
    <3>3. MQTTTypeOK'
      BY <1>2, <1>4, <2>1, <2>3, <3>1, <3>2 DEF MQTTInv, MQTTTypeOK
    <3>4. Granted'
      BY <1>4, <2>1, <3>1 DEF MQTTInv, Granted, HearsEverything, connected
    <3>5. Connecting' /\ Subscribing'
      BY <1>4, <2>5, <2>6, <3>1, <3>2 DEF MQTTInv, Connecting, Subscribing
    <3>6. ASSUME NEW i \in DOMAIN out', out'[i].type = "SUBSCRIBE"
          PROVE  out'[i].arg = subscribed + 1
      BY <1>1, <2>2, <2>3, <3>6, JoinFacts DEF Has, MQTTInv, Meant
    <3>7. ASSUME NEW i \in DOMAIN in', in'[i].type = "SUBACK", in'[i].arg = 0
          PROVE  subscribed + 1 \in granted
      BY <1>1, <2>3, <3>7, TailFacts DEF MQTTInv, Meant
    <3>8. Meant'
      BY <1>4, <3>1, <3>6, <3>7 DEF Meant
    <3>. QED
      BY <2>7, <3>3, <3>4, <3>5, <3>8 DEF MQTTInv
  <2>9. CASE Found(p)
    <3>1. call' = NoCall /\ _connected' = (_connected \/ call.fn = "connect")
          /\ subscribed' = (IF call.fn = "subscribe" THEN subscribed + 1 ELSE subscribed)
          /\ Accepts(p) /\ p.type = call.needle
      BY <2>1, <2>9 DEF Ends, Found
    <3>2. NoCall \in Calls /\ NoCall.fn = "none"
      BY DEF NoCall, Calls
    <3>3. call.fn = "connect" => subscribed' = 0 /\ s_wifiState = "BROKER_PENDING"
      BY <3>1 DEF MQTTInv, Connecting
    <3>4. call.fn = "subscribe" =>
             subscribed + 1 \in granted /\ subscribed < numSubs /\ Has(in, "SUBACK")
             /\ s_wifiState = "BROKER_PENDING"
      BY <1>1, <1>2, <3>1 DEF MQTTInv, Subscribing, Meant, Accepts, Has
    <3>5. ~Has(in', "CONNACK") /\ ~Has(in', "SUBACK") /\ ~Has(out', "SUBSCRIBE")
      BY <2>5, <2>6, <3>1, <3>4 DEF MQTTInv, Connecting, Subscribing
    <3>6. Connecting' /\ Subscribing'
      BY <2>5, <2>6, <3>1, <3>2, <3>5 DEF Connecting, Subscribing
    <3>7. Meant'
      BY <3>5 DEF Meant, Has
    <3>8. MQTTTypeOK'
      <4>1. subscribed' \in 0 .. numSubs
        BY <1>4, <3>1, <3>4 DEF MQTTInv, MQTTTypeOK
      <4>. QED
        BY <1>2, <1>4, <2>1, <2>3, <3>1, <3>2, <4>1 DEF MQTTInv, MQTTTypeOK
    <3>9. Granted'
      <4>1. CASE call.fn = "connect"
        BY <1>4, <3>3, <4>1 DEF MQTTInv, Granted, HearsEverything
      <4>2. CASE call.fn # "connect"
        <5>1. connected' => connected
          BY <1>4, <2>1, <3>1, <4>2 DEF connected
        <5>2. (connected /\ s_wifiState = "BROKER_PENDING") => 1 .. subscribed' \subseteq granted
          BY <1>4, <3>1, <3>4 DEF MQTTInv, Granted
        <5>. QED
          BY <1>4, <5>1, <5>2 DEF MQTTInv, Granted, HearsEverything
      <4>. QED
        BY <4>1, <4>2
    <3>. QED
      BY <2>7, <3>6, <3>7, <3>8, <3>9 DEF MQTTInv
  <2>. QED
    BY <2>8, <2>9
<1>. QED
  BY <1>5, <1>6

-----------------------------------------------------------------------------
(* The broker takes a packet: only a CONNECT or a SUBSCRIBE can change     *)
(* what it grants, and its answer takes the place of the request.          *)
LEMMA BrokerReadsInv ==
    ASSUME MQTTInv, BrokerReads
    PROVE  MQTTInv'
<1>. DEFINE p == Head(out)
<1>1. PICK refuse \in {0, 1} :
         /\ in' = in \o BrokerReply(p, refuse)
         /\ granted' \in IF p.type = "CONNECT" THEN {{}, granted}
                         ELSE IF p.type = "SUBSCRIBE" /\ refuse = 0
                              THEN {granted \cup {p.arg}}
                         ELSE {granted}
  BY DEF BrokerReads
<1>2. net # "down" /\ out' = Tail(out) /\ numSubs \in Nat /\ subscribed \in 0 .. numSubs
      /\ UNCHANGED <<net, _connected, last_packet_id, call, s_wifiState, subscribed>>
      /\ granted \subseteq 1 .. numSubs
  BY MQTTAssumption DEF BrokerReads, clientVars, MQTTInv, MQTTTypeOK
<1>3. PICK q \in Seq(Packets), o \in Seq(Packets) : q = in /\ o = out /\ o # <<>>
  BY DEF BrokerReads, MQTTInv, MQTTTypeOK
<1>4. p \in Packets /\ p = o[1] /\ 1 \in DOMAIN o /\ Tail(o) \in Seq(Packets)
  BY <1>3, TailFacts
<1>. HIDE DEF p
<1>5. PICK r \in Seq(Packets) :
         /\ r = BrokerReply(p, refuse)
         /\ p.type # "CONNECT" => ~Has(r, "CONNACK")
         /\ p.type # "SUBSCRIBE" => ~Has(r, "SUBACK")
         /\ Once(r, "CONNACK") /\ Once(r, "SUBACK")
  BY <1>4, BrokerFacts
<1>6. in' = q \o r /\ q \o r \in Seq(Packets) /\ out' = Tail(o)
  BY <1>1, <1>2, <1>3, <1>5, JoinFacts
<1>7. p.type = "CONNECT" =>
         Has(out, "CONNECT") /\ call.fn = "connect" /\ subscribed = 0 /\ q = <<>>
         /\ s_wifiState = "BROKER_PENDING"
  BY <1>3, <1>4 DEF Has, MQTTInv, Connecting
<1>8. p.type = "SUBSCRIBE" =>
         call.fn = "subscribe" /\ p.arg = subscribed + 1 /\ subscribed < numSubs
         /\ ~Has(q, "SUBACK") /\ s_wifiState = "BROKER_PENDING"
  BY <1>3, <1>4 DEF Has, MQTTInv, Subscribing, Meant
<1>9. granted' \subseteq 1 .. numSubs
      /\ (p.type # "CONNECT" => granted \subseteq granted')
      /\ (s_wifiState = "CONNECTED" => granted' = granted)
  <2>1. CASE p.type = "CONNECT"
    <3>1. granted' = {} \/ granted' = granted
      BY <1>1, <2>1
    <3>. QED
      BY <1>2, <1>7, <2>1, <3>1
  <2>2. CASE p.type = "SUBSCRIBE"
    <3>1. granted' = granted \cup {subscribed + 1} \/ granted' = granted
      BY <1>1, <1>8, <2>2
    <3>2. subscribed + 1 \in 1 .. numSubs
      BY <1>2, <1>8, <2>2
    <3>. QED
      BY <1>2, <1>8, <2>2, <3>1, <3>2
  <2>3. CASE p.type \notin {"CONNECT", "SUBSCRIBE"}
    BY <1>1, <1>2, <2>3
  <2>. QED
    BY <2>1, <2>2, <2>3
<1>10. MQTTTypeOK' /\ LinkIsEmpty'
  BY <1>2, <1>4, <1>6, <1>9 DEF MQTTInv, MQTTTypeOK, LinkIsEmpty
<1>11. Granted'
  <2>1. CASE p.type = "CONNECT"
    BY <1>2, <1>7, <2>1 DEF Granted, HearsEverything
  <2>2. CASE p.type # "CONNECT"
    BY <1>2, <1>9, <2>2 DEF MQTTInv, Granted, HearsEverything, connected
  <2>. QED
    BY <2>1, <2>2
<1>12. Connecting'
  <2>1. Has(out', "CONNECT") => Has(out, "CONNECT") /\ Len(out) = 1
    BY <1>3, <1>6, HasTail DEF MQTTInv, Connecting
  <2>2. ~Has(out', "CONNECT")
    BY <1>3, <1>6, <2>1, TailFacts DEF Has
  <2>3. Has(in', "CONNACK") => call.fn = "connect"
    BY <1>3, <1>5, <1>6, <1>7, HasJoin DEF MQTTInv, Connecting
  <2>4. ~Has(q, "CONNACK") \/ ~Has(r, "CONNACK")
    BY <1>5, <1>7, HasEmpty
  <2>5. Once(q, "CONNACK")
    BY <1>3 DEF MQTTInv, Connecting
  <2>6. Once(in', "CONNACK")
    BY <1>5, <1>6, <2>4, <2>5, HasJoin
  <2>. QED
    BY <1>2, <2>2, <2>3, <2>6 DEF MQTTInv, Connecting
<1>13. Subscribing'
  <2>1. Once(out', "SUBSCRIBE") /\ (Has(out', "SUBSCRIBE") => Has(out, "SUBSCRIBE") /\ p.type # "SUBSCRIBE")
    BY <1>3, <1>4, <1>6, HasTail, TailFacts DEF MQTTInv, Subscribing, p
  <2>2. Has(in', "SUBACK") => Has(q, "SUBACK") \/ p.type = "SUBSCRIBE"
    BY <1>5, <1>6, HasJoin
  <2>3. ~Has(q, "SUBACK") \/ ~Has(r, "SUBACK")
    BY <1>5, <1>8
  <2>4. Once(q, "SUBACK")
    BY <1>3 DEF MQTTInv, Subscribing
  <2>5. Once(in', "SUBACK")
    BY <1>5, <1>6, <2>3, <2>4, HasJoin
  <2>. QED
    BY <1>2, <1>3, <1>8, <2>1, <2>2, <2>5 DEF MQTTInv, Subscribing
<1>14. ASSUME NEW i \in DOMAIN out', out'[i].type = "SUBSCRIBE"
       PROVE  out'[i].arg = subscribed + 1
  BY <1>3, <1>6, <1>14, TailFacts DEF MQTTInv, Meant
<1>15. ASSUME NEW i \in DOMAIN in', in'[i].type = "SUBACK", in'[i].arg = 0
       PROVE  subscribed + 1 \in granted'
  <2>1. CASE i \in DOMAIN q /\ in'[i] = q[i]
    <3>1. subscribed + 1 \in granted /\ Has(in, "SUBACK")
      BY <1>3, <1>15, <2>1 DEF MQTTInv, Meant, Has
    <3>2. p.type # "CONNECT"
      BY <1>3, <1>7, <3>1, HasEmpty
    <3>. QED
      BY <1>9, <3>1, <3>2
  <2>2. CASE i - Len(q) \in DOMAIN r /\ in'[i] = r[i - Len(q)]
    <3>1. Has(r, "SUBACK")
      BY <1>15, <2>2 DEF Has
    <3>2. p.type = "SUBSCRIBE" /\ p.arg = subscribed + 1
      BY <1>5, <1>8, <3>1
    <3>3. r = <<packet("SUBACK", p.id, refuse)>>
      BY <1>5, <3>2 DEF BrokerReply
    <3>4. r[i - Len(q)].arg = refuse
      BY <2>2, <3>3 DEF packet
    <3>. QED
      BY <1>1, <1>15, <2>2, <3>2, <3>4
  <2>. QED
    BY <1>6, <2>1, <2>2, JoinFacts
<1>16. Meant'
  BY <1>2, <1>14, <1>15 DEF Meant
<1>. QED
  BY <1>10, <1>11, <1>12, <1>13, <1>16 DEF MQTTInv

(* A command of the UI comes on its own.                                   *)
LEMMA BrokerPublishesInv ==
    ASSUME MQTTInv, BrokerPublishes
    PROVE  MQTTInv'
<1>1. PICK r \in Packets : in' = Append(in, r) /\ r.type \in {"PUBLISH", "PART"}
  <2>1. packet("PART", 0, 0) \in Packets /\ packet("PART", 0, 0).type = "PART"
    BY PacketFacts DEF Types
  <2>2. ASSUME NEW qos \in Qos
        PROVE  /\ packet("PUBLISH", IF qos = 0 THEN 0 ELSE 1, qos) \in Packets
               /\ packet("PUBLISH", IF qos = 0 THEN 0 ELSE 1, qos).type = "PUBLISH"
    BY MQTTAssumption, PacketFacts DEF Types
  <2>. QED
    BY <2>1, <2>2 DEF BrokerPublishes
<1>2. /\ net = "up" /\ net' \in {"up", "mute"} /\ ~Has(out, "CONNECT")
      /\ UNCHANGED <<out, _connected, last_packet_id, call, s_wifiState, subscribed, granted>>
  BY DEF BrokerPublishes, clientVars, Has
<1>3. PICK q \in Seq(Packets) : q = in
  BY DEF MQTTInv, MQTTTypeOK
<1>4. in' = q \o <<r>> /\ <<r>> \in Seq(Packets) /\ q \o <<r>> \in Seq(Packets)
  BY <1>1, <1>3, AppendIsJoin, JoinFacts
<1>5. ~Has(<<r>>, "CONNACK") /\ ~Has(<<r>>, "SUBACK")
  BY <1>1, HasOne
<1>6. Once(q, "CONNACK") /\ Once(q, "SUBACK")
  BY <1>3 DEF MQTTInv, Connecting, Subscribing
<1>7. /\ Once(in', "CONNACK") /\ (Has(in', "CONNACK") => Has(in, "CONNACK"))
      /\ Once(in', "SUBACK") /\ (Has(in', "SUBACK") => Has(in, "SUBACK"))
  BY <1>3, <1>4, <1>5, <1>6, HasJoin
<1>8. MQTTTypeOK' /\ LinkIsEmpty' /\ Granted'
  BY <1>2, <1>4
  DEF MQTTInv, MQTTTypeOK, LinkIsEmpty, Granted, HearsEverything, connected
<1>9. Connecting' /\ Subscribing'
  BY <1>2, <1>7 DEF MQTTInv, Connecting, Subscribing
<1>10. ASSUME NEW i \in DOMAIN in', in'[i].type = "SUBACK", in'[i].arg = 0
       PROVE  subscribed + 1 \in granted
  BY <1>3, <1>4, <1>5, <1>10, JoinFacts DEF Has, MQTTInv, Meant
<1>11. Meant'
  BY <1>2, <1>10 DEF MQTTInv, Meant
<1>. QED
  BY <1>8, <1>9, <1>11 DEF MQTTInv

(* The link changes, or nothing but the timers does.                       *)
LEMMA LinkInv ==
    ASSUME MQTTInv, LinkChanges \/ Tick \/ UNCHANGED mqttVars
    PROVE  MQTTInv'
<1>1. UNCHANGED <<_connected, last_packet_id, call, s_wifiState, subscribed, granted>>
  BY DEF LinkChanges, Tick, mqttVars, clientVars
<1>2. \/ net' = "down" /\ in' = <<>> /\ out' = <<>>
      \/ (net' = "down" => net = "down") /\ net' \in {"down", "up", "mute"}
         /\ UNCHANGED <<in, out>> /\ (net = "down" => net' = "down")
  BY DEF LinkChanges, Tick, mqttVars, linkVars, MQTTInv, MQTTTypeOK
<1>3. CASE net' = "down" /\ in' = <<>> /\ out' = <<>>
  <2>1. MQTTTypeOK' /\ LinkIsEmpty' /\ Meant' /\ Granted'
    BY <1>1, <1>3
    DEF MQTTInv, MQTTTypeOK, LinkIsEmpty, Meant, Granted, HearsEverything, connected
  <2>2. Connecting' /\ Subscribing'
    BY <1>1, <1>3, HasEmpty DEF MQTTInv, Connecting, Subscribing
  <2>. QED
    BY <2>1, <2>2 DEF MQTTInv
<1>4. CASE (net = "down" <=> net' = "down") /\ net' \in {"down", "up", "mute"}
           /\ UNCHANGED <<in, out>>
  <2>1. MQTTTypeOK' /\ LinkIsEmpty' /\ Meant' /\ Granted'
    BY <1>1, <1>4
    DEF MQTTInv, MQTTTypeOK, LinkIsEmpty, Meant, Granted, HearsEverything, connected
  <2>2. Connecting' /\ Subscribing'
    BY <1>1, <1>4 DEF MQTTInv, Connecting, Subscribing
  <2>. QED
    BY <2>1, <2>2 DEF MQTTInv
<1>. QED
  BY <1>2, <1>3, <1>4

-----------------------------------------------------------------------------
(* Every step keeps the invariant.                                         *)
LEMMA MQTTInvStep ==
    ASSUME MQTTInv, [MQTTNext]_mqttVars
    PROVE  MQTTInv'
  BY ConnectInv, SubscribeInv, SubscribedInv, RetryInv, PublishInv, LoopInv, GivesUpInv, CycleInv,
     BrokerReadsInv, BrokerPublishesInv, LinkInv
  DEF MQTTNext, RigStep

(* A rig that calls itself CONNECTED hears every topic, however many there *)
(* are and whatever broker and link do (wifi_runnable, cfg/wifi.h, over    *)
(* MQTTClient::subscribe).                                                 *)
THEOREM HearsEverythingAlways == MQTTSpec => []HearsEverything
<1>1. MQTTInv /\ [MQTTNext]_mqttVars => MQTTInv'
  BY MQTTInvStep
<1>2. MQTTInv => HearsEverything
  BY DEF MQTTInv, Granted
<1>. QED
  BY <1>1, <1>2, InitInv, PTL DEF MQTTSpec

-----------------------------------------------------------------------------
(* The second invariant.  A call that waits for an acknowledgement has one *)
(* packet on its way, there or back, and it carries the call's packet id.  *)
InMine == {p \in Packets : p.type \in {"SUBACK", "PUBACK", "PUBREC", "PUBCOMP"}}
OutMine ==
    {p \in Packets : \/ p.type \in {"SUBSCRIBE", "PUBREL"}
                     \/ p.type = "PUBLISH" /\ p.arg # 0}

Holds(ps, T) == \E i \in DOMAIN ps : ps[i] \in T
Single(ps, T) == \A i, j \in DOMAIN ps : (ps[i] \in T /\ ps[j] \in T) => i = j

OneOnItsWay ==
    /\ (Holds(in, InMine) \/ Holds(out, OutMine)) => call.fn \in {"subscribe", "publish"}
    /\ ~(Holds(in, InMine) /\ Holds(out, OutMine))
    /\ Single(in, InMine) /\ Single(out, OutMine)

SameId ==
    /\ \A i \in DOMAIN in : in[i] \in InMine => in[i].id = call.id
    /\ \A i \in DOMAIN out : out[i] \in OutMine => out[i].id = call.id

Awaited == call.fn = "publish" => call.needle \in {"PUBACK", "PUBCOMP"}

AckInv == OneOnItsWay /\ SameId /\ Awaited

-----------------------------------------------------------------------------
(* The same of a set of packets as of a type.                              *)
LEMMA HoldsTail ==
    ASSUME NEW S, NEW q \in Seq(S), q # <<>>, NEW T
    PROVE  /\ Holds(Tail(q), T) => Holds(q, T)
           /\ Single(q, T) => Single(Tail(q), T)
           /\ (Single(q, T) /\ Head(q) \in T) => ~Holds(Tail(q), T)
<1>1. Holds(Tail(q), T) => Holds(q, T)
  BY TailFacts DEF Holds
<1>2. Single(q, T) => Single(Tail(q), T)
  <2>. SUFFICES ASSUME Single(q, T), NEW i \in DOMAIN Tail(q), NEW j \in DOMAIN Tail(q),
                       Tail(q)[i] \in T, Tail(q)[j] \in T
                PROVE  i = j
    BY DEF Single
  <2>1. i + 1 = j + 1 /\ i \in Nat /\ j \in Nat
    BY TailFacts DEF Single
  <2>. QED
    BY <2>1
<1>3. (Single(q, T) /\ Head(q) \in T) => ~Holds(Tail(q), T)
  <2>. SUFFICES ASSUME Single(q, T), q[1] \in T, NEW i \in DOMAIN Tail(q), Tail(q)[i] \in T
                PROVE  FALSE
    BY TailFacts DEF Holds
  <2>1. i \in Nat /\ i # 0 /\ i + 1 = 1
    BY TailFacts DEF Single
  <2>. QED
    BY <2>1
<1>. QED
  BY <1>1, <1>2, <1>3

(* Two sequences of which one at most holds a packet of the set.           *)
LEMMA HoldsJoin ==
    ASSUME NEW S, NEW q \in Seq(S), NEW r \in Seq(S), NEW T
    PROVE  /\ Holds(q \o r, T) => Holds(q, T) \/ Holds(r, T)
           /\ (Single(q, T) /\ ~Holds(r, T)) => Single(q \o r, T)
           /\ (~Holds(q, T) /\ Single(r, T)) => Single(q \o r, T)
<1>1. Holds(q \o r, T) => Holds(q, T) \/ Holds(r, T)
  BY JoinFacts DEF Holds
<1>2. (Single(q, T) /\ ~Holds(r, T)) => Single(q \o r, T)
  BY JoinFacts DEF Holds, Single
<1>3. (~Holds(q, T) /\ Single(r, T)) => Single(q \o r, T)
  <2>. SUFFICES ASSUME ~Holds(q, T), Single(r, T),
                       NEW i \in DOMAIN (q \o r), NEW j \in DOMAIN (q \o r),
                       (q \o r)[i] \in T, (q \o r)[j] \in T
                PROVE  i = j
    BY DEF Single
  <2>1. i \in Nat /\ i - Len(q) \in DOMAIN r /\ r[i - Len(q)] \in T
    BY JoinFacts DEF Holds
  <2>2. j \in Nat /\ j - Len(q) \in DOMAIN r /\ r[j - Len(q)] \in T
    BY JoinFacts DEF Holds
  <2>3. i - Len(q) = j - Len(q) /\ Len(q) \in Nat
    BY <2>1, <2>2, JoinFacts DEF Single
  <2>. QED
    BY <2>1, <2>2, <2>3
<1>. QED
  BY <1>1, <1>2, <1>3

(* At most one packet.                                                     *)
LEMMA HoldsShort ==
    /\ \A T : ~Holds(<<>>, T) /\ Single(<<>>, T)
    /\ \A p, T : Single(<<p>>, T) /\ (Holds(<<p>>, T) => p \in T)
  BY DEF Holds, Single

-----------------------------------------------------------------------------
(* Nothing on its way changes, or all of it is gone.                       *)
LEMMA AckQuiet ==
    ASSUME AckInv, UNCHANGED <<in, out>>,
           \/ call' = call
           \/ call.fn \notin {"subscribe", "publish"} /\ call'.fn \notin {"subscribe", "publish"}
    PROVE  AckInv'
<1>1. OneOnItsWay' /\ Awaited'
  BY DEF AckInv, OneOnItsWay, Awaited
<1>2. SameId'
  BY DEF AckInv, OneOnItsWay, SameId, Holds
<1>. QED
  BY <1>1, <1>2 DEF AckInv

(* A connection that is closed owes no call an acknowledgement.            *)
LEMMA AckGone ==
    ASSUME AckInv, in' = <<>>, out' = <<>>, call' = call \/ call'.fn # "publish"
    PROVE  AckInv'
<1>1. OneOnItsWay' /\ Awaited'
  BY HoldsShort DEF AckInv, OneOnItsWay, Awaited
<1>2. SameId'
  BY DEF SameId
<1>. QED
  BY <1>1, <1>2 DEF AckInv

(* The call that starts is the one that the packet belongs to.             *)
LEMMA AckSends ==
    ASSUME MQTTInv, AckInv, NEW r \in Packets, out' = Append(out, r), in' = in,
           call.fn \notin {"subscribe", "publish"},
           r \in OutMine => call'.fn \in {"subscribe", "publish"} /\ r.id = call'.id,
           Awaited'
    PROVE  AckInv'
<1>1. PICK q \in Seq(Packets) : q = out
  BY DEF MQTTInv, MQTTTypeOK
<1>2. out' = q \o <<r>> /\ <<r>> \in Seq(Packets)
  BY <1>1, AppendIsJoin
<1>3. ~Holds(q, OutMine) /\ ~Holds(in, InMine) /\ Single(in, InMine)
  BY <1>1 DEF AckInv, OneOnItsWay
<1>4. Single(out', OutMine) /\ (Holds(out', OutMine) => r \in OutMine)
  <2>1. Single(<<r>>, OutMine) /\ (Holds(<<r>>, OutMine) => r \in OutMine)
    BY HoldsShort
  <2>2. /\ Holds(q \o <<r>>, OutMine) => Holds(q, OutMine) \/ Holds(<<r>>, OutMine)
        /\ Single(q \o <<r>>, OutMine)
    BY <1>2, <1>3, <2>1, HoldsJoin
  <2>. QED
    BY <1>2, <1>3, <2>1, <2>2
<1>5. OneOnItsWay'
  BY <1>3, <1>4 DEF OneOnItsWay
<1>6. ASSUME NEW i \in DOMAIN out', out'[i] \in OutMine PROVE out'[i].id = call'.id
  BY <1>2, <1>3, <1>6, JoinFacts DEF Holds
<1>7. SameId'
  BY <1>3, <1>6 DEF SameId, Holds
<1>. QED
  BY <1>5, <1>7 DEF AckInv

-----------------------------------------------------------------------------
(* The actions again.  Of those that take nothing from the link, only      *)
(* subscribe and publish put a packet there that is waited for.            *)
LEMMA AckStarts ==
    ASSUME MQTTInv, AckInv, connect \/ subscribe \/ publish
    PROVE  AckInv'
<1>1. call.fn = "none" /\ last_packet_id \in Nat /\ numSubs \in Nat /\ subscribed \in Nat
  BY MQTTAssumption
  DEF connect, subscribe, publish, Idle, NoCall, MQTTInv, MQTTTypeOK
<1>2. CASE connect /\ UNCHANGED linkVars /\ UNCHANGED clientVars
  BY <1>2, AckQuiet DEF linkVars, clientVars
<1>3. CASE connect /\ in' = <<>> /\ out' = <<packet("CONNECT", 0, 0)>>
           /\ call' = waitFor("connect", "CONNACK", 0)
  <2>1. packet("CONNECT", 0, 0) \notin OutMine /\ call'.fn = "connect"
    BY <1>3 DEF packet, OutMine, waitFor
  <2>2. ~Holds(out', OutMine) /\ Single(out', OutMine) /\ ~Holds(in', InMine) /\ Single(in', InMine)
    BY <1>3, <2>1, HoldsShort
  <2>3. SameId'
    BY <2>2 DEF SameId, Holds
  <2>. QED
    BY <2>1, <2>2, <2>3 DEF AckInv, OneOnItsWay, Awaited
<1>4. CASE FailsAtOnce
  <2>1. call'.fn = "none"
    BY <1>4 DEF FailsAtOnce, NoCall
  <2>. QED
    BY <1>4, <2>1, AckGone DEF FailsAtOnce, close
<1>5. CASE subscribe /\ ~FailsAtOnce
  <2>. DEFINE n == last_packet_id'
              p == packet("SUBSCRIBE", n, subscribed + 1)
  <2>1. n \in Nat
    BY <1>1, <1>5 DEF subscribe, lwmqtt_get_next_packet_id
  <2>2. out' = Append(out, p) /\ in' = in /\ call' = waitFor("subscribe", "SUBACK", p.id)
    BY <1>5 DEF subscribe, send
  <2>3. p \in Packets
    BY <1>1, <2>1, PacketFacts DEF Types
  <2>4. call'.fn = "subscribe" /\ call'.id = p.id
    BY <2>2 DEF waitFor
  <2>. HIDE DEF p
  <2>5. PICK r \in Packets : r = p
    BY <2>3
  <2>. QED
    BY <1>1, <2>2, <2>4, <2>5, AckSends DEF Awaited
<1>6. CASE publish /\ ~FailsAtOnce
  <2>1. PICK qos \in Qos, id \in Nat :
           /\ out' = Append(out, packet("PUBLISH", id, qos)) /\ in' = in
           /\ call' = IF qos = 0 THEN NoCall ELSE waitFor("publish", AckType[qos], id)
    BY <1>1, <1>6 DEF publish, send, lwmqtt_get_next_packet_id
  <2>2. qos \in {0, 1, 2}
    BY MQTTAssumption
  <2>3. PICK r \in Packets : /\ r = packet("PUBLISH", id, qos)
                             /\ r.type = "PUBLISH" /\ r.arg = qos /\ r.id = id
    BY <2>2, PacketFacts DEF Types
  <2>4. CASE qos = 0
    BY <1>1, <2>1, <2>3, <2>4, AckSends DEF Awaited, NoCall, OutMine
  <2>5. CASE qos # 0
    <3>1. call'.fn = "publish" /\ call'.id = id /\ call'.needle \in {"PUBACK", "PUBCOMP"}
      BY <2>1, <2>2, <2>5 DEF waitFor, AckType
    <3>. QED
      BY <1>1, <2>1, <2>3, <3>1, AckSends DEF Awaited
  <2>. QED
    BY <2>4, <2>5
<1>. QED
  BY <1>2, <1>3, <1>4, <1>5, <1>6 DEF connect

(* The others send nothing that is waited for.                             *)
LEMMA AckLoops ==
    ASSUME MQTTInv, AckInv,
           \/ Subscribed \/ Retry \/ loop \/ KeepAliveOver \/ Ping \/ PongTimeout
           \/ TimesOut \/ Breaks \/ LinkChanges \/ Tick \/ UNCHANGED mqttVars
    PROVE  AckInv'
<1>1. NoCall.fn = "none" /\ [NoCall EXCEPT !.fn = "keep_alive"].fn = "keep_alive"
      /\ \A n : [NoCall EXCEPT !.fn = "yield", !.left = n].fn = "yield"
  BY DEF NoCall
<1>2. CASE Subscribed \/ Tick \/ UNCHANGED mqttVars
  BY <1>2, AckQuiet DEF Subscribed, Tick, mqttVars, linkVars, clientVars
<1>3. CASE Retry
  BY <1>3, AckQuiet, AckGone DEF Retry, close, linkVars
<1>4. CASE loop
  BY <1>1, <1>4, AckQuiet DEF loop, Loops, Idle, linkVars
<1>5. CASE KeepAliveOver
  BY <1>1, <1>5, AckQuiet DEF KeepAliveOver, KeepsAlive, Loops, Idle, linkVars
<1>6. CASE FailsAtOnce
  BY <1>1, <1>6, AckGone DEF FailsAtOnce, close
<1>7. CASE Ping /\ ~FailsAtOnce
  <2>1. PICK r \in Packets : r = packet("PINGREQ", 0, 0) /\ r.type = "PINGREQ"
    BY PacketFacts DEF Types
  <2>2. r \notin OutMine /\ call' = NoCall /\ call.fn \in {"none", "keep_alive"}
        /\ out' = Append(out, r) /\ in' = in
    BY <1>1, <1>7, <2>1 DEF OutMine, Ping, PingDue, KeepsAlive, Loops, Idle, send
  <2>. QED
    BY <1>1, <2>2, AckSends DEF Awaited
<1>8. CASE Fails
  BY <1>1, <1>8, AckGone DEF Fails, EndsCall, close
<1>9. CASE (TimesOut \/ Breaks) /\ ~Fails
  BY <1>1, <1>9, AckQuiet DEF TimesOut, Breaks, linkVars
<1>10. CASE LinkChanges
  BY <1>10, AckQuiet, AckGone DEF LinkChanges, clientVars
<1>. QED
  BY <1>2, <1>3, <1>4, <1>5, <1>6, <1>7, <1>8, <1>9, <1>10 DEF PongTimeout

(* A reply carries the id of what it replies to, and one that is waited    *)
(* for replies to a packet that is waited for.                             *)
LEMMA RepliesAck ==
    ASSUME NEW p \in Packets, NEW answer \in Answers(p)
    PROVE  /\ Single(Replies(p, answer), OutMine)
           /\ \A i \in DOMAIN Replies(p, answer) : Replies(p, answer)[i] \in OutMine =>
                 p \in InMine /\ p.type = "PUBREC" /\ Replies(p, answer)[i].id = p.id
<1>. DEFINE q == answer
            h == Handshake(p)
<1>1. <<>> \in Seq(Packets) /\ \A a \in Packets : <<a>> \in Seq(Packets)
  OBVIOUS
<1>2. q \in Seq(Packets) /\ ~Holds(q, OutMine)
  <2>1. CASE q = <<>>
    BY <1>1, <2>1, HoldsShort
  <2>2. CASE q # <<>>
    <3>1. PICK a \in Packets : q = <<a>> /\ a.type = "PUBLISH" /\ a.arg = 0
      BY <2>2, AnswersFacts
    <3>2. a \notin OutMine
      BY <3>1 DEF OutMine
    <3>. QED
      BY <1>1, <3>1, <3>2, HoldsShort
  <2>. QED
    BY <2>1, <2>2
<1>3. h \in Seq(Packets) /\ Single(h, OutMine)
      /\ (\A i \in DOMAIN h : h[i] \in OutMine =>
             p \in InMine /\ p.type = "PUBREC" /\ h[i].id = p.id)
  <2>1. CASE h = <<>>
    BY <2>1, HoldsShort
  <2>2. CASE h # <<>>
    <3>1. PICK r \in Packets :
             /\ h = <<r>> /\ r.id = p.id
             /\ r.type \in {"PUBACK", "PUBREC", "PUBREL", "PUBCOMP"}
             /\ r.type = "PUBREL" => p.type = "PUBREC"
      BY <2>2, HandshakeFacts
    <3>2. <<r>> \in Seq(Packets) /\ Single(<<r>>, OutMine)
      BY HoldsShort
    <3>3. r \in OutMine => p \in InMine /\ p.type = "PUBREC"
      BY <3>1 DEF OutMine, InMine
    <3>. QED
      BY <3>1, <3>2, <3>3
  <2>. QED
    BY <2>1, <2>2
<1>4. Replies(p, answer) = q \o h
  BY DEF Replies
<1>. HIDE DEF q, h
<1>5. Single(q \o h, OutMine)
  BY <1>2, <1>3, HoldsJoin
<1>6. ASSUME NEW i \in DOMAIN (q \o h), (q \o h)[i] \in OutMine
      PROVE  p \in InMine /\ p.type = "PUBREC" /\ (q \o h)[i].id = p.id
  BY <1>2, <1>3, <1>6, JoinFacts DEF Holds
<1>. QED
  BY <1>4, <1>5, <1>6

(* An answer of the broker is waited for if the request was a call's.      *)
LEMMA BrokerAck ==
    ASSUME NEW p \in Packets, NEW refuse \in {0, 1}
    PROVE  /\ Single(BrokerReply(p, refuse), InMine)
           /\ \A i \in DOMAIN BrokerReply(p, refuse) :
                 BrokerReply(p, refuse)[i] \in InMine =>
                    p \in OutMine /\ BrokerReply(p, refuse)[i].id = p.id
<1>. DEFINE b == BrokerReply(p, refuse)
<1>1. b = <<>> \/ \E r \in Packets : b = <<r>> /\ (r \in InMine => p \in OutMine /\ r.id = p.id)
  <2>1. \A t \in {"CONNACK", "SUBACK", "PINGRESP"}, id \in Nat, a \in {0, 1} :
           /\ packet(t, id, a) \in Packets
           /\ packet(t, id, a).type = t /\ packet(t, id, a).id = id
    BY PacketFacts DEF Types
  <2>2. p.id \in Nat
    BY DEF Packets
  <2>3. CASE p.type \in {"CONNECT", "SUBSCRIBE", "PINGREQ"}
    BY <2>1, <2>2, <2>3 DEF BrokerReply, InMine, OutMine
  <2>4. CASE p.type \notin {"CONNECT", "SUBSCRIBE", "PINGREQ"}
    <3>1. b = Handshake(p)
      BY <2>4 DEF BrokerReply
    <3>. HIDE DEF b
    <3>. QED
      BY <3>1, HandshakeFacts DEF InMine, OutMine
  <2>. QED
    BY <2>3, <2>4
<1>. HIDE DEF b
<1>2. CASE b = <<>>
  BY <1>2, HoldsShort DEF b
<1>3. CASE b # <<>>
  <2>1. PICK r \in Packets : b = <<r>> /\ (r \in InMine => p \in OutMine /\ r.id = p.id)
    BY <1>1, <1>3
  <2>2. Single(<<r>>, InMine)
    BY HoldsShort
  <2>. QED
    BY <2>1, <2>2 DEF b
<1>. QED
  BY <1>2, <1>3

(* The packet that comes in is the one that was on its way, or concerns no *)
(* call; the reply to it takes its place.                                  *)
LEMMA AckCycle ==
    ASSUME MQTTInv, AckInv, Cycle
    PROVE  AckInv'
<1>. DEFINE p == Head(in)
<1>0. PICK answer \in Answers(p) :
         \/ /\ in' = Tail(in) /\ out' = out \o Replies(p, answer) /\ UNCHANGED net
            /\ ~(Found(p) /\ ~Accepts(p))
            /\ IF Found(p) THEN Ends(p) ELSE GoesOn
         \/ Fails
  BY DEF Cycle
<1>. DEFINE R == Replies(p, answer)
<1>1. PICK q \in Seq(Packets), o \in Seq(Packets) : q = in /\ o = out /\ q # <<>>
  BY DEF Cycle, MQTTInv, MQTTTypeOK
<1>2. p \in Packets /\ p = q[1] /\ 1 \in DOMAIN q
  BY <1>1, TailFacts
<1>3. CASE Fails
  <2>1. call'.fn = "none"
    BY <1>3 DEF Fails, EndsCall, NoCall
  <2>. QED
    BY <1>3, <2>1, AckGone DEF Fails, close
<1>4. CASE ~Fails
  <2>1. in' = Tail(in) /\ out' = out \o R /\ (IF Found(p) THEN Ends(p) ELSE GoesOn)
    BY <1>0, <1>4
  <2>2. R \in Seq(Packets)
    BY <1>2, RepliesFacts
  <2>. HIDE DEF R
  <2>3. PICK r \in Seq(Packets) : r = R
    BY <2>2
  <2>4. Single(r, OutMine)
        /\ \A i \in DOMAIN r : r[i] \in OutMine =>
              p \in InMine /\ p.type = "PUBREC" /\ r[i].id = p.id
    BY <1>2, <2>3, RepliesAck DEF R
  <2>. HIDE DEF p
  <2>5. in' = Tail(q) /\ out' = o \o r
    BY <1>1, <2>1, <2>3
  <2>6. Single(q, InMine) /\ Single(o, OutMine)
        /\ ~(Holds(q, InMine) /\ Holds(o, OutMine)) /\ (p \in InMine => Holds(q, InMine))
    BY <1>1, <1>2 DEF AckInv, OneOnItsWay, Holds
  <2>7. Single(Tail(q), InMine) /\ (Holds(Tail(q), InMine) => Holds(q, InMine) /\ p \notin InMine)
    BY <1>1, <2>6, HoldsTail DEF p
  <2>8. /\ Holds(r, OutMine) => p \in InMine /\ p.type = "PUBREC"
        /\ Holds(o \o r, OutMine) => Holds(o, OutMine) \/ Holds(r, OutMine)
        /\ Single(o \o r, OutMine)
    BY <2>4, <2>6, HoldsJoin DEF Holds
  <2>9. CASE call' = call
    <3>1. OneOnItsWay'
      BY <1>1, <2>5, <2>6, <2>7, <2>8, <2>9 DEF AckInv, OneOnItsWay
    <3>2. ASSUME NEW i \in DOMAIN in', in'[i] \in InMine PROVE in'[i].id = call.id
      BY <1>1, <2>5, <3>2, TailFacts DEF AckInv, SameId
    <3>3. p \in InMine => p.id = call.id
      BY <1>1, <1>2 DEF AckInv, SameId
    <3>4. ASSUME NEW i \in DOMAIN out', out'[i] \in OutMine PROVE out'[i].id = call.id
      BY <1>1, <2>4, <2>5, <3>3, <3>4, JoinFacts DEF AckInv, SameId
    <3>5. SameId' /\ Awaited'
      BY <2>9, <3>2, <3>4 DEF SameId, AckInv, Awaited
    <3>. QED
      BY <3>1, <3>5 DEF AckInv
  <2>10. CASE call' # call
    <3>1. call'.fn \in {"none", "yield", "keep_alive"}
          /\ (call.fn \in {"subscribe", "publish"} => Found(p))
      <4>1. CASE Found(p)
        BY <2>1, <4>1 DEF Ends, NoCall
      <4>2. CASE ~Found(p)
        <5>1. call.fn = "yield"
          BY <2>1, <2>10, <4>2 DEF GoesOn
        <5>2. call \in Calls
          BY DEF MQTTInv, MQTTTypeOK
        <5>3. [call EXCEPT !.left = @ - 1].fn = "yield"
              /\ [NoCall EXCEPT !.fn = "keep_alive"].fn = "keep_alive"
          BY <5>1, <5>2 DEF Calls, NoCall
        <5>. QED
          BY <2>1, <4>2, <5>1, <5>3 DEF GoesOn
      <4>. QED
        BY <4>1, <4>2
    <3>2. call.fn \in {"subscribe", "publish"} => p \in InMine /\ p.type # "PUBREC"
      BY <1>2, <3>1 DEF Found, InMine, MQTTInv, Subscribing, AckInv, Awaited
    <3>3. ~Holds(in', InMine) /\ ~Holds(out', OutMine)
      BY <1>1, <2>5, <2>6, <2>7, <2>8, <3>2 DEF AckInv, OneOnItsWay
    <3>4. OneOnItsWay' /\ Awaited'
      BY <2>5, <2>7, <2>8, <3>1, <3>3 DEF OneOnItsWay, Awaited
    <3>5. SameId'
      BY <3>3 DEF SameId, Holds
    <3>. QED
      BY <3>4, <3>5 DEF AckInv
  <2>. QED
    BY <2>9, <2>10
<1>. QED
  BY <1>3, <1>4

(* The broker's answer takes the place of the request, with its id.        *)
LEMMA AckBrokerReads ==
    ASSUME MQTTInv, AckInv, BrokerReads
    PROVE  AckInv'
<1>. DEFINE p == Head(out)
<1>1. PICK refuse \in {0, 1} : in' = in \o BrokerReply(p, refuse)
  BY DEF BrokerReads
<1>2. out' = Tail(out) /\ call' = call
  BY DEF BrokerReads, clientVars
<1>3. PICK q \in Seq(Packets), o \in Seq(Packets) : q = in /\ o = out /\ o # <<>>
  BY DEF BrokerReads, MQTTInv, MQTTTypeOK
<1>4. p \in Packets /\ p = o[1] /\ 1 \in DOMAIN o
  BY <1>3, TailFacts
<1>5. PICK r \in Seq(Packets) : r = BrokerReply(p, refuse)
  BY <1>4, BrokerFacts
<1>6. Single(r, InMine) /\ \A i \in DOMAIN r : r[i] \in InMine => p \in OutMine /\ r[i].id = p.id
  BY <1>4, <1>5, BrokerAck
<1>7. in' = q \o r /\ out' = Tail(o)
  BY <1>1, <1>2, <1>3, <1>5
<1>8. Single(q, InMine) /\ Single(o, OutMine)
      /\ ~(Holds(q, InMine) /\ Holds(o, OutMine)) /\ (p \in OutMine => Holds(o, OutMine))
  BY <1>3, <1>4 DEF AckInv, OneOnItsWay, Holds
<1>9. Single(Tail(o), OutMine) /\ (Holds(Tail(o), OutMine) => Holds(o, OutMine) /\ p \notin OutMine)
  BY <1>3, <1>8, HoldsTail
<1>. HIDE DEF p
<1>10. /\ Holds(r, InMine) => p \in OutMine
       /\ Holds(q \o r, InMine) => Holds(q, InMine) \/ Holds(r, InMine)
       /\ Single(q \o r, InMine)
  BY <1>6, <1>8, HoldsJoin DEF Holds
<1>11. OneOnItsWay' /\ Awaited'
  BY <1>2, <1>3, <1>7, <1>8, <1>9, <1>10 DEF AckInv, OneOnItsWay, Awaited
<1>12. ASSUME NEW i \in DOMAIN out', out'[i] \in OutMine PROVE out'[i].id = call.id
  BY <1>3, <1>7, <1>12, TailFacts DEF AckInv, SameId
<1>13. p \in OutMine => p.id = call.id
  BY <1>3, <1>4 DEF AckInv, SameId
<1>14. ASSUME NEW i \in DOMAIN in', in'[i] \in InMine PROVE in'[i].id = call.id
  BY <1>3, <1>6, <1>7, <1>13, <1>14, JoinFacts DEF AckInv, SameId
<1>15. SameId'
  BY <1>2, <1>12, <1>14 DEF SameId
<1>. QED
  BY <1>11, <1>15 DEF AckInv

(* A command of the UI acknowledges nothing.                               *)
LEMMA AckBrokerPublishes ==
    ASSUME MQTTInv, AckInv, BrokerPublishes
    PROVE  AckInv'
<1>1. PICK r \in Packets : in' = Append(in, r) /\ r \notin InMine
  <2>1. packet("PART", 0, 0) \in Packets /\ packet("PART", 0, 0).type = "PART"
    BY PacketFacts DEF Types
  <2>2. ASSUME NEW qos \in Qos
        PROVE  /\ packet("PUBLISH", IF qos = 0 THEN 0 ELSE 1, qos) \in Packets
               /\ packet("PUBLISH", IF qos = 0 THEN 0 ELSE 1, qos).type = "PUBLISH"
    BY MQTTAssumption, PacketFacts DEF Types
  <2>. QED
    BY <2>1, <2>2 DEF BrokerPublishes, InMine
<1>2. out' = out /\ call' = call
  BY DEF BrokerPublishes, clientVars
<1>3. PICK q \in Seq(Packets) : q = in
  BY DEF MQTTInv, MQTTTypeOK
<1>4. in' = q \o <<r>> /\ <<r>> \in Seq(Packets)
  BY <1>1, <1>3, AppendIsJoin
<1>5. ~Holds(<<r>>, InMine) /\ Single(q, InMine)
  BY <1>1, <1>3, HoldsShort DEF AckInv, OneOnItsWay
<1>6. Single(q \o <<r>>, InMine) /\ (Holds(q \o <<r>>, InMine) => Holds(q, InMine))
  BY <1>4, <1>5, HoldsJoin
<1>7. OneOnItsWay' /\ Awaited'
  BY <1>2, <1>3, <1>4, <1>6 DEF AckInv, OneOnItsWay, Awaited
<1>8. ASSUME NEW i \in DOMAIN in', in'[i] \in InMine PROVE in'[i].id = call.id
  BY <1>3, <1>4, <1>5, <1>8, JoinFacts DEF AckInv, SameId, Holds
<1>9. SameId'
  BY <1>2, <1>8 DEF AckInv, SameId
<1>. QED
  BY <1>7, <1>9 DEF AckInv

-----------------------------------------------------------------------------
(* An acknowledgement that ends a call is the one for the call's packet,   *)
(* whatever broker and link do, though lwmqtt compares its type only       *)
(* (lwmqtt_cycle_until, lwmqtt/client.c).                                  *)
THEOREM AckIsMineAlways == MQTTSpec => AckIsMine
<1>1. MQTTInit => AckInv
  <2>1. ASSUME MQTTInit PROVE OneOnItsWay /\ SameId /\ Awaited
    BY <2>1, HoldsShort DEF MQTTInit, OneOnItsWay, SameId, Awaited, NoCall
  <2>. QED
    BY <2>1 DEF AckInv
<1>2. MQTTInv /\ [MQTTNext]_mqttVars => MQTTInv'
  BY MQTTInvStep
<1>3. MQTTInv /\ AckInv /\ [MQTTNext]_mqttVars => AckInv'
  BY AckStarts, AckLoops, AckCycle, AckBrokerReads, AckBrokerPublishes DEF MQTTNext, RigStep
<1>4. ASSUME MQTTInv, AckInv, Cycle, call.fn \in {"subscribe", "publish"}, call' = NoCall, _connected'
      PROVE  Head(in).id = call.id
  <2>1. ~Fails
    BY <1>4 DEF Fails, close
  <2>2. Found(Head(in))
    <3>1. IF Found(Head(in)) THEN Ends(Head(in)) ELSE GoesOn
      BY <1>4, <2>1 DEF Cycle
    <3>2. ~GoesOn
      <4>1. call.fn # "yield" /\ call.fn # "none" /\ NoCall.fn = "none"
        BY <1>4 DEF NoCall
      <4>2. GoesOn => call' = call
        BY <4>1 DEF GoesOn
      <4>. QED
        BY <1>4, <4>1, <4>2
    <3>. QED
      BY <3>1, <3>2
  <2>3. PICK q \in Seq(Packets) : q = in /\ q # <<>>
    BY <1>4 DEF Cycle, MQTTInv, MQTTTypeOK
  <2>4. Head(in) \in Packets /\ Head(in) = in[1] /\ 1 \in DOMAIN in
    BY <2>3, TailFacts
  <2>5. Head(in) \in InMine
    BY <1>4, <2>2, <2>4 DEF Found, InMine, MQTTInv, Subscribing, AckInv, Awaited
  <2>. QED
    BY <1>4, <2>4, <2>5 DEF AckInv, SameId
<1>5. MQTTInv /\ AckInv /\ [MQTTNext]_mqttVars =>
        [(Cycle /\ call.fn \in {"subscribe", "publish"} /\ call' = NoCall /\ _connected')
           => Head(in).id = call.id]_mqttVars
  BY <1>4
<1>. QED
  BY <1>1, <1>2, <1>3, <1>5, InitInv, PTL DEF MQTTSpec, AckIsMine


-----------------------------------------------------------------------------
(* The third invariant.  A ping that the link has not swallowed is on its  *)
(* way there or back, and the keep alive timer cannot run out under it     *)
(* before the answer is in the read buffer: a link that works is empty     *)
(* when time passes.                                                       *)
Timers == keep_alive_timer \in Nat /\ command_timer \in Nat

LinkHonest ==
    /\ net = "mute" => silent
    /\ Has(in, "PART") => net = "mute"
    /\ Len(in) <= Capacity

OnePing ==
    /\ Has(out, "PINGREQ") \/ Has(in, "PINGRESP") => pong_pending
    /\ ~(Has(out, "PINGREQ") /\ Has(in, "PINGRESP"))
    /\ Once(out, "PINGREQ") /\ Once(in, "PINGRESP")

Answered ==
    /\ pong_pending /\ ~silent /\ net = "up" => Has(out, "PINGREQ") \/ Has(in, "PINGRESP")
    /\ Has(out, "PINGREQ") /\ ~silent => keep_alive_timer > 0

(* loop reads what had arrived when it was called, if that was not more    *)
(* than the read buffer holds.  An answer that comes later is not read     *)
(* before the keep alive, but then the ping was sent no tick ago.          *)
Reading ==
    /\ call.fn = "yield" /\ net # "down" => call.left \in 1 .. Len(in)
    /\ call.fn = "yield" /\ ~silent /\ net = "up" => command_timer > 0
    /\ call.fn = "yield" /\ ~silent /\ ~crowded =>
          \A i \in DOMAIN in : in[i].type = "PINGRESP" /\ i > call.left => keep_alive_timer > 0
    /\ call.fn = "keep_alive" /\ pong_pending /\ ~silent /\ ~crowded => keep_alive_timer > 0

PongInv == Timers /\ LinkHonest /\ OnePing /\ Answered /\ Reading

-----------------------------------------------------------------------------
(* A type that stays on its way.                                           *)
LEMMA HasKept ==
    ASSUME NEW S, NEW q \in Seq(S), NEW r \in Seq(S), NEW t
    PROVE  /\ Has(q, t) \/ Has(r, t) => Has(q \o r, t)
           /\ q # <<>> /\ Has(q, t) /\ Head(q).type # t => Has(Tail(q), t)
<1>1. Has(q, t) => Has(q \o r, t)
  <2>. SUFFICES ASSUME NEW i \in DOMAIN q, q[i].type = t PROVE Has(q \o r, t)
    BY DEF Has
  <2>1. i \in DOMAIN (q \o r) /\ (q \o r)[i] = q[i]
    OBVIOUS
  <2>. QED
    BY <2>1 DEF Has
<1>2. Has(r, t) => Has(q \o r, t)
  <2>. SUFFICES ASSUME NEW i \in DOMAIN r, r[i].type = t PROVE Has(q \o r, t)
    BY DEF Has
  <2>1. Len(q) + i \in DOMAIN (q \o r) /\ (q \o r)[Len(q) + i] = r[i]
    OBVIOUS
  <2>. QED
    BY <2>1 DEF Has
<1>3. q # <<>> /\ Has(q, t) /\ Head(q).type # t => Has(Tail(q), t)
  <2>. SUFFICES ASSUME q # <<>>, NEW i \in DOMAIN q, q[i].type = t, Head(q).type # t
                PROVE  Has(Tail(q), t)
    BY DEF Has
  <2>1. i # 1 /\ i \in 1 .. Len(q)
    BY TailFacts
  <2>2. i - 1 \in DOMAIN Tail(q) /\ Tail(q)[i - 1] = q[i]
    BY <2>1
  <2>. QED
    BY <2>2 DEF Has
<1>. QED
  BY <1>1, <1>2, <1>3

(* Only a ping is answered with a PINGRESP, and always; no packet is cut   *)
(* off by the broker itself.                                               *)
LEMMA BrokerPings ==
    ASSUME NEW p \in Packets, NEW refuse \in {0, 1}
    PROVE  /\ Has(BrokerReply(p, refuse), "PINGRESP") <=> p.type = "PINGREQ"
           /\ ~Has(BrokerReply(p, refuse), "PART")
           /\ Once(BrokerReply(p, refuse), "PINGRESP")
<1>1. \A t \in {"CONNACK", "SUBACK", "PINGRESP"}, id \in Nat, a \in {0, 1} :
         packet(t, id, a).type = t
  BY DEF packet
<1>2. p.id \in Nat
  BY DEF Packets
<1>3. CASE p.type = "CONNECT"
  BY <1>1, <1>3, HasOne DEF BrokerReply
<1>4. CASE p.type = "SUBSCRIBE"
  BY <1>1, <1>2, <1>4, HasOne DEF BrokerReply
<1>5. CASE p.type = "PINGREQ"
  <2>1. BrokerReply(p, refuse) = <<packet("PINGRESP", 0, 0)>>
    BY <1>5 DEF BrokerReply
  <2>2. Has(<<packet("PINGRESP", 0, 0)>>, "PINGRESP")
    BY <1>1 DEF Has
  <2>. QED
    BY <1>1, <1>5, <2>1, <2>2, HasOne
<1>6. CASE p.type \notin {"CONNECT", "SUBSCRIBE", "PINGREQ"}
  <2>1. BrokerReply(p, refuse) = Handshake(p)
    BY <1>6 DEF BrokerReply
  <2>. QED
    BY <1>6, <2>1, HandshakeFacts, HasEmpty, HasOne
<1>. QED
  BY <1>3, <1>4, <1>5, <1>6

(* The client answers no packet with a ping.                               *)
LEMMA RepliesPings ==
    ASSUME NEW p \in Packets, NEW answer \in Answers(p)
    PROVE  ~Has(Replies(p, answer), "PINGREQ")
<1>1. <<>> \in Seq(Packets) /\ \A a \in Packets : <<a>> \in Seq(Packets)
  OBVIOUS
<1>2. answer \in Seq(Packets) /\ ~Has(answer, "PINGREQ")
  <2>1. CASE answer = <<>>
    BY <1>1, <2>1, HasEmpty
  <2>2. CASE answer # <<>>
    <3>1. PICK a \in Packets : answer = <<a>> /\ a.type = "PUBLISH"
      BY <2>2, AnswersFacts
    <3>. QED
      BY <1>1, <3>1, HasOne
  <2>. QED
    BY <2>1, <2>2
<1>3. Handshake(p) \in Seq(Packets)
  <2>1. <<>> \in Seq(Packets) /\ \A r \in Packets : <<r>> \in Seq(Packets)
    OBVIOUS
  <2>. QED
    BY <2>1, HandshakeFacts
<1>4. ~Has(Handshake(p), "PINGREQ")
  BY HandshakeFacts, HasEmpty, HasOne
<1>5. Replies(p, answer) = answer \o Handshake(p)
  BY DEF Replies
<1>. QED
  BY <1>2, <1>3, <1>4, <1>5, HasJoin

-----------------------------------------------------------------------------
(* A connection that is closed has no ping on its way.                     *)
LEMMA PongGone ==
    ASSUME in' = <<>>, out' = <<>>, net' = "down", call'.fn \notin {"yield", "keep_alive"},
           Timers'
    PROVE  PongInv'
<1>1. LinkHonest' /\ OnePing' /\ Answered'
  BY MQTTAssumption, HasEmpty DEF LinkHonest, OnePing, Answered
<1>2. Reading'
  BY DEF Reading
<1>. QED
  BY <1>1, <1>2 DEF PongInv

(* A step of the client that touches neither the link nor a ping.          *)
LEMMA PongQuiet ==
    ASSUME PongInv, UNCHANGED <<linkVars, pong_pending, silent, keep_alive_timer>>,
           command_timer' \in Nat,
           \/ UNCHANGED <<call, command_timer, crowded>>
           \/ call'.fn \notin {"yield", "keep_alive"}
    PROVE  PongInv'
<1>1. Timers' /\ LinkHonest' /\ OnePing' /\ Answered'
  BY DEF PongInv, Timers, LinkHonest, OnePing, Answered, linkVars
<1>2. Reading'
  BY DEF PongInv, Reading, linkVars
<1>. QED
  BY <1>1, <1>2 DEF PongInv

(* A packet other than a ping is sent.                                     *)
LEMMA PongSends ==
    ASSUME MQTTInv, PongInv, NEW p \in Packets, p.type # "PINGREQ", out' = Append(out, p),
           keep_alive_timer' = KeepAlive, command_timer' \in Nat,
           UNCHANGED <<net, in, pong_pending, silent>>,
           call'.fn \notin {"yield", "keep_alive"}
    PROVE  PongInv'
<1>1. PICK o \in Seq(Packets) : o = out
  BY DEF MQTTInv, MQTTTypeOK
<1>2. out' = o \o <<p>> /\ <<p>> \in Seq(Packets) /\ ~Has(<<p>>, "PINGREQ")
  BY <1>1, AppendIsJoin, HasOne
<1>3. Has(out', "PINGREQ") <=> Has(out, "PINGREQ")
  <2>1. Has(o \o <<p>>, "PINGREQ") => Has(o, "PINGREQ")
    BY <1>2, HasJoin
  <2>2. Has(o, "PINGREQ") => Has(o \o <<p>>, "PINGREQ")
    BY <1>2, HasKept
  <2>. QED
    BY <1>1, <1>2, <2>1, <2>2
<1>4. Once(out', "PINGREQ")
  BY <1>1, <1>2, HasJoin DEF PongInv, OnePing
<1>5. KeepAlive \in Nat /\ KeepAlive > 0
  BY MQTTAssumption
<1>6. Timers' /\ LinkHonest' /\ OnePing' /\ Answered'
  BY <1>3, <1>4, <1>5 DEF PongInv, Timers, LinkHonest, OnePing, Answered
<1>7. Reading'
  BY DEF Reading
<1>. QED
  BY <1>6, <1>7 DEF PongInv

-----------------------------------------------------------------------------
(* One action after the other.                                             *)
LEMMA PongConnect ==
    ASSUME MQTTInv, PongInv, connect
    PROVE  PongInv'
<1>1. CASE UNCHANGED <<linkVars, clientVars, silent>>
  <2>1. command_timer \in Nat
    BY DEF PongInv, Timers
  <2>. QED
    BY <1>1, <2>1, PongQuiet DEF clientVars, connect
<1>2. CASE ~UNCHANGED <<linkVars, clientVars, silent>>
  <2>1. /\ net' = "up" /\ silent' = FALSE /\ in' = <<>>
        /\ out' = <<packet("CONNECT", 0, 0)>>
        /\ keep_alive_timer' = KeepAlive /\ command_timer' = Timeout
        /\ pong_pending' = FALSE /\ call'.fn = "connect"
    BY <1>2 DEF connect, PongOnConnect, waitFor
  <2>2. ~Has(out', "PINGREQ") /\ Once(out', "PINGREQ")
    BY <2>1, HasOne DEF packet
  <2>3. ~Has(in', "PINGRESP") /\ Once(in', "PINGRESP") /\ ~Has(in', "PART")
    BY <2>1, HasEmpty
  <2>. QED
    BY <2>1, <2>2, <2>3, MQTTAssumption
    DEF PongInv, Timers, LinkHonest, OnePing, Answered, Reading
<1>. QED
  BY <1>1, <1>2

(* A call that cannot send closes the connection.                          *)
LEMMA PongFails ==
    ASSUME PongInv, FailsAtOnce, command_timer' \in Nat
    PROVE  PongInv'
  BY PongGone DEF FailsAtOnce, close, NoCall, PongInv, Timers

(* A SUBSCRIBE is written as a command that is no ping.                    *)
LEMMA PongSubscribe ==
    ASSUME MQTTInv, PongInv, subscribe
    PROVE  PongInv'
<1>. DEFINE p == packet("SUBSCRIBE", last_packet_id', subscribed + 1)
<1>1. command_timer' = Timeout /\ Timeout \in Nat /\ UNCHANGED <<pong_pending, silent>>
  BY MQTTAssumption DEF subscribe
<1>2. p \in Packets /\ p.type = "SUBSCRIBE"
  <2>1. last_packet_id' \in Nat /\ subscribed + 1 \in Nat
    BY MQTTAssumption DEF subscribe, lwmqtt_get_next_packet_id, MQTTInv, MQTTTypeOK
  <2>. QED
    BY <2>1, PacketFacts DEF Types
<1>3. CASE FailsAtOnce
  BY <1>1, <1>3, PongFails
<1>4. CASE ~FailsAtOnce
  <2>1. send(p) /\ call' = waitFor("subscribe", "SUBACK", p.id) /\ UNCHANGED <<net, in>>
    BY <1>4 DEF subscribe
  <2>2. call'.fn = "subscribe"
    BY <2>1 DEF waitFor
  <2>. HIDE DEF p
  <2>. QED
    BY <1>1, <1>2, <2>1, <2>2, PongSends DEF send
<1>. QED
  BY <1>3, <1>4

(* So is a PUBLISH.                                                        *)
LEMMA PongPublish ==
    ASSUME MQTTInv, PongInv, publish
    PROVE  PongInv'
<1>1. command_timer' = Timeout /\ Timeout \in Nat /\ UNCHANGED <<pong_pending, silent>>
  BY MQTTAssumption DEF publish
<1>2. PICK qos \in Qos :
         LET id == IF qos = 0 THEN 0 ELSE lwmqtt_get_next_packet_id
             p == packet("PUBLISH", id, qos)
         IN  /\ last_packet_id' = IF qos = 0 THEN last_packet_id ELSE id
             /\ IF CanSend(<<p>>)
                THEN /\ send(p)
                     /\ call' = IF qos = 0 THEN NoCall ELSE waitFor("publish", AckType[qos], id)
                     /\ UNCHANGED <<net, in, _connected>>
                ELSE FailsAtOnce
  BY DEF publish
<1>. DEFINE id == IF qos = 0 THEN 0 ELSE lwmqtt_get_next_packet_id
            p == packet("PUBLISH", id, qos)
<1>3. p \in Packets /\ p.type = "PUBLISH"
  <2>1. id \in Nat /\ qos \in 0 .. 2
    BY MQTTAssumption DEF lwmqtt_get_next_packet_id, MQTTInv, MQTTTypeOK
  <2>. QED
    BY <2>1, PacketFacts DEF Types
<1>4. CASE FailsAtOnce
  BY <1>1, <1>4, PongFails
<1>5. CASE ~FailsAtOnce
  <2>1. send(p) /\ UNCHANGED <<net, in>>
        /\ call' = IF qos = 0 THEN NoCall ELSE waitFor("publish", AckType[qos], id)
    BY <1>2, <1>5
  <2>2. call'.fn \in {"none", "publish"}
    BY <2>1 DEF waitFor, NoCall
  <2>. HIDE DEF p
  <2>. QED
    BY <1>1, <1>3, <2>1, <2>2, PongSends DEF send
<1>. QED
  BY <1>4, <1>5

(* The other steps between two packets.                                    *)
LEMMA PongIdle ==
    ASSUME MQTTInv, PongInv, Subscribed \/ Retry \/ KeepAliveOver \/ PongTimeout \/ Breaks
    PROVE  PongInv'
<1>1. command_timer \in Nat /\ keep_alive_timer \in Nat /\ Timeout \in Nat /\ NoCall.fn = "none"
  BY MQTTAssumption DEF PongInv, Timers, NoCall
<1>2. CASE Subscribed
  BY <1>1, <1>2, PongQuiet DEF Subscribed, clientVars
<1>3. CASE Retry
  <2>1. UNCHANGED <<call, pong_pending, silent, keep_alive_timer, command_timer>> /\ call = NoCall
    BY <1>3 DEF Retry, Idle
  <2>2. CASE connected
    BY <1>1, <1>3, <2>1, <2>2, PongGone DEF Retry, close, Timers
  <2>3. CASE ~connected
    BY <1>1, <1>3, <2>1, <2>3, PongQuiet DEF Retry
  <2>. QED
    BY <2>2, <2>3
<1>4. CASE KeepAliveOver
  BY <1>1, <1>4, PongQuiet DEF KeepAliveOver
<1>5. CASE PongTimeout
  BY <1>1, <1>5, PongFails DEF PongTimeout
<1>6. CASE Breaks
  BY <1>1, <1>6, PongGone DEF Breaks, Fails, EndsCall, close, Timers
<1>. QED
  BY <1>2, <1>3, <1>4, <1>5, <1>6

(* The ping itself: there was none before.                                 *)
LEMMA PongPing ==
    ASSUME MQTTInv, PongInv, Ping
    PROVE  PongInv'
<1>. DEFINE p == packet("PINGREQ", 0, 0)
<1>1. command_timer' = Timeout /\ Timeout \in Nat /\ ~pong_pending /\ UNCHANGED silent
  BY MQTTAssumption DEF Ping
<1>2. CASE FailsAtOnce
  BY <1>1, <1>2, PongFails
<1>3. CASE ~FailsAtOnce
  <2>1. /\ out' = Append(out, p) /\ keep_alive_timer' = KeepAlive /\ pong_pending' = TRUE
        /\ call' = NoCall /\ UNCHANGED <<net, in>>
    BY <1>3 DEF Ping, send
  <2>2. p \in Packets /\ p.type = "PINGREQ"
    BY PacketFacts DEF Types
  <2>. HIDE DEF p
  <2>3. PICK o \in Seq(Packets) : o = out
    BY DEF MQTTInv, MQTTTypeOK
  <2>4. out' = o \o <<p>> /\ <<p>> \in Seq(Packets) /\ Has(<<p>>, "PINGREQ") /\ Once(<<p>>, "PINGREQ")
    <3>1. <<p>> \in Seq(Packets) /\ out' = o \o <<p>> /\ DOMAIN <<p>> = {1} /\ <<p>>[1] = p
      BY <2>1, <2>2, <2>3, AppendIsJoin
    <3>. QED
      BY <2>2, <3>1, HasOne DEF Has
  <2>5. ~Has(o, "PINGREQ") /\ ~Has(in, "PINGRESP")
    BY <1>1, <2>3 DEF PongInv, OnePing
  <2>6. Has(out', "PINGREQ")
    BY <2>4, HasKept
  <2>7. Once(out', "PINGREQ")
    BY <2>4, <2>5, HasJoin
  <2>8. KeepAlive \in Nat /\ KeepAlive > 0 /\ call'.fn = "none"
    BY <2>1, MQTTAssumption DEF NoCall
  <2>9. Timers' /\ LinkHonest' /\ Reading'
    BY <1>1, <2>1, <2>8 DEF PongInv, Timers, LinkHonest, Reading
  <2>10. OnePing' /\ Answered'
    BY <2>1, <2>5, <2>6, <2>7, <2>8 DEF PongInv, OnePing, Answered
  <2>. QED
    BY <2>9, <2>10 DEF PongInv
<1>. QED
  BY <1>2, <1>3

(* loop will read all that has arrived, or as much as the read buffer has. *)
LEMMA PongLoop ==
    ASSUME MQTTInv, PongInv, loop
    PROVE  PongInv'
<1>1. PICK q \in Seq(Packets) : q = in
  BY DEF MQTTInv, MQTTTypeOK
<1>2. Len(in) \in Nat /\ Window \in Nat /\ DOMAIN in = 1 .. Len(in)
  BY <1>1, MQTTAssumption
<1>3. Available \in 1 .. Len(in) /\ (Len(in) <= Window => Available = Len(in))
  BY <1>2 DEF loop, Available, Least
<1>4. /\ call'.fn = "yield" /\ call'.left = Available /\ command_timer' = Timeout /\ Timeout > 0
      /\ UNCHANGED <<linkVars, pong_pending, keep_alive_timer, silent>> /\ Timeout \in Nat
  BY MQTTAssumption DEF loop, NoCall
<1>5. Timers' /\ LinkHonest' /\ OnePing' /\ Answered'
  BY <1>4 DEF PongInv, Timers, LinkHonest, OnePing, Answered, linkVars
<1>6. Reading'
  <2>1. ~crowded' => Available = Len(in)
    <3>1. crowded' = (Len(in) > Window)
      BY DEF loop
    <3>2. ~(Len(in) > Window) => Len(in) <= Window
      BY <1>2
    <3>. QED
      BY <1>3, <3>1, <3>2
  <2>2. ~crowded' => \A i \in DOMAIN in : ~(i > call'.left)
    BY <1>2, <1>4, <2>1
  <2>. QED
    BY <1>3, <1>4, <2>2 DEF Reading, linkVars
<1>. QED
  BY <1>5, <1>6 DEF PongInv

(* A command that times out closes the connection, and with it the ping    *)
(* that may be outstanding.                                                *)
LEMMA PongTimesOut ==
    ASSUME MQTTInv, PongInv, TimesOut
    PROVE  PongInv'
<1>1. CASE Fails
  BY <1>1, PongGone DEF TimesOut, Fails, EndsCall, close, NoCall, PongInv, Timers
<1>2. CASE ~Fails
  <2>1. /\ call.fn = "yield" /\ call'.fn = "keep_alive" /\ command_timer = 0 /\ net # "down"
        /\ UNCHANGED <<linkVars, pong_pending, silent, keep_alive_timer, command_timer>>
    BY <1>2 DEF TimesOut, NoCall
  <2>2. silent
    BY <2>1 DEF MQTTInv, MQTTTypeOK, PongInv, Reading, LinkHonest
  <2>3. Timers' /\ LinkHonest' /\ OnePing' /\ Answered'
    BY <2>1 DEF PongInv, Timers, LinkHonest, OnePing, Answered, linkVars
  <2>4. Reading'
    BY <2>1, <2>2 DEF Reading
  <2>. QED
    BY <2>3, <2>4 DEF PongInv
<1>. QED
  BY <1>1, <1>2

(* A packet is read.  If it is the answer to the ping, there is none left; *)
(* and loop, when it has read its last, leaves no answer behind but one    *)
(* whose ping was sent since it began.                                     *)
LEMMA PongCycle ==
    ASSUME MQTTInv, PongInv, Cycle
    PROVE  PongInv'
<1>. DEFINE p == Head(in)
<1>0. PICK answer \in Answers(p) :
         /\ keep_alive_timer' \in {keep_alive_timer, KeepAlive}
         /\ command_timer' \in {command_timer, Timeout}
         /\ \/ /\ in' = Tail(in) /\ out' = out \o Replies(p, answer) /\ UNCHANGED net
               /\ IF Found(p) THEN Ends(p) ELSE GoesOn
            \/ Fails
  BY DEF Cycle
<1>. DEFINE R == Replies(p, answer)
<1>1. PICK q \in Seq(Packets), o \in Seq(Packets) : q = in /\ o = out /\ q # <<>>
  BY DEF Cycle, MQTTInv, MQTTTypeOK
<1>2. p \in Packets /\ p = q[1] /\ 1 \in DOMAIN q /\ Tail(q) \in Seq(Packets)
      /\ Len(Tail(q)) = Len(q) - 1 /\ Len(q) \in Nat /\ DOMAIN q = 1 .. Len(q)
  BY <1>1, TailFacts
<1>3. R \in Seq(Packets) /\ ~Has(R, "PINGREQ")
  BY <1>2, RepliesFacts, RepliesPings
<1>4. /\ net \in {"up", "mute"} /\ command_timer > 0
      /\ call.fn \notin {"none", "keep_alive"}
      /\ pong_pending' = (pong_pending /\ p.type # "PINGRESP")
      /\ silent' = (silent /\ (p.type = "PINGRESP" => net = "mute"))
      /\ keep_alive_timer' \in {keep_alive_timer, KeepAlive}
      /\ command_timer' \in {command_timer, Timeout}
      /\ crowded' = crowded
  BY <1>0 DEF Cycle, Reads, Waits, MQTTInv, MQTTTypeOK
<1>5. /\ keep_alive_timer \in Nat /\ command_timer \in Nat
      /\ KeepAlive \in Nat /\ KeepAlive > 0 /\ Timeout \in Nat /\ Timeout > 0
  BY MQTTAssumption DEF PongInv, Timers
<1>6. Timers'
  BY <1>4, <1>5 DEF Timers
<1>7. CASE Fails
  BY <1>6, <1>7, PongGone DEF Fails, EndsCall, close, NoCall
<1>8. CASE ~Fails
  <2>1. net' = net /\ in' = Tail(in) /\ out' = out \o R
        /\ (IF Found(p) THEN Ends(p) ELSE GoesOn)
    BY <1>0, <1>8
  <2>. HIDE DEF R
  <2>2. in' = Tail(q) /\ out' = o \o R
    BY <1>1, <2>1
  <2>. HIDE DEF p
  <2>3. Has(out', "PINGREQ") <=> Has(out, "PINGREQ")
    <3>1. Has(o \o R, "PINGREQ") => Has(o, "PINGREQ")
      BY <1>3, HasJoin
    <3>2. Has(o, "PINGREQ") => Has(o \o R, "PINGREQ")
      BY <1>3, HasKept
    <3>. QED
      BY <1>1, <2>2, <3>1, <3>2
  <2>4. Once(out', "PINGREQ")
    BY <1>1, <1>3, <2>2, HasJoin DEF PongInv, OnePing
  <2>5. /\ Once(in', "PINGRESP")
        /\ Has(in', "PINGRESP") => Has(in, "PINGRESP") /\ p.type # "PINGRESP"
        /\ Has(in', "PART") => Has(in, "PART")
    <3>1. Once(q, "PINGRESP") /\ p = Head(q)
      BY <1>1 DEF PongInv, OnePing, p
    <3>. QED
      BY <1>1, <2>2, <3>1, HasTail
  <2>6. p.type = "PINGRESP" => Has(in, "PINGRESP")
    BY <1>1, <1>2 DEF Has
  <2>7. p.type # "PINGRESP" /\ Has(in, "PINGRESP") => Has(in', "PINGRESP")
    <3>1. p = Head(q)
      BY <1>1 DEF p
    <3>. QED
      BY <1>1, <2>2, <3>1, HasKept
  <2>8. LinkHonest'
    <3>1. Len(in') <= Capacity
      BY <1>1, <1>2, <2>2, MQTTAssumption DEF PongInv, LinkHonest
    <3>. QED
      BY <1>4, <2>1, <2>5, <3>1 DEF PongInv, LinkHonest
  <2>9. OnePing'
    BY <1>4, <2>3, <2>4, <2>5, <2>6 DEF PongInv, OnePing
  <2>10. ~silent' => ~silent \/ p.type = "PINGRESP"
    BY <1>4
  <2>11. keep_alive_timer > 0 => keep_alive_timer' > 0
    BY <1>4, <1>5
  <2>12. Answered'
    <3>1. pong_pending' /\ ~silent' /\ net' = "up" => Has(out', "PINGREQ") \/ Has(in', "PINGRESP")
      BY <1>4, <2>1, <2>3, <2>7 DEF PongInv, Answered
    <3>2. Has(out', "PINGREQ") /\ ~silent' => keep_alive_timer' > 0
      BY <2>3, <2>6, <2>10, <2>11 DEF PongInv, OnePing, Answered
    <3>. QED
      BY <3>1, <3>2 DEF Answered
  <2>13. Reading'
    <3>1. CASE call' = NoCall
      BY <3>1 DEF Reading, NoCall
    <3>2. CASE call' = call
      <4>1. call.fn # "yield" => Reading'
        BY <1>4, <3>2 DEF Reading
      <4>2. call.fn = "yield" => call.left \in 1 .. Len(in) /\ call \in Calls
        BY <1>4 DEF PongInv, Reading, MQTTInv, MQTTTypeOK
      <4>3. call.fn # "yield"
        <5>. SUFFICES ASSUME call.fn = "yield" PROVE FALSE
          OBVIOUS
        <5>1. GoesOn \/ Ends(p)
          BY <2>1
        <5>2. call.left \in Nat /\ NoCall.fn = "none"
          BY <1>1, <1>2, <4>2 DEF NoCall
        <5>3. ~Ends(p)
          BY <3>2, <5>2 DEF Ends
        <5>4. call' = IF call.left > 1 THEN [call EXCEPT !.left = @ - 1]
                      ELSE [NoCall EXCEPT !.fn = "keep_alive"]
          BY <5>1, <5>3 DEF GoesOn
        <5>5. [NoCall EXCEPT !.fn = "keep_alive"].fn = "keep_alive"
          BY DEF NoCall
        <5>6. call' # call
          <6>1. CASE call.left > 1
            <7>1. call'.left = call.left - 1
              BY <4>2, <5>4, <6>1 DEF Calls
            <7>. QED
              BY <3>2, <5>2, <7>1
          <6>2. CASE ~(call.left > 1)
            BY <3>2, <5>4, <5>5, <6>2
          <6>. QED
            BY <6>1, <6>2
        <5>. QED
          BY <3>2, <5>6
      <4>. QED
        BY <4>1, <4>3
    <3>3. CASE call' # NoCall /\ call' # call
      <4>1. /\ call.fn = "yield"
            /\ call' = IF call.left > 1 THEN [call EXCEPT !.left = @ - 1]
                       ELSE [NoCall EXCEPT !.fn = "keep_alive"]
        BY <2>1, <3>3 DEF GoesOn, Ends
      <4>2. call.left \in 1 .. Len(in) /\ call \in Calls /\ call.left \in Nat
        BY <1>1, <1>2, <1>4, <4>1 DEF PongInv, Reading, MQTTInv, MQTTTypeOK
      <4>3. \A i \in DOMAIN in :
               in[i].type = "PINGRESP" /\ i > call.left /\ ~silent /\ ~crowded => keep_alive_timer > 0
        BY <4>1 DEF PongInv, Reading
      <4>4. CASE call.left > 1
        <5>1. call'.fn = "yield" /\ call'.left = call.left - 1
          BY <4>1, <4>2, <4>4 DEF Calls
        <5>2. call'.left \in 1 .. Len(in')
          BY <1>1, <1>2, <2>2, <4>2, <4>4, <5>1
        <5>3. command_timer' > 0
          BY <1>4, <1>5
        <5>4. ASSUME NEW i \in DOMAIN in', in'[i].type = "PINGRESP", i > call'.left, ~silent',
                     ~crowded'
              PROVE  keep_alive_timer' > 0
          <6>1. i \in Nat /\ i + 1 \in DOMAIN in /\ in'[i] = in[i + 1]
            BY <1>1, <2>2, TailFacts
          <6>2. i + 1 > call.left
            BY <4>2, <5>1, <5>4, <6>1
          <6>3. Has(in', "PINGRESP")
            BY <5>4 DEF Has
          <6>4. ~silent
            BY <1>4, <2>5, <5>4, <6>3
          <6>. QED
            BY <1>4, <2>11, <4>3, <5>4, <6>1, <6>2, <6>4
        <5>. QED
          BY <5>1, <5>2, <5>3, <5>4 DEF Reading
      <4>5. CASE ~(call.left > 1)
        <5>1. call'.fn = "keep_alive" /\ call.left = 1
          BY <4>1, <4>2, <4>5 DEF NoCall
        <5>2. ASSUME pong_pending', ~silent', ~crowded'
              PROVE  keep_alive_timer' > 0
          <6>1. pong_pending /\ ~silent /\ p.type # "PINGRESP" /\ net = "up"
            BY <1>4, <5>2 DEF PongInv, LinkHonest
          <6>2. CASE Has(out, "PINGREQ")
            BY <2>11, <6>1, <6>2 DEF PongInv, Answered
          <6>3. CASE Has(in, "PINGRESP")
            <7>1. PICK i \in DOMAIN in : in[i].type = "PINGRESP"
              BY <6>3 DEF Has
            <7>2. i # 1 /\ i \in 1 .. Len(q)
              BY <1>1, <1>2, <6>1, <7>1
            <7>3. i > call.left
              BY <1>2, <5>1, <7>2
            <7>. QED
              BY <1>4, <2>11, <4>3, <5>2, <6>1, <7>1, <7>3
          <6>. QED
            BY <6>1, <6>2, <6>3 DEF PongInv, Answered
        <5>. QED
          BY <5>1, <5>2 DEF Reading
      <4>. QED
        BY <4>4, <4>5
    <3>. QED
      BY <3>1, <3>2, <3>3
  <2>. QED
    BY <1>6, <2>8, <2>9, <2>12, <2>13 DEF PongInv
<1>. QED
  BY <1>7, <1>8

-----------------------------------------------------------------------------
(* The broker answers a ping at once, behind what is already there.        *)
LEMMA PongBrokerReads ==
    ASSUME MQTTInv, PongInv, BrokerReads
    PROVE  PongInv'
<1>. DEFINE p == Head(out)
<1>1. PICK refuse \in {0, 1} :
         Len(in \o BrokerReply(p, refuse)) <= Capacity /\ in' = in \o BrokerReply(p, refuse)
  BY DEF BrokerReads
<1>2. /\ net = "up" /\ out' = Tail(out)
      /\ UNCHANGED <<net, pong_pending, keep_alive_timer, command_timer, call, silent, crowded>>
  BY DEF BrokerReads, clientVars
<1>3. PICK q \in Seq(Packets), o \in Seq(Packets) : q = in /\ o = out /\ o # <<>>
  BY DEF BrokerReads, MQTTInv, MQTTTypeOK
<1>4. p \in Packets /\ p = o[1] /\ 1 \in DOMAIN o /\ Tail(o) \in Seq(Packets) /\ p = Head(o)
  BY <1>3, TailFacts
<1>. HIDE DEF p
<1>5. PICK r \in Seq(Packets) :
         /\ r = BrokerReply(p, refuse)
         /\ Has(r, "PINGRESP") <=> p.type = "PINGREQ"
         /\ ~Has(r, "PART") /\ Once(r, "PINGRESP")
  BY <1>4, BrokerFacts, BrokerPings
<1>6. in' = q \o r /\ q \o r \in Seq(Packets) /\ out' = Tail(o)
      /\ Len(in') = Len(q) + Len(r) /\ Len(q) \in Nat /\ Len(r) \in Nat
  BY <1>1, <1>2, <1>3, <1>5, JoinFacts
<1>7. p.type = "PINGREQ" => Has(out, "PINGREQ")
  BY <1>3, <1>4 DEF Has
<1>8. Once(out', "PINGREQ") /\ (Has(out', "PINGREQ") => Has(out, "PINGREQ") /\ p.type # "PINGREQ")
  <2>1. Once(o, "PINGREQ")
    BY <1>3 DEF PongInv, OnePing
  <2>. QED
    BY <1>3, <1>4, <1>6, <2>1, HasTail
<1>9. Has(in', "PINGRESP") => Has(in, "PINGRESP") \/ p.type = "PINGREQ"
  BY <1>3, <1>5, <1>6, HasJoin
<1>10. Once(in', "PINGRESP")
  <2>1. Once(q, "PINGRESP") /\ (~Has(q, "PINGRESP") \/ ~Has(r, "PINGRESP"))
    BY <1>3, <1>5, <1>7 DEF PongInv, OnePing
  <2>. QED
    BY <1>5, <1>6, <2>1, HasJoin
<1>11. Timers' /\ LinkHonest'
  <2>1. ~Has(q, "PART")
    BY <1>2, <1>3 DEF PongInv, LinkHonest
  <2>2. ~Has(in', "PART")
    BY <1>5, <1>6, <2>1, HasJoin
  <2>. QED
    BY <1>1, <1>2, <2>2 DEF PongInv, Timers, LinkHonest
<1>12. OnePing'
  BY <1>2, <1>7, <1>8, <1>9, <1>10 DEF PongInv, OnePing
<1>13. Answered'
  <2>1. Has(in, "PINGRESP") => Has(in', "PINGRESP")
    BY <1>3, <1>6, HasKept
  <2>2. p.type = "PINGREQ" => Has(in', "PINGRESP")
    BY <1>5, <1>6, HasKept
  <2>3. p.type # "PINGREQ" /\ Has(out, "PINGREQ") => Has(out', "PINGREQ")
    BY <1>3, <1>4, <1>6, HasKept
  <2>. QED
    BY <1>2, <1>8, <2>1, <2>2, <2>3 DEF PongInv, Answered
<1>14. Reading'
  <2>1. call.fn = "yield" => call.left \in 1 .. Len(in')
    <3>1. call.fn = "yield" => call.left \in 1 .. Len(q)
      BY <1>2, <1>3 DEF PongInv, Reading
    <3>. QED
      BY <1>6, <3>1
  <2>2. ASSUME call.fn = "yield", ~silent, ~crowded, NEW i \in DOMAIN in',
               in'[i].type = "PINGRESP", i > call.left
        PROVE  keep_alive_timer > 0
    <3>1. CASE i \in DOMAIN q /\ in'[i] = q[i]
      BY <1>3, <2>2, <3>1 DEF PongInv, Reading
    <3>2. CASE i - Len(q) \in DOMAIN r /\ in'[i] = r[i - Len(q)]
      <4>1. Has(r, "PINGRESP")
        BY <2>2, <3>2 DEF Has
      <4>. QED
        BY <1>5, <1>7, <2>2, <4>1 DEF PongInv, Answered
    <3>. QED
      BY <1>6, <3>1, <3>2, JoinFacts
  <2>. QED
    BY <1>2, <2>1, <2>2 DEF PongInv, Reading
<1>. QED
  BY <1>11, <1>12, <1>13, <1>14 DEF PongInv

(* A command of the UI is no answer to a ping.                             *)
LEMMA PongBrokerPublishes ==
    ASSUME MQTTInv, PongInv, BrokerPublishes
    PROVE  PongInv'
<1>1. PICK p \in Packets :
         /\ in' = Append(in, p) /\ p.type \in {"PUBLISH", "PART"}
         /\ \/ p.type = "PUBLISH" /\ UNCHANGED <<net, silent>>
            \/ net' = "mute" /\ silent' = TRUE
  <2>1. \A qos \in Qos : packet("PUBLISH", IF qos = 0 THEN 0 ELSE 1, qos) \in Packets
                         /\ packet("PUBLISH", IF qos = 0 THEN 0 ELSE 1, qos).type = "PUBLISH"
    BY MQTTAssumption, PacketFacts DEF Types
  <2>2. packet("PART", 0, 0) \in Packets /\ packet("PART", 0, 0).type = "PART"
    BY PacketFacts DEF Types
  <2>. QED
    BY <2>1, <2>2 DEF BrokerPublishes
<1>2. /\ net = "up" /\ Len(in) < Capacity
      /\ UNCHANGED <<out, pong_pending, keep_alive_timer, command_timer, call, crowded>>
  BY DEF BrokerPublishes, clientVars
<1>3. PICK q \in Seq(Packets) : q = in
  BY DEF MQTTInv, MQTTTypeOK
<1>4. /\ in' = q \o <<p>> /\ <<p>> \in Seq(Packets) /\ ~Has(<<p>>, "PINGRESP")
      /\ Has(<<p>>, "PART") => p.type = "PART"
      /\ DOMAIN <<p>> = {1} /\ <<p>>[1] = p
  BY <1>1, <1>3, AppendIsJoin, HasOne
<1>5. Len(in') = Len(q) + 1 /\ Len(q) \in Nat
  BY <1>1, <1>3
<1>6. /\ Has(in', "PINGRESP") <=> Has(in, "PINGRESP")
      /\ Has(in', "PART") => Has(in, "PART") \/ p.type = "PART"
  <2>1. Has(q \o <<p>>, "PINGRESP") => Has(q, "PINGRESP")
    BY <1>4, HasJoin
  <2>2. Has(q, "PINGRESP") => Has(q \o <<p>>, "PINGRESP")
    BY <1>4, HasKept
  <2>3. Has(q \o <<p>>, "PART") => Has(q, "PART") \/ Has(<<p>>, "PART")
    BY <1>4, HasJoin
  <2>. QED
    BY <1>3, <1>4, <2>1, <2>2, <2>3
<1>7. Once(in', "PINGRESP")
  <2>1. Once(q, "PINGRESP")
    BY <1>3 DEF PongInv, OnePing
  <2>. QED
    BY <1>4, <2>1, HasJoin
<1>8. Timers' /\ LinkHonest'
  <2>1. Len(in') <= Capacity
    BY <1>2, <1>3, <1>5, MQTTAssumption
  <2>2. ~Has(in, "PART")
    BY <1>2 DEF PongInv, LinkHonest
  <2>3. Has(in', "PART") => net' = "mute"
    BY <1>1, <1>6, <2>2
  <2>4. net' = "mute" => silent'
    BY <1>1, <1>2
  <2>. QED
    BY <1>2, <2>1, <2>3, <2>4 DEF PongInv, Timers, LinkHonest
<1>9. OnePing' /\ Answered'
  BY <1>1, <1>2, <1>6, <1>7 DEF PongInv, OnePing, Answered
<1>10. Reading'
  <2>1. call.fn = "yield" => call.left \in 1 .. Len(in')
    <3>1. call.fn = "yield" => call.left \in 1 .. Len(q)
      BY <1>2, <1>3 DEF PongInv, Reading
    <3>. QED
      BY <1>5, <3>1
  <2>2. ~silent' => ~silent /\ net' = "up"
    BY <1>1, <1>2
  <2>3. ASSUME call.fn = "yield", ~silent, ~crowded, NEW i \in DOMAIN in',
               in'[i].type = "PINGRESP", i > call.left
        PROVE  keep_alive_timer > 0
    <3>1. CASE i \in DOMAIN q /\ in'[i] = q[i]
      BY <1>3, <2>3, <3>1 DEF PongInv, Reading
    <3>2. CASE i - Len(q) \in DOMAIN <<p>> /\ in'[i] = <<p>>[i - Len(q)]
      BY <1>4, <2>3, <3>2 DEF Has
    <3>. QED
      BY <1>4, <3>1, <3>2, JoinFacts
  <2>. QED
    BY <1>2, <2>1, <2>2, <2>3 DEF PongInv, Reading
<1>. QED
  BY <1>8, <1>9, <1>10 DEF PongInv

(* What the broker and the link do: a ping stays outstanding until its     *)
(* answer is in the link, and the link forgets it when the connection      *)
(* ends.                                                                   *)
LEMMA PongLink ==
    ASSUME MQTTInv, PongInv, LinkChanges
    PROVE  PongInv'
<1>1. UNCHANGED <<pong_pending, keep_alive_timer, command_timer, call, crowded>>
  BY DEF LinkChanges, clientVars
<1>2. CASE net = "up" /\ net' = "mute" /\ silent' = TRUE /\ UNCHANGED <<in, out>>
  BY <1>1, <1>2 DEF PongInv, Timers, LinkHonest, OnePing, Answered, Reading
<1>3. CASE /\ net = "mute" /\ net' = "up" /\ \A i \in DOMAIN in : in[i].type # "PART"
           /\ UNCHANGED <<in, out, silent>>
  BY <1>1, <1>3 DEF PongInv, Timers, LinkHonest, OnePing, Answered, Reading, Has
<1>4. CASE net' = "down" /\ in' = <<>> /\ out' = <<>> /\ UNCHANGED silent
  BY <1>1, <1>4, HasEmpty, MQTTAssumption
  DEF PongInv, Timers, LinkHonest, OnePing, Answered, Reading
<1>. QED
  BY <1>2, <1>3, <1>4 DEF LinkChanges

(* Time passes when a link that works is empty, and not while loop reads.  *)
LEMMA PongTick ==
    ASSUME MQTTInv, PongInv, Tick
    PROVE  PongInv'
<1>1. /\ UNCHANGED <<in, out, net, pong_pending, call, silent, crowded>>
      /\ net = "up" => out = <<>>
      /\ Idle \/ (Waits /\ (in = <<>> \/ Torn))
  BY DEF Tick, linkVars
<1>2. Timers' /\ LinkHonest' /\ OnePing'
  BY <1>1 DEF PongInv, Timers, LinkHonest, OnePing, Tick
<1>3. Has(out, "PINGREQ") => silent
  BY <1>1, HasEmpty DEF PongInv, LinkHonest, MQTTInv, MQTTTypeOK, LinkIsEmpty
<1>4. Answered'
  BY <1>1, <1>3 DEF PongInv, Answered
<1>5. CASE Idle
  <2>1. call'.fn = "none"
    BY <1>1, <1>5 DEF Idle, NoCall
  <2>2. Reading'
    BY <2>1 DEF Reading
  <2>. QED
    BY <1>2, <1>4, <2>2 DEF PongInv
<1>6. CASE Waits /\ (in = <<>> \/ Torn)
  <2>1. call.fn # "keep_alive"
    BY <1>6 DEF Waits
  <2>2. call.fn = "yield" /\ net # "down" => silent
    <3>. SUFFICES ASSUME call.fn = "yield", net # "down" PROVE silent
      OBVIOUS
    <3>1. PICK q \in Seq(Packets) : q = in
      BY DEF MQTTInv, MQTTTypeOK
    <3>2. call.left \in 1 .. Len(q)
      BY <3>1 DEF PongInv, Reading
    <3>3. q # <<>>
      BY <3>2
    <3>4. Head(q) = q[1] /\ 1 \in DOMAIN q
      BY <3>3, TailFacts
    <3>5. Has(in, "PART")
      BY <1>6, <3>1, <3>3, <3>4 DEF Torn, Has
    <3>. QED
      BY <3>5 DEF PongInv, LinkHonest
  <2>3. net = "down" => in = <<>>
    BY DEF MQTTInv, LinkIsEmpty
  <2>4. call'.fn = "yield" /\ net' # "down" => call'.left \in 1 .. Len(in')
    BY <1>1 DEF PongInv, Reading
  <2>5. \A i \in DOMAIN <<>> : FALSE
    OBVIOUS
  <2>6. Reading'
    BY <1>1, <2>1, <2>2, <2>3, <2>4, <2>5 DEF Reading
  <2>. QED
    BY <1>2, <1>4, <2>6 DEF PongInv
<1>. QED
  BY <1>1, <1>5, <1>6

(* Every step keeps the invariant.                                         *)
LEMMA PongInvStep ==
    ASSUME MQTTInv, PongInv, [MQTTNext]_mqttVars
    PROVE  PongInv'
<1>1. CASE UNCHANGED mqttVars
  BY <1>1, PongQuiet DEF mqttVars, clientVars, PongInv, Timers
<1>. QED
  BY <1>1, PongConnect, PongSubscribe, PongPublish, PongIdle, PongPing, PongLoop, PongCycle,
     PongTimesOut, PongBrokerReads, PongBrokerPublishes, PongLink, PongTick
  DEF MQTTNext, RigStep

(* The keep alive gives up only a broker whose link has been silent, for   *)
(* any times and capacities: however long the rig was busy elsewhere, it   *)
(* reads what has arrived before it judges.  Where the read buffer of the  *)
(* socket had no room for all of it, the answer that was not read is there *)
(* or went down with the link.                                             *)
THEOREM PongTimeoutAlwaysTrue == MQTTSpec => PongTimeoutIsTrue
<1>1. MQTTInit => PongInv
  <2>. SUFFICES ASSUME MQTTInit PROVE PongInv
    OBVIOUS
  <2>1. Timers /\ LinkHonest /\ OnePing /\ Answered
    BY HasEmpty, MQTTAssumption DEF MQTTInit, Timers, LinkHonest, OnePing, Answered
  <2>2. Reading
    BY DEF MQTTInit, NoCall, Reading
  <2>. QED
    BY <2>1, <2>2 DEF PongInv
<1>2. MQTTInv /\ [MQTTNext]_mqttVars => MQTTInv'
  BY MQTTInvStep
<1>3. MQTTInv /\ PongInv /\ [MQTTNext]_mqttVars => PongInv'
  BY PongInvStep
<1>4. ASSUME MQTTInv, PongInv, PongTimeout, ~silent
      PROVE  crowded /\ AnswerWaits
  <2>1. keep_alive_timer = 0 /\ pong_pending
        /\ ((Loops /\ Available = 0) \/ call.fn = "keep_alive")
    BY <1>4 DEF PongTimeout, PingDue, KeepsAlive, GivesUp
  <2>2. net # "down" => Has(in, "PINGRESP")
    <3>1. net # "down" => net = "up"
      BY <1>4 DEF MQTTInv, MQTTTypeOK, PongInv, LinkHonest
    <3>. QED
      BY <1>4, <2>1, <3>1 DEF PongInv, Answered
  <2>3. ~(Loops /\ Available = 0)
    <3>. SUFFICES ASSUME Loops, Available = 0 PROVE FALSE
      OBVIOUS
    <3>1. PICK q \in Seq(Packets) : q = in
      BY <1>4 DEF MQTTInv, MQTTTypeOK
    <3>2. in = <<>>
      BY <3>1, MQTTAssumption DEF Available, Least
    <3>. QED
      BY <2>2, <3>2, HasEmpty DEF Loops, connected
  <2>4. crowded
    BY <1>4, <2>1, <2>3 DEF PongInv, Reading
  <2>. QED
    BY <2>2, <2>4 DEF AnswerWaits, Has
<1>5. MQTTInv /\ PongInv /\ [MQTTNext]_mqttVars =>
        [PongTimeout => silent \/ (crowded /\ AnswerWaits)]_mqttVars
  BY <1>4
<1>. QED
  BY <1>1, <1>2, <1>3, <1>5, InitInv, PTL DEF MQTTSpec, PongTimeoutIsTrue

=============================================================================
