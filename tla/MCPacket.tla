------------------------------ MODULE MCPacket ------------------------------
(* Packets of the wifi task, some with a remaining length of two bytes, one*)
(* that just fits the buffer and one that does not.                        *)
EXTENDS PacketStream

Long(n) == [i \in 1 .. n |-> 120]
Publication(topic, payload, qos, retained) ==
    [type |-> "PUBLISH", dup |-> FALSE, packet_id |-> IF qos = 0 THEN 0 ELSE 258,
     topic |-> topic, payload |-> payload, qos |-> qos, retained |-> retained]
AckPacket(type) == [type |-> type, dup |-> FALSE, packet_id |-> 65535]

MCToClient ==
    {Publication(<<47>>, <<>>, 0, FALSE), Publication(<<47, 65>>, <<49>>, 1, TRUE),
     Publication(<<47>>, Long(132), 2, FALSE), Publication(<<47>>, Long(140), 0, FALSE),
     AckPacket("PUBREL"), AckPacket("UNSUBACK"), [type |-> "PINGRESP"],
     [type |-> "CONNACK", session_present |-> TRUE, return_code |-> 5],
     [type |-> "SUBACK", packet_id |-> 2, granted |-> <<128>>]}

Login(user, secret) ==
    [client_id |-> <<82, 49>>, username |-> user, password |-> secret,
     keep_alive |-> 12, clean_session |-> FALSE]

MCToBroker ==
    {[type |-> "CONNECT", options |-> Login(u, s), will |-> w] :
        u \in {<<>>, <<85>>}, s \in {<<>>, <<80, 80>>},
        w \in {<<>>, <<[topic |-> <<47>>, payload |-> <<1, 2, 3>>, qos |-> 1, retained |-> TRUE]>>}}
    \cup {[type |-> "SUBSCRIBE", packet_id |-> 1, topics |-> <<Long(20), <<47>>>>, qos |-> <<0, 1>>],
          [type |-> "UNSUBSCRIBE", packet_id |-> 1, topics |-> <<Long(20), <<47>>>>],
          Publication(<<47>>, Long(124), 0, TRUE), AckPacket("PUBACK"),
          [type |-> "PINGREQ"], [type |-> "DISCONNECT"]}
=============================================================================
