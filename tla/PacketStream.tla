---------------------------- MODULE PacketStream ----------------------------
(***************************************************************************)
(* Packets on a TCP stream: one side encodes them one after the other, the *)
(* bytes arrive in pieces of any size, and the other side reads them into  *)
(* its buffer with lwmqtt_read_packet_in_buffer (lwmqtt/client.c) and      *)
(* decodes them.  The reader is the client, or a broker (external) that    *)
(* frames packets the same way.                                            *)
(***************************************************************************)
EXTENDS Packet

CONSTANTS
    ToClient, ToBroker,     \* packets, as records with a field type
    read_buf_size,
    MaxPackets              \* bounds the stream

(***************************************************************************)
(* The packets that either side may send: the fields of lwmqtt_string_t,   *)
(* lwmqtt_message_t, lwmqtt_options_t and lwmqtt_will_t with the values    *)
(* that MQTT allows.  The client subscribes to one topic at a time, and a  *)
(* publication that nobody acknowledges has no packet id.                  *)
(***************************************************************************)
Byte == 0 .. 255
Word == {n \in Nat : n < 256 * 256}
Bytes == Seq(Byte)
Will == [topic : Bytes, payload : Bytes, qos : 0 .. 2, retained : BOOLEAN]
Options == [client_id : Bytes, username : Bytes, password : Bytes,
            keep_alive : Word, clean_session : BOOLEAN]
Publications ==
    {p \in [type : {"PUBLISH"}, dup : BOOLEAN, packet_id : Word, topic : Bytes,
            payload : Bytes, qos : 0 .. 2, retained : BOOLEAN] : p.qos = 0 => p.packet_id = 0}
Acknowledgements == [type : Acks, dup : BOOLEAN, packet_id : Word]

ClientPackets ==
    Publications \cup Acknowledgements \cup [type : {"PINGRESP"}]
    \cup [type : {"CONNACK"}, session_present : BOOLEAN, return_code : 0 .. 5]
    \cup [type : {"SUBACK"}, packet_id : Word, granted : [{1} -> {0, 1, 2, 128}]]

BrokerPackets ==
    Publications \cup Acknowledgements \cup [type : {"PINGREQ", "DISCONNECT"}]
    \cup [type : {"CONNECT"}, options : Options, will : Seq(Will)]
    \cup {p \in [type : {"SUBSCRIBE"}, packet_id : Word, topics : Seq(Bytes), qos : Seq(0 .. 2)] :
             Len(p.qos) = Len(p.topics)}
    \cup [type : {"UNSUBSCRIBE"}, packet_id : Word, topics : Seq(Bytes)]

ASSUME PacketStreamAssumption ==
    /\ read_buf_size \in Nat \ {0} /\ MaxPackets \in Nat
    /\ ToClient \subseteq ClientPackets /\ ToBroker \subseteq BrokerPackets

VARIABLES
    reader,         \* "client" or "broker"
    sent,           \* packets encoded so far
    wire,           \* bytes written and not yet read
    read_buf, len,  \* the reader's buffer, and how much of it the current packet fills
    want,           \* bytes that the read in progress still needs
    phase,          \* "header", "length", "rest", "failed"
    received        \* what the reader made of each packet

streamVars == <<reader, sent, wire, read_buf, len, want, phase, received>>

(* The broker's side of the packets that only it encodes is external.      *)
encode(p) ==
    CASE p.type = "CONNECT"     -> encode_connect(512, p.options, p.will)
      [] p.type = "SUBSCRIBE"   -> encode_subscribe(512, p.packet_id, p.topics, p.qos)
      [] p.type = "UNSUBSCRIBE" -> encode_unsubscribe(512, p.packet_id, p.topics)
      [] p.type = "PUBLISH"     -> encode_publish(512, p.dup, p.packet_id, p.topic, p)
      [] p.type = "CONNACK"     -> [err |-> "SUCCESS",
                                    bytes |-> <<32, 2, Bit(p.session_present), p.return_code>>]
      [] p.type = "SUBACK"      -> [err |-> "SUCCESS",
                                    bytes |-> <<144, 2 + Len(p.granted)>> \o write_num(p.packet_id)
                                              \o p.granted]
      [] p.type \in Acks        -> encode_ack(512, p.type, p.dup, p.packet_id)
      [] OTHER                  -> encode_zero(512, p.type)

decode(buf) ==
    LET t == TypeOf(buf)
    IN  CASE t = "CONNACK" -> decode_connack(buf)
          [] t = "PUBLISH" -> decode_publish(buf)
          [] t = "SUBACK"  -> decode_suback(buf, 1)
          [] t \in Acks    -> decode_ack(buf, t)
          [] OTHER         -> [err |-> "SUCCESS"]

StreamInit ==
    /\ reader \in {"client", "broker"}
    /\ sent = <<>> /\ wire = <<>> /\ received = <<>>
    /\ read_buf = [i \in 1 .. read_buf_size |-> 0]
    /\ len = 0 /\ want = 1 /\ phase = "header"

Write ==
    /\ Len(sent) < MaxPackets
    /\ \E p \in IF reader = "client" THEN ToClient ELSE ToBroker :
         /\ encode(p).err = "SUCCESS"
         /\ sent' = Append(sent, p)
         /\ wire' = wire \o encode(p).bytes
    /\ UNCHANGED <<reader, read_buf, len, want, phase, received>>

(* lwmqtt_read_from_network: a part of what is wanted arrives.             *)
Arrive ==
    /\ phase # "failed" /\ want > 0 /\ wire # <<>>
    /\ \E n \in {1, want} :
         /\ n <= Len(wire)
         /\ read_buf' = [i \in 1 .. read_buf_size |->
                           IF i \in len + 1 .. len + n THEN wire[i - len] ELSE read_buf[i]]
         /\ wire' = SubSeq(wire, n + 1, Len(wire))
         /\ len' = len + n /\ want' = want - n
    /\ UNCHANGED <<reader, sent, phase, received>>

(* The next read: it needs room in the buffer.                             *)
NoRoom_exact(n) == read_buf_size <= len + n
NoRoom(n) == read_buf_size < len + n

Goes(next, n) ==
    /\ phase' = IF NoRoom(n) THEN "failed" ELSE next
    /\ want' = n
    /\ UNCHANGED <<reader, sent, wire, read_buf, len, received>>

Rejects == phase' = "failed" /\ UNCHANGED <<reader, sent, wire, read_buf, len, want, received>>

HeaderRead ==
    /\ phase = "header" /\ want = 0
    /\ IF reader = "client" /\ detect_packet_type(read_buf) = "NO_PACKET"
       THEN Rejects
       ELSE Goes("length", 1)

(* lwmqtt_detect_remaining_length, after every byte of it.                 *)
remaining_length == read_varnum(SubSeq(read_buf, 2, len))

LengthRead ==
    /\ phase = "length" /\ want = 0
    /\ CASE remaining_length.err = "BUFFER_TOO_SHORT" -> Goes("length", 1)
         [] remaining_length.err = "SUCCESS"          -> Goes("rest", remaining_length.num)
         [] OTHER                                     -> Rejects

PacketRead ==
    /\ phase = "rest" /\ want = 0
    /\ received' = Append(received, IF reader = "client" THEN decode(read_buf)
                                    ELSE SubSeq(read_buf, 1, len))
    /\ phase' = "header" /\ len' = 0 /\ want' = 1
    /\ UNCHANGED <<reader, sent, wire, read_buf>>

StreamNext == Write \/ Arrive \/ HeaderRead \/ LengthRead \/ PacketRead

StreamSpec == StreamInit /\ [][StreamNext]_streamVars

(***************************************************************************)
(* Properties                                                              *)
(***************************************************************************)

(* Every field of a packet that its decoder returns is as it was encoded;  *)
(* but decode_connack takes session_present from bit 7 of the flags and    *)
(* MQTT has it in bit 0.                                                   *)
Agrees(p, d) ==
    /\ d.err = "SUCCESS"
    /\ \A f \in DOMAIN d \ {"err", "session_present"} : d[f] = p[f]

(* The client reads back what was encoded, packet by packet, however the   *)
(* bytes arrive and whatever an earlier packet has left in the read buffer *)
(* (the decoders of packet.c are given the whole buffer).                  *)
ReadsWhatWasSent ==
    reader = "client" => \A i \in DOMAIN received : Agrees(sent[i], received[i])

(* The remaining length that an encoder computes beforehand is what it     *)
(* writes: each packet of the stream ends where the next one begins.       *)
StaysInFrame ==
    reader = "broker" => \A i \in DOMAIN received : received[i] = encode(sent[i]).bytes

(* The client gives up a packet only if its buffer has no room for it.     *)
FailsForRoomOnly ==
    phase = "failed" => Len(encode(sent[Len(received) + 1]).bytes) > read_buf_size

=============================================================================
