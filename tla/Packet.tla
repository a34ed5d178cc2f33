------------------------------- MODULE Packet -------------------------------
(***************************************************************************)
(* The bytes of an MQTT packet (lwmqtt/packet.c and lwmqtt/helpers.c).     *)
(* Encoders return the bytes that they write into a buffer of buf_len      *)
(* bytes.  Decoders are given the whole read buffer, in which the bytes of *)
(* an earlier, longer packet may follow.  A string is the sequence of its  *)
(* bytes.                                                                  *)
(***************************************************************************)
EXTENDS Integers, Sequences, SequencesExt

PacketType ==
    [CONNECT |-> 1, CONNACK |-> 2, PUBLISH |-> 3, PUBACK |-> 4, PUBREC |-> 5, PUBREL |-> 6,
     PUBCOMP |-> 7, SUBSCRIBE |-> 8, SUBACK |-> 9, UNSUBSCRIBE |-> 10, UNSUBACK |-> 11,
     PINGREQ |-> 12, PINGRESP |-> 13, DISCONNECT |-> 14]

(* The packets that lwmqtt_detect_packet_type lets in.                     *)
Receivable == {"CONNACK", "PUBLISH", "PUBACK", "PUBREC", "PUBREL", "PUBCOMP",
               "SUBACK", "UNSUBACK", "PINGRESP"}
Acks == {"PUBACK", "PUBREC", "PUBREL", "PUBCOMP", "UNSUBACK"}

Failed(e) == [err |-> e]
Bit(b) == IF b THEN 1 ELSE 0
When(b, s) == IF b THEN s ELSE <<>>

(***************************************************************************)
(* helpers.c                                                               *)
(***************************************************************************)
read_bits(byte, pos, num) == (byte \div 2 ^ pos) % 2 ^ num

read_num(b) == 256 * b[1] + b[2]
write_num(n) == <<(n \div 256) % 256, n % 256>>
write_string(s) == write_num(Len(s)) \o s

(* 0 is LWMQTT_VARNUM_OVERFLOW.                                            *)
varnum_length(n) ==
    CASE n < 128       -> 1
      [] n < 16384     -> 2
      [] n < 2097151   -> 3
      [] n < 268435455 -> 4
      [] OTHER         -> 0

(* Seven bits a byte, low ones first; the top bit says that more follow.   *)
write_varnum(n) ==
    LET digits == CHOOSE k \in 1 .. 4 : n < 128 ^ k /\ (k = 1 \/ n >= 128 ^ (k - 1))
    IN  [i \in 1 .. digits |-> ((n \div 128 ^ (i - 1)) % 128) + (IF i < digits THEN 128 ELSE 0)]

read_varnum(b) ==
    LET lasts == {i \in 1 .. 4 : i <= Len(b) /\ b[i] < 128}
        len   == CHOOSE i \in lasts : \A j \in lasts : i <= j
        varnum[i \in 0 .. len] ==
            IF i = 0 THEN 0 ELSE varnum[i - 1] + (b[i] % 128) * 128 ^ (i - 1)
    IN  IF lasts # {}
        THEN [err |-> "SUCCESS", len |-> len, num |-> varnum[len]]
        ELSE Failed(IF Len(b) < 5 THEN "BUFFER_TOO_SHORT" ELSE "VARNUM_OVERFLOW")

(***************************************************************************)
(* packet.c, the encoders.  rem_len is computed before anything is written.*)
(***************************************************************************)
Packed(buf_len, type, flags, rem_len, body) ==
    LET bytes == <<16 * PacketType[type] + flags>> \o write_varnum(rem_len) \o body
    IN  IF varnum_length(rem_len) = 0 THEN Failed("REMAINING_LENGTH_OVERFLOW")
        ELSE IF Len(bytes) > buf_len THEN Failed("BUFFER_TOO_SHORT")
        ELSE [err |-> "SUCCESS", bytes |-> bytes]

(* will is <<>> or the one will.                                           *)
encode_connect(buf_len, o, will) ==
    LET named   == o.username # <<>>
        secret  == named /\ o.password # <<>>
        w       == will[1]
        rem_len == 10 + Len(o.client_id) + 2
                   + (IF will = <<>> THEN 0 ELSE Len(w.topic) + 2 + Len(w.payload) + 2)
                   + (IF named THEN Len(o.username) + 2 ELSE 0)
                   + (IF secret THEN Len(o.password) + 2 ELSE 0)
        flags   == 2 * Bit(o.clean_session) + 128 * Bit(named) + 64 * Bit(secret)
                   + (IF will = <<>> THEN 0 ELSE 4 + 8 * w.qos + 32 * Bit(w.retained))
    IN  Packed(buf_len, "CONNECT", 0, rem_len,
            write_string(<<77, 81, 84, 84>>) \o <<4, flags>> \o write_num(o.keep_alive)
            \o write_string(o.client_id)
            \o When(will # <<>>, write_string(w.topic) \o write_string(w.payload))
            \o When(named, write_string(o.username))
            \o When(secret, write_string(o.password)))

encode_zero(buf_len, type) == Packed(buf_len, type, 0, 0, <<>>)

encode_ack(buf_len, type, dup, packet_id) ==
    Packed(buf_len, type, 8 * Bit(dup) + 2 * Bit(type = "PUBREL"), 2, write_num(packet_id))

encode_publish(buf_len, dup, packet_id, topic, msg) ==
    Packed(buf_len, "PUBLISH", 8 * Bit(dup) + 2 * msg.qos + Bit(msg.retained),
        2 + Len(topic) + Len(msg.payload) + (IF msg.qos > 0 THEN 2 ELSE 0),
        write_string(topic) \o When(msg.qos > 0, write_num(packet_id)) \o msg.payload)

(* The room that the topics of a subscription take.                        *)
TopicsLength_noQos(topics, extra) ==
    LET room[i \in 0 .. Len(topics)] ==
          IF i = 0 THEN 0 ELSE room[i - 1] + (2 + Len(topics[i]))
    IN  room[Len(topics)]
TopicsLength(topics, extra) ==
    LET room[i \in 0 .. Len(topics)] ==
          IF i = 0 THEN 0 ELSE room[i - 1] + (2 + Len(topics[i]) + extra)
    IN  room[Len(topics)]

encode_subscribe(buf_len, packet_id, topics, qos) ==
    Packed(buf_len, "SUBSCRIBE", 2, 2 + TopicsLength(topics, 1),
        write_num(packet_id)
        \o FlattenSeq([i \in DOMAIN topics |-> write_string(topics[i]) \o <<qos[i]>>]))

encode_unsubscribe(buf_len, packet_id, topics) ==
    Packed(buf_len, "UNSUBSCRIBE", 2, 2 + TopicsLength(topics, 0),
        write_num(packet_id) \o FlattenSeq([i \in DOMAIN topics |-> write_string(topics[i])]))

(***************************************************************************)
(* packet.c, the decoders.  What follows the fixed header is body.         *)
(***************************************************************************)
TypeOf(buf) ==
    LET types == {t \in DOMAIN PacketType : PacketType[t] = read_bits(buf[1], 4, 4)}
    IN  IF types = {} THEN "NO_PACKET" ELSE CHOOSE t \in types : TRUE

detect_packet_type(buf) == IF TypeOf(buf) \in Receivable THEN TypeOf(buf) ELSE "NO_PACKET"

Opened(buf, type, Decoded(_, _)) ==
    LET rem == read_varnum(Tail(buf))
    IN  IF TypeOf(buf) # type THEN Failed("MISSING_OR_WRONG_PACKET")
        ELSE IF rem.err # "SUCCESS" THEN rem
        ELSE Decoded(rem.num, SubSeq(buf, 2 + rem.len, Len(buf)))

decode_connack(buf) ==
    Opened(buf, "CONNACK", LAMBDA rem_len, body :
        IF rem_len # 2 THEN Failed("REMAINING_LENGTH_MISMATCH")
        ELSE IF Len(body) < 2 THEN Failed("BUFFER_TOO_SHORT")
        ELSE [err |-> "SUCCESS", session_present |-> read_bits(body[1], 7, 1) = 1,
              return_code |-> IF body[2] <= 5 THEN body[2] ELSE 6])

decode_ack(buf, type) ==
    Opened(buf, type, LAMBDA rem_len, body :
        IF rem_len # 2 THEN Failed("REMAINING_LENGTH_MISMATCH")
        ELSE IF Len(body) < 2 THEN Failed("BUFFER_TOO_SHORT")
        ELSE [err |-> "SUCCESS", dup |-> read_bits(buf[1], 3, 1) = 1,
              packet_id |-> read_num(body)])

(* A publication ends where its remaining length says, not at the end of   *)
(* the read buffer.                                                        *)
Content_toEnd(rem_len, body) == body
Content(rem_len, body) == SubSeq(body, 1, rem_len)

decode_publish(buf) ==
    Opened(buf, "PUBLISH", LAMBDA rem_len, body :
        LET all   == Content(rem_len, body)
            topic == read_num(all)
            qos   == IF read_bits(buf[1], 1, 2) = 3 THEN 0 ELSE read_bits(buf[1], 1, 2)
            idLen == IF qos > 0 THEN 2 ELSE 0
        IN  IF rem_len < 2 THEN Failed("REMAINING_LENGTH_MISMATCH")
            ELSE IF Len(body) < rem_len \/ rem_len < 2 + topic + idLen
            THEN Failed("BUFFER_TOO_SHORT")
            ELSE [err |-> "SUCCESS", dup |-> read_bits(buf[1], 3, 1) = 1,
                  retained |-> read_bits(buf[1], 0, 1) = 1, qos |-> qos,
                  topic |-> SubSeq(all, 3, 2 + topic),
                  packet_id |-> IF qos > 0 THEN read_num(SubSeq(all, 3 + topic, 4 + topic)) ELSE 0,
                  payload |-> SubSeq(all, 3 + topic + idLen, Len(all))])

(* A code above 2 is LWMQTT_QOS_FAILURE, 128.                              *)
decode_suback(buf, max_count) ==
    Opened(buf, "SUBACK", LAMBDA rem_len, body :
        IF rem_len < 3 THEN Failed("REMAINING_LENGTH_MISMATCH")
        ELSE IF Len(body) < 2 + (IF rem_len - 2 > max_count THEN max_count + 1 ELSE rem_len - 2)
        THEN Failed("BUFFER_TOO_SHORT")
        ELSE IF rem_len - 2 > max_count + 1 THEN Failed("SUBACK_ARRAY_OVERFLOW")
        ELSE [err |-> "SUCCESS", packet_id |-> read_num(body),
              granted |-> [i \in 1 .. rem_len - 2 |->
                             IF body[2 + i] <= 2 THEN body[2 + i] ELSE 128]])

=============================================================================
