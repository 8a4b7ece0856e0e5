------------------------------ MODULE MqttMsg ------------------------------
(***************************************************************************)
(* The encoding of MQTT packets (app/mqtt/mqtt_msg.c): how the messages of *)
(* the device are built, and how those of the broker are taken apart.      *)
(*                                                                         *)
(* A packet is a sequence of bytes, a string a sequence of characters.     *)
(* Positions in a packet are offsets, as in the code: offset i is the      *)
(* element i + 1.                                                          *)
(***************************************************************************)
EXTENDS Integers, Sequences, SequencesExt

CONSTANTS
  MQTT_BUF_SIZE   \* the size of in_buffer and of out_buffer

(* A remaining length has two bytes at most.                               *)
ASSUME BufSizeAssumption == MQTT_BUF_SIZE \in 3..16386

(* mqtt_message_type                                                       *)
PUBLISH   == 3
PUBACK    == 4
PUBREC    == 5
PUBREL    == 6
PUBCOMP   == 7
SUBSCRIBE == 8
SUBACK    == 9
UNSUBACK  == 11
PINGREQ   == 12
PINGRESP  == 13

Byte(b, i) == IF i + 1 \in DOMAIN b THEN b[i + 1] ELSE 0

-----------------------------------------------------------------------------
(* Building a message.  out_buffer has room for the longest fixed header,  *)
(* and a message that does not fit behind it is <<>>, of length 0.         *)

Fits(body) == 3 + Len(body) <= MQTT_BUF_SIZE

(* append_string                                                           *)
String(s) == <<Len(s) \div 256, Len(s) % 256>> \o s

(* append_message_id                                                       *)
IdBytes(id) == <<id \div 256, id % 256>>

RemainingLength(n) == IF n > 127 THEN <<128 + (n % 128), n \div 128>> ELSE <<n>>

(* fini_message, with dup and retain 0                                     *)
Message(type, qos, body) ==
  IF Fits(body) THEN <<16 * type + 2 * qos>> \o RemainingLength(Len(body)) \o body ELSE <<>>

PublishMsg(topic, data, qos, id) ==
  IF topic = <<>> THEN <<>>
  ELSE Message(PUBLISH, qos, String(topic) \o (IF qos > 0 THEN IdBytes(id) ELSE <<>>) \o data)

(* mqtt_msg_puback, _pubrec, _pubrel and _pubcomp                          *)
AckMsg(type, id) == Message(type, IF type = PUBREL THEN 1 ELSE 0, IdBytes(id))

(* mqtt_msg_pingreq and _pingresp                                          *)
PingMsg(type) == Message(type, 0, <<>>)

-----------------------------------------------------------------------------
(* Taking a packet apart.                                                  *)

GetType(b) == Byte(b, 0) \div 16
GetQos(b)  == (Byte(b, 0) \div 2) % 4

(* The loop over the bytes of the remaining length, within the first len   *)
(* bytes: where it ends, and what it has added up.                         *)
HeaderEnd(b, len) ==
  LET last == {i \in 1..(len - 1) : Byte(b, i) < 128}
  IN  IF last = {} THEN Max({1, len}) ELSE Min(last) + 1

Remaining(b, len) ==
  LET last == HeaderEnd(b, len) - 1
      LastDigits[n \in 0..last] ==
        IF n = 0 THEN 0 ELSE (Byte(b, last + 1 - n) % 128) + 128 * LastDigits[n - 1]
  IN  LastDigits[last]

(* mqtt_get_total_length                                                   *)
TotalLength(b, len) == HeaderEnd(b, len) + Remaining(b, len)

(* A pointer into the packet, and a length; Null with one is a pointer of  *)
(* NULL.                                                                   *)
Null(n) == [at |-> -1, length |-> n]
Piece(from, n) == [at |-> from, length |-> n]

Word(b, i) == 256 * Byte(b, i) + Byte(b, i + 1)

(* mqtt_get_publish_topic                                                  *)
PublishTopic(b, len) ==
  LET i == HeaderEnd(b, len)
      n == Word(b, i)
  IN  IF i + 2 >= len \/ i + 2 + n > len THEN Null(len) ELSE Piece(i + 2, n)

(* mqtt_get_publish_data: behind the topic, and behind the id if there is  *)
(* one, up to the end of the packet or of what has arrived of it.          *)
PublishData(b, len) ==
  LET i == HeaderEnd(b, len)
      n == i + 2 + Word(b, i)
      d == IF GetQos(b) > 0 THEN n + 2 ELSE n
      total == TotalLength(b, len)
  IN  IF i + 2 >= len THEN Null(len)
      ELSE IF n >= len THEN Null(0)
      ELSE IF d >= len \/ total < d THEN Null(len)
      ELSE Piece(d, (IF total <= len THEN total ELSE len) - d)

(* mqtt_get_id                                                             *)
GetId(b, len) ==
  CASE GetType(b) = PUBLISH ->
         LET i == HeaderEnd(b, len)
             n == i + 2 + Word(b, i)
         IN  IF i + 2 >= len \/ n >= len \/ GetQos(b) = 0 \/ n + 2 >= len THEN 0 ELSE Word(b, n)
    [] GetType(b) \in {PUBACK, PUBREC, PUBREL, PUBCOMP, SUBSCRIBE, SUBACK, UNSUBACK} ->
         IF len >= 4 /\ Byte(b, 1) < 128 THEN Word(b, 2) ELSE 0
    [] OTHER -> 0
=============================================================================
