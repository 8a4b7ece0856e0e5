----------------------------- MODULE MqttPackets -----------------------------
(***************************************************************************)
(* The MQTT control packets the device exchanges with the broker, as far   *)
(* as the control flow of app/mqtt tells them apart.  A packet is a string:*)
(* its type and, where mqtt.c looks at it, its QoS or its message id.  The *)
(* two SUBSCRIBE packets of a session always carry the ids 1 and 2:        *)
(* mqtt_tcpclient_connect_cb restarts the counter (mqtt_msg_init) and      *)
(* mqttConnectedCb makes exactly two subscriptions.                        *)
(***************************************************************************)
EXTENDS Naturals

(* What the device puts in its queue, and what it sends itself.            *)
Queued == {"SUBSCRIBE1", "SUBSCRIBE2", "PUBLISH",
           "PUBACK", "PUBREC", "PUBREL", "PUBCOMP", "PINGRESP"}
Outbound == Queued \cup {"CONNECT", "PINGREQ"}

(* What a broker answers, and what it may send of its own accord.  REFUSAL *)
(* is a CONNACK with a return code other than 0.                           *)
Answers == {"CONNACK", "SUBACK1", "SUBACK2", "PINGRESP"}
Unsolicited == {"PUBLISH0", "PUBLISH1", "PUBLISH2", "PUBREC", "PUBREL", "PINGREQ"}
Inbound == Answers \cup {"REFUSAL"} \cup Unsolicited

(* mqtt_get_type: the type nibble; the two subscriptions share theirs.     *)
Type(m) == IF m \in {"SUBSCRIBE1", "SUBSCRIBE2"} THEN "SUBSCRIBE" ELSE m

Types == {Type(m) : m \in Outbound}

(* mqtt_get_id of an outbound packet.  Only the id of a SUBSCRIBE is ever  *)
(* compared with anything, so the ids of the others are folded into 0, the *)
(* value the function returns for a QoS 0 PUBLISH, CONNECT and PINGREQ.    *)
Id(m) == CASE m = "SUBSCRIBE1" -> 1
           [] m = "SUBSCRIBE2" -> 2
           [] OTHER -> 0

IsConnack(p) == p \in {"CONNACK", "REFUSAL"}
IsPublish(p) == p \in {"PUBLISH0", "PUBLISH1", "PUBLISH2"}
IsSuback(p) == p \in {"SUBACK1", "SUBACK2"}
AckId(p) == IF p = "SUBACK1" THEN 1 ELSE 2

(* The packets mqtt_tcpclient_recv queues in answer to an inbound one.     *)
Response(p) == CASE p = "PUBLISH1" -> {"PUBACK"}
                 [] p = "PUBLISH2" -> {"PUBREC"}
                 [] p = "PUBREC"   -> {"PUBREL"}
                 [] p = "PUBREL"   -> {"PUBCOMP"}
                 [] p = "PINGREQ"  -> {"PINGRESP"}
                 [] OTHER -> {}

(* The broker's side of the protocol (external): what it owes the device   *)
(* once it has received m.  A broker that has refused a CONNECT owes       *)
(* nothing but the end of the connection, CLOSE.                           *)
Owed(m) == CASE m = "CONNECT"    -> {"CONNACK"}
             [] m = "SUBSCRIBE1" -> {"SUBACK1"}
             [] m = "SUBSCRIBE2" -> {"SUBACK2"}
             [] m = "PINGREQ"    -> {"PINGRESP"}
             [] OTHER -> {}
=============================================================================
