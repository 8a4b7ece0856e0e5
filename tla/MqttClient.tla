----------------------------- MODULE MqttClient -----------------------------
(***************************************************************************)
(* The connection state machine of the MQTT client (app/mqtt/mqtt.c), as   *)
(* app/user/trans_realtime.c drives it from the WiFi events of the station *)
(* interface in the normal work mode (ezhWorkModeUWork).                   *)
(*                                                                         *)
(* The firmware runs on the non-OS SDK: SDK callbacks, timer handlers and  *)
(* the MQTT task run to completion, one after the other, so each of them is*)
(* one action.  The order in which the SDK runs them is open.  The SDK     *)
(* (WiFi events, DNS, espconn) and the broker are the environment.         *)
(***************************************************************************)
EXTENDS MqttPackets, Sequences, FiniteSets

CONSTANTS
  Conns,             \* names of struct espconn objects
  NoConn,            \* the NULL value of client->pCon
  ByName,            \* the configured host is a domain name, not an IP address
  Overlap,           \* GOT_IP may come while an old connection still has callbacks to run
  BrokerSends,       \* the unsolicited packets the broker may send
  SendTimeout,       \* MQTT_SEND_TIMOUT
  KeepAlive,         \* the keepAliveTime given to MQTT_InitClient
  ReconnectTimeout,  \* MQTT_RECONNECT_TIMEOUT
  QueueCap           \* at most so many messages fit into msgQueue

ASSUME ConnsAssumption == NoConn \notin Conns
ASSUME SwitchAssumption == ByName \in BOOLEAN /\ Overlap \in BOOLEAN
ASSUME BrokerAssumption == BrokerSends \subseteq Unsolicited
ASSUME TickAssumption == /\ SendTimeout \in Nat \ {0}
                         /\ KeepAlive \in Nat
                         /\ ReconnectTimeout \in Nat
ASSUME QueueAssumption == QueueCap \in Nat \ {0}

VARIABLES
  wifi,              \* the station interface
  registered,        \* system_os_task(MQTT_Task) has been called
  posted,            \* the one slot of mqtt_procTaskQueue is taken
  connState, pCon, ip, timer, keepAliveTick, reconnectTick,
  sendTimeout, pendingType, pendingId, msgQueue,   \* fields of mqttClient
  esp,               \* the espconn objects, as the SDK sees them
  dns,               \* those with a DNS request under way
  cached             \* the broker's name is in the SDK's table of names

task   == <<registered, posted>>
ticks  == <<keepAliveTick, reconnectTick>>
msgs   == <<sendTimeout, pendingType, pendingId, msgQueue>>
client == <<connState, pCon, ip, timer, keepAliveTick, reconnectTick,
            sendTimeout, pendingType, pendingId, msgQueue>>
names  == <<dns, cached>>
vars   == <<wifi, registered, posted, connState, pCon, ip, timer,
            keepAliveTick, reconnectTick, sendTimeout, pendingType,
            pendingId, msgQueue, esp, dns, cached>>

Fifo == INSTANCE QueueRules WITH Messages <- Queued, Capacity <- QueueCap

(* The values of tConnState that are ever assigned on a path that is called*)
(* (MQTT_DeleteClient has no caller).                                      *)
States == {"WIFI_INIT", "TCP_DISCONNECTING", "TCP_DISCONNECTED",
           "TCP_RECONNECT_DISCONNECTING", "TCP_RECONNECT_REQ", "TCP_RECONNECT",
           "TCP_CONNECTING", "MQTT_CONNECT_SENDING", "MQTT_DATA", "MQTT_KEEPALIVE_SEND"}

(* The states in which recv and the timer take the session to be up.       *)
Session == {"MQTT_DATA", "MQTT_KEEPALIVE_SEND"}

Fresh == [st |-> "idle", hooked |-> FALSE, busy |-> FALSE, owed |-> {}]

Espconn == [st : {"idle", "connecting", "open", "closing"},
            hooked : BOOLEAN, busy : BOOLEAN, owed : SUBSET (Answers \cup {"CLOSE"})]

TypeOK ==
  /\ wifi \in {"Down", "Linked", "Up"}
  /\ registered \in BOOLEAN
  /\ posted \in BOOLEAN
  /\ connState \in States
  /\ pCon \in Conns \cup {NoConn}
  /\ ip \in BOOLEAN
  /\ timer \in BOOLEAN
  /\ keepAliveTick \in 0..(KeepAlive + 2)
  /\ reconnectTick \in 0..ReconnectTimeout
  /\ sendTimeout \in 0..SendTimeout
  /\ pendingType \in Types \cup {"NONE"}
  /\ pendingId \in 0..2
  /\ msgQueue \in Seq(Queued)
  /\ esp \in [Conns -> Espconn]
  /\ dns \subseteq Conns
  /\ cached \in BOOLEAN

Init ==
  /\ wifi = "Down"
  /\ registered = FALSE /\ posted = FALSE
  /\ connState = "WIFI_INIT" /\ pCon = NoConn /\ ip = FALSE /\ timer = FALSE
  /\ keepAliveTick = 0 /\ reconnectTick = 0
  /\ sendTimeout = 0 /\ pendingType = "NONE" /\ pendingId = 0 /\ msgQueue = <<>>
  /\ esp = [c \in Conns |-> Fresh]
  /\ dns = {} /\ cached = FALSE

(* An exception (a read through a null pointer) restarts the device.       *)
Restart ==
  /\ wifi' = "Down"
  /\ registered' = FALSE /\ posted' = FALSE
  /\ connState' = "WIFI_INIT" /\ pCon' = NoConn /\ ip' = FALSE /\ timer' = FALSE
  /\ keepAliveTick' = 0 /\ reconnectTick' = 0
  /\ sendTimeout' = 0 /\ pendingType' = "NONE" /\ pendingId' = 0 /\ msgQueue' = <<>>
  /\ esp' = [c \in Conns |-> Fresh]
  /\ dns' = {} /\ cached' = FALSE

-----------------------------------------------------------------------------
(* The SDK's calls, on the objects e and the argument c.                   *)

(* espconn_connect fails on an object that is already in use.              *)
EspConnect(e, c) == IF c # NoConn /\ e[c].st = "idle"
                    THEN [e EXCEPT ![c] = [Fresh EXCEPT !.st = "connecting"]] ELSE e

(* espconn_disconnect fails unless the connection is established.          *)
EspDisconnect(e, c) == IF c # NoConn /\ e[c].st = "open"
                       THEN [e EXCEPT ![c].st = "closing"] ELSE e

(* The broker has refused the CONNECT sent on c and has yet to close it.   *)
Refused(e, c) == "CLOSE" \in e[c].owed

(* espconn_send fails without a connection, and while the previous packet  *)
(* has not been acknowledged.                                              *)
CanSend(e, c) == c # NoConn /\ e[c].st = "open" /\ ~e[c].busy

EspSend(e, c, m) == IF CanSend(e, c)
                    THEN [e EXCEPT ![c].busy = TRUE,
                                   ![c].owed = IF Refused(e, c) THEN @ ELSE @ \cup Owed(m)]
                    ELSE e

(* system_os_post fails before the task is registered, and changes nothing *)
(* while the slot is taken.                                                *)
Post == posted' = registered

(* Nothing refers to c any more, so the heap may hand it out again.        *)
Quiet(c) == esp[c].st = "idle" /\ c \notin dns

AllQuiet == \A c \in Conns : Quiet(c)

-----------------------------------------------------------------------------
(* mqtt.c: what the firmware calls.                                        *)

(* Faulty: the counters survive the reconnection.                          *)
MqttConnectKeepsTicks(c) ==
  /\ pCon' = c
  /\ UNCHANGED ticks
  /\ timer' = TRUE
  /\ connState' = "TCP_CONNECTING"
  /\ esp' = IF ByName THEN [esp EXCEPT ![c] = Fresh] ELSE EspConnect(esp, c)
  /\ dns' = IF ByName /\ ~cached THEN dns \cup {c} ELSE dns

(* MQTT_Connect.  Its test of pCon passes at both of its call sites: one   *)
(* has just wiped the client, the other has just deleted pCon.             *)
MqttConnect(c) ==
  /\ pCon' = c
  /\ keepAliveTick' = 0 /\ reconnectTick' = 0
  /\ timer' = TRUE
  /\ connState' = "TCP_CONNECTING"
  /\ esp' = IF ByName THEN [esp EXCEPT ![c] = Fresh] ELSE EspConnect(esp, c)
  /\ dns' = IF ByName /\ ~cached THEN dns \cup {c} ELSE dns

(* espconn_gethostbyname stores a name it finds in its table through the   *)
(* pointer to client->ip, and then makes no callback.                      *)
IpAfterConnect(before) == before \/ (ByName /\ cached)

(* Faulty: the timer stays armed.                                          *)
MqttDisconnectArmed == connState' = "TCP_DISCONNECTING" /\ Post /\ UNCHANGED timer

MqttDisconnect ==
  /\ connState' = "TCP_DISCONNECTING"
  /\ Post
  /\ timer' = FALSE

-----------------------------------------------------------------------------
(* trans_realtime.c: the WiFi events (wifi_handle_event_cb).               *)

StaConnected ==
  /\ wifi = "Down"
  /\ wifi' = "Linked"
  /\ MqttDisconnect
  /\ UNCHANGED <<registered, pCon, ip, ticks, msgs, esp, names>>

(* Faulty: the client is not told.                                         *)
StaDisconnectedUntold ==
  /\ wifi' = "Down"
  /\ UNCHANGED <<task, client, esp, names>>

(* The SDK also reports each failed attempt to join the router.            *)
StaDisconnected ==
  /\ wifi' = "Down"
  /\ MqttDisconnect
  /\ UNCHANGED <<registered, pCon, ip, ticks, msgs, esp, names>>

(* MQTT_InitConnection wipes the client, pCon and the queue included, then *)
(* MQTT_InitClient and MQTT_Connect set it up again.                       *)
StaGotIp ==
  /\ wifi = "Linked"
  /\ Overlap \/ AllQuiet
  /\ wifi' = "Up"
  /\ sendTimeout' = 0 /\ pendingType' = "NONE" /\ pendingId' = 0
  /\ msgQueue' = <<>>
  /\ registered' = TRUE /\ posted' = TRUE
  /\ ip' = IpAfterConnect(FALSE)
  /\ \E c \in Conns : Quiet(c) /\ MqttConnect(c)
  /\ UNCHANGED cached

-----------------------------------------------------------------------------
(* mqtt.c: the callbacks of the SDK.                                       *)

(* mqtt_dns_found without an address: no post, the timer takes over.       *)
DnsFailed(c) ==
  /\ c \in dns
  /\ dns' = dns \ {c}
  /\ connState' = "TCP_RECONNECT_REQ"
  /\ UNCHANGED <<wifi, task, pCon, ip, timer, ticks, msgs, esp, cached>>

(* mqtt_dns_found with an address.  It connects client->pCon, which need   *)
(* not be the object c of the request, and reads through it even if NULL.  *)
DnsFound(c) ==
  /\ c \in dns /\ wifi = "Up"
  /\ \/ /\ ~ip /\ pCon = NoConn
        /\ Restart
     \/ /\ ~ip /\ pCon # NoConn
        /\ dns' = dns \ {c} /\ cached' = TRUE
        /\ esp' = EspConnect(esp, pCon)
        /\ connState' = "TCP_CONNECTING"
        /\ Post
        /\ UNCHANGED <<wifi, registered, pCon, ip, timer, ticks, msgs>>
     \/ /\ ip
        /\ dns' = dns \ {c} /\ cached' = TRUE
        /\ Post
        /\ UNCHANGED <<wifi, registered, client, esp>>

(* The SDK forgets the name when its time to live is over.                 *)
DnsExpire ==
  /\ cached /\ cached' = FALSE
  /\ UNCHANGED <<wifi, task, client, esp, dns>>

(* Faulty: CONNECT is not noted as the pending message.                    *)
ConnectCbUnnoted(c) ==
  /\ esp[c].st = "connecting" /\ wifi = "Up"
  /\ esp' = EspSend([esp EXCEPT ![c].st = "open", ![c].hooked = TRUE], c, "CONNECT")
  /\ sendTimeout' = SendTimeout
  /\ connState' = "MQTT_CONNECT_SENDING"
  /\ Post
  /\ UNCHANGED <<wifi, registered, pCon, ip, timer, ticks, pendingType, pendingId,
                 msgQueue, names>>

(* mqtt_tcpclient_connect_cb: it is client->pCon, whatever c is, whose     *)
(* callbacks are registered and on which CONNECT is sent.                  *)
ConnectCb(c) ==
  /\ esp[c].st = "connecting" /\ wifi = "Up"
  /\ LET opened == [esp EXCEPT ![c].st = "open"]
         hooked == IF pCon = NoConn THEN opened ELSE [opened EXCEPT ![pCon].hooked = TRUE]
     IN  esp' = EspSend(hooked, pCon, "CONNECT")
  /\ pendingType' = "CONNECT" /\ pendingId' = Id("CONNECT")
  /\ sendTimeout' = SendTimeout
  /\ connState' = "MQTT_CONNECT_SENDING"
  /\ Post
  /\ UNCHANGED <<wifi, registered, pCon, ip, timer, ticks, msgQueue, names>>

(* Faulty: an error in an established session goes unnoticed.              *)
ReconCbUnnoticed(c) ==
  /\ esp[c].st # "idle"
  /\ esp' = [esp EXCEPT ![c] = Fresh]
  /\ connState' = IF connState \in Session THEN connState ELSE "TCP_RECONNECT_REQ"
  /\ Post
  /\ UNCHANGED <<wifi, registered, pCon, ip, timer, ticks, msgs, names>>

(* mqtt_tcpclient_recon_cb: the connection could not be made or broke.     *)
ReconCb(c) ==
  /\ esp[c].st # "idle"
  /\ esp' = [esp EXCEPT ![c] = Fresh]
  /\ connState' = "TCP_RECONNECT_REQ"
  /\ Post
  /\ UNCHANGED <<wifi, registered, pCon, ip, timer, ticks, msgs, names>>

(* Faulty: every close is taken for one the client asked for.              *)
DisconCbFinal(c) ==
  /\ esp[c].st \in {"open", "closing"}
  /\ esp' = [esp EXCEPT ![c] = Fresh]
  /\ connState' = "TCP_DISCONNECTED"
  /\ Post
  /\ UNCHANGED <<wifi, registered, pCon, ip, timer, ticks, msgs, names>>

(* mqtt_tcpclient_discon_cb: either side has closed the connection.        *)
DisconCb(c) ==
  /\ esp[c].st \in {"open", "closing"}
  /\ esp' = [esp EXCEPT ![c] = Fresh]
  /\ IF esp[c].hooked
     THEN /\ connState' = IF connState = "TCP_DISCONNECTING"
                          THEN "TCP_DISCONNECTED" ELSE "TCP_RECONNECT_REQ"
          /\ Post
     ELSE UNCHANGED <<connState, posted>>
  /\ UNCHANGED <<wifi, registered, pCon, ip, timer, ticks, msgs, names>>

(* Faulty: the task is not woken for the next message.                     *)
SentCbSilent(c) ==
  /\ esp[c].busy /\ esp[c].hooked /\ wifi = "Up"
  /\ esp' = [esp EXCEPT ![c].busy = FALSE]
  /\ sendTimeout' = 0
  /\ UNCHANGED <<wifi, task, connState, pCon, ip, timer, ticks,
                 pendingType, pendingId, msgQueue, names>>

(* mqtt_tcpclient_sent_cb: the peer has acknowledged what was sent.        *)
SentCb(c) ==
  /\ esp[c].busy /\ esp[c].hooked /\ wifi = "Up"
  /\ esp' = [esp EXCEPT ![c].busy = FALSE]
  /\ sendTimeout' = 0
  /\ Post
  /\ UNCHANGED <<wifi, registered, connState, pCon, ip, timer, ticks,
                 pendingType, pendingId, msgQueue, names>>

-----------------------------------------------------------------------------
(* mqtt_tcpclient_recv, one packet per segment.                            *)

(* A broker accepts or refuses a CONNECT; it speaks on a session it has    *)
(* accepted, and says nothing more on one it has refused.                  *)
MayArrive(c) == CASE "CONNACK" \in esp[c].owed -> esp[c].owed \cup {"REFUSAL"}
                  [] Refused(esp, c) -> {}
                  [] OTHER -> esp[c].owed \cup BrokerSends

OwedAfter(c, p) == IF p = "REFUSAL" THEN {"CLOSE"} ELSE esp[c].owed \ {p}

(* The SUBACK case ends in a break only if the SUBACK answers the pending  *)
(* subscription.  If not, it falls through to the PUBLISH case.            *)
AnswersPending(p) == pendingType = "SUBSCRIBE" /\ pendingId = AckId(p)

Delivered(p) == IsPublish(p) \/ (IsSuback(p) /\ ~AnswersPending(p))

(* MQTT_Publish, up to its post: building the message stores its id (0 for *)
(* QoS 0) in the pending id at once.                                       *)
MqttPublish(q) ==
  /\ msgQueue' \in Fifo!PutDroppingOldest(q, "PUBLISH")
  /\ pendingId' = 0

(* CONNACK: mqttConnectedCb makes the two subscriptions, whatever return   *)
(* code the packet carries.  The first branch is the "Invalid packet" of   *)
(* the source.                                                             *)
RecvConnack(e) ==
  IF pendingType # "CONNECT"
  THEN /\ esp' = EspDisconnect(e, pCon)
       /\ UNCHANGED <<connState, pendingId, msgQueue>>
  ELSE /\ esp' = e
       /\ connState' = "MQTT_DATA"
       /\ \E q \in Fifo!PutDroppingOldest(msgQueue, "SUBSCRIBE1") :
            msgQueue' \in Fifo!PutDroppingOldest(q, "SUBSCRIBE2")
       /\ pendingId' = 2

(* deliver_publish and mqttDataCb: the device answers a search request or a*)
(* command with a PUBLISH, and ignores anything else.  A SUBACK has no     *)
(* topic that it could mistake for one of its own.                         *)
Deliver(p, q) == \/ IsPublish(p) /\ MqttPublish(q)
                 \/ msgQueue' = q /\ UNCHANGED pendingId

(* A packet of an established session: its answer is queued before it is   *)
(* handed to the application.                                              *)
RecvData(e, p) ==
  /\ esp' = e /\ UNCHANGED connState
  /\ \E q \in IF Response(p) = {} THEN {msgQueue}
              ELSE UNION {Fifo!PutIfRoom(msgQueue, m) : m \in Response(p)} :
       IF Delivered(p) THEN Deliver(p, q) ELSE msgQueue' = q /\ UNCHANGED pendingId

Recv(c, p) ==
  /\ esp[c].st = "open" /\ esp[c].hooked /\ wifi = "Up"
  /\ p \in MayArrive(c)
  /\ LET e == [esp EXCEPT ![c].owed = OwedAfter(c, p)]
     IN  \/ connState = "MQTT_CONNECT_SENDING" /\ IsConnack(p) /\ RecvConnack(e)
         \/ connState \in Session /\ RecvData(e, p)
         \/ /\ connState \notin Session
            /\ ~(connState = "MQTT_CONNECT_SENDING" /\ IsConnack(p))
            /\ esp' = e /\ UNCHANGED <<connState, pendingId, msgQueue>>
  /\ Post
  /\ UNCHANGED <<wifi, registered, pCon, ip, timer, ticks, sendTimeout, pendingType, names>>

(* SUBACK with id 2 has no topic: mqtt_get_publish_topic returns NULL, and *)
(* mqttDataCb compares through it.                                         *)
RecvNullTopic(c) ==
  /\ esp[c].st = "open" /\ esp[c].hooked /\ wifi = "Up"
  /\ "SUBACK2" \in MayArrive(c)
  /\ connState \in Session /\ Delivered("SUBACK2")
  /\ Restart

-----------------------------------------------------------------------------
(* keepAliveTick is only ever compared with keepalive; it is not counted   *)
(* beyond KeepAlive + 2.                                                   *)
NextKeepAliveTick == IF keepAliveTick > KeepAlive + 1 THEN keepAliveTick ELSE keepAliveTick + 1

(* Faulty: the state changes and the task is not told.                     *)
CountKeepAliveUnposted ==
  /\ connState = "MQTT_DATA"
  /\ keepAliveTick' = NextKeepAliveTick
  /\ connState' = IF keepAliveTick' > KeepAlive THEN "MQTT_KEEPALIVE_SEND" ELSE connState
  /\ UNCHANGED <<posted, reconnectTick>>

(* mqtt_timer, every second while it is armed.                             *)
CountKeepAlive ==
  /\ connState = "MQTT_DATA"
  /\ keepAliveTick' = NextKeepAliveTick
  /\ IF keepAliveTick' > KeepAlive
     THEN connState' = "MQTT_KEEPALIVE_SEND" /\ Post
     ELSE UNCHANGED <<connState, posted>>
  /\ UNCHANGED reconnectTick

(* Faulty: the counter is not reset.                                       *)
CountReconnectOn ==
  /\ connState = "TCP_RECONNECT_REQ"
  /\ reconnectTick' = reconnectTick + 1
  /\ IF reconnectTick + 1 > ReconnectTimeout
     THEN connState' = "TCP_RECONNECT" /\ Post
     ELSE UNCHANGED <<connState, posted>>
  /\ UNCHANGED keepAliveTick

(* Faulty: an attempt still under way is given up as well.                 *)
CountReconnectEager ==
  /\ connState \in {"TCP_RECONNECT_REQ", "TCP_CONNECTING"}
  /\ IF reconnectTick + 1 > ReconnectTimeout
     THEN reconnectTick' = 0 /\ connState' = "TCP_RECONNECT" /\ Post
     ELSE reconnectTick' = reconnectTick + 1 /\ UNCHANGED <<connState, posted>>
  /\ UNCHANGED keepAliveTick

CountReconnect ==
  /\ connState = "TCP_RECONNECT_REQ"
  /\ IF reconnectTick + 1 > ReconnectTimeout
     THEN reconnectTick' = 0 /\ connState' = "TCP_RECONNECT" /\ Post
     ELSE reconnectTick' = reconnectTick + 1 /\ UNCHANGED <<connState, posted>>
  /\ UNCHANGED keepAliveTick

Timer ==
  /\ timer
  /\ \/ CountKeepAlive
     \/ CountReconnect
     \/ /\ connState \notin {"MQTT_DATA", "TCP_RECONNECT_REQ"}
        /\ UNCHANGED <<connState, posted, ticks>>
  /\ sendTimeout' = IF sendTimeout > 0 THEN sendTimeout - 1 ELSE 0
  /\ UNCHANGED <<wifi, registered, pCon, ip, timer, pendingType, pendingId,
                 msgQueue, esp, names>>

-----------------------------------------------------------------------------
(* MQTT_Task: what the task does with a post depends on the state alone.   *)

(* mqtt_tcpclient_delete, then MQTT_Connect.                               *)
TaskReconnect ==
  /\ connState = "TCP_RECONNECT"
  /\ posted' = FALSE
  /\ ip' = IpAfterConnect(ip)
  /\ \E c \in Conns : Quiet(c) /\ MqttConnect(c)
  /\ UNCHANGED <<wifi, registered, msgs, cached>>

TaskDisconnect ==
  /\ connState \in {"TCP_DISCONNECTING", "TCP_RECONNECT_DISCONNECTING"}
  /\ posted' = FALSE
  /\ esp' = EspDisconnect(esp, pCon)
  /\ UNCHANGED <<wifi, registered, client, names>>

TaskDelete ==
  /\ connState = "TCP_DISCONNECTED"
  /\ posted' = FALSE
  /\ pCon' = NoConn
  /\ UNCHANGED <<wifi, registered, connState, ip, timer, ticks, msgs, esp, names>>

(* Faulty: a failed PINGREQ reconnects without closing the connection.     *)
TaskKeepAliveHasty ==
  /\ connState = "MQTT_KEEPALIVE_SEND"
  /\ pendingType' = "PINGREQ" /\ pendingId' = Id("PINGREQ")
  /\ sendTimeout' = SendTimeout
  /\ esp' = EspSend(esp, pCon, "PINGREQ")
  /\ IF CanSend(esp, pCon)
     THEN keepAliveTick' = 0 /\ connState' = "MQTT_DATA"
     ELSE connState' = "TCP_RECONNECT" /\ UNCHANGED keepAliveTick
  /\ Post
  /\ UNCHANGED <<wifi, registered, pCon, ip, timer, reconnectTick, msgQueue, names>>

(* mqtt_send_keepalive                                                     *)
TaskKeepAlive ==
  /\ connState = "MQTT_KEEPALIVE_SEND"
  /\ pendingType' = "PINGREQ" /\ pendingId' = Id("PINGREQ")
  /\ sendTimeout' = SendTimeout
  /\ esp' = EspSend(esp, pCon, "PINGREQ")
  /\ IF CanSend(esp, pCon)
     THEN keepAliveTick' = 0 /\ connState' = "MQTT_DATA"
     ELSE connState' = "TCP_RECONNECT_DISCONNECTING" /\ UNCHANGED keepAliveTick
  /\ Post
  /\ UNCHANGED <<wifi, registered, pCon, ip, timer, reconnectTick, msgQueue, names>>

(* The result of espconn_send is not looked at: a message that cannot be   *)
(* sent is gone.                                                           *)
TaskSend ==
  /\ connState = "MQTT_DATA" /\ msgQueue # <<>> /\ sendTimeout = 0
  /\ posted' = FALSE
  /\ msgQueue' = Tail(msgQueue)
  /\ pendingType' = Type(Head(msgQueue)) /\ pendingId' = Id(Head(msgQueue))
  /\ sendTimeout' = SendTimeout
  /\ esp' = EspSend(esp, pCon, Head(msgQueue))
  /\ UNCHANGED <<wifi, registered, connState, pCon, ip, timer, ticks, names>>

TaskIdle ==
  /\ \/ connState \in {"WIFI_INIT", "TCP_RECONNECT_REQ", "TCP_CONNECTING",
                       "MQTT_CONNECT_SENDING"}
     \/ connState = "MQTT_DATA" /\ (msgQueue = <<>> \/ sendTimeout # 0)
  /\ posted' = FALSE
  /\ UNCHANGED <<wifi, registered, client, esp, names>>

MqttTask ==
  /\ posted
  /\ \/ TaskReconnect \/ TaskDisconnect \/ TaskDelete
     \/ TaskKeepAlive \/ TaskSend \/ TaskIdle

(* MQTT_Publish from outside the client: a key press or a relay timer.     *)
(* Before MQTT_InitClient there is no buffer to build the message in.      *)
AppPublish ==
  /\ registered
  /\ MqttPublish(msgQueue)
  /\ IF msgQueue' = <<>> THEN UNCHANGED posted ELSE Post
  /\ UNCHANGED <<wifi, registered, connState, pCon, ip, timer, ticks,
                 sendTimeout, pendingType, esp, names>>

-----------------------------------------------------------------------------
Wifi == StaConnected \/ StaDisconnected \/ StaGotIp

Callback(c) == \/ DnsFailed(c) \/ DnsFound(c)
               \/ ConnectCb(c) \/ ReconCb(c) \/ DisconCb(c) \/ SentCb(c)
               \/ \E p \in Inbound : Recv(c, p)
               \/ RecvNullTopic(c)

Next == \/ Wifi
        \/ DnsExpire
        \/ \E c \in Conns : Callback(c)
        \/ Timer
        \/ MqttTask
        \/ AppPublish

Spec == Init /\ [][Next]_vars

(* Something must happen to c: an attempt to connect comes to an end, so   *)
(* does a closing connection, and a broker closes one that it has refused. *)
MustEnd(c) == esp[c].st \in {"connecting", "closing"} \/ Refused(esp, c)

(* What the SDK's scheduler and a responsive broker guarantee.  The task   *)
(* and the timer run; what must end ends; a DNS request is answered; an    *)
(* attempt that can succeed again and again is not unlucky for ever, and   *)
(* not every CONNECT is refused.                                           *)
Fairness ==
  /\ WF_vars(MqttTask)
  /\ WF_vars(Timer)
  /\ \A c \in Conns :
       /\ WF_vars(MustEnd(c) /\ (ConnectCb(c) \/ ReconCb(c) \/ DisconCb(c)))
       /\ WF_vars(DnsFailed(c) \/ DnsFound(c))
       /\ SF_vars(DnsFound(c))
       /\ SF_vars(ConnectCb(c))
       /\ SF_vars(Recv(c, "CONNACK"))

FairSpec == Spec /\ Fairness

-----------------------------------------------------------------------------
(* Properties of every environment, overlapping connections included.      *)

(* The task queue has a single slot and most posts find it taken, yet no   *)
(* request is ever forgotten: in each state that waits for the task to act *)
(* (reconnect, send a PINGREQ, close the connection) a post is pending.    *)
NoLostWakeup ==
  /\ connState \in {"TCP_RECONNECT", "MQTT_KEEPALIVE_SEND"} => posted
  /\ /\ connState \in {"TCP_DISCONNECTING", "TCP_RECONNECT_DISCONNECTING"}
     /\ pCon # NoConn
     /\ esp[pCon].st = "open"
     => posted

(* Callbacks of connections that break late, and the task, keep running    *)
(* while there is no link; none of them takes the client out of the states *)
(* in which it waits for the next GOT_IP.                                  *)
ParkedWithoutLink ==
  wifi # "Up" => connState \in {"WIFI_INIT", "TCP_DISCONNECTING", "TCP_DISCONNECTED",
                                "TCP_RECONNECT_REQ"}

(* The timer is armed exactly while the station has an address.  So the    *)
(* memset of MQTT_InitConnection never wipes a timer that is linked into   *)
(* the SDK's list of armed timers, and a reconnect request made while the  *)
(* link is up is always counted down.                                      *)
TimerFollowsLink == timer <=> wifi = "Up"

(* The client waits for CONNACK only with CONNECT as its pending message,  *)
(* whatever is published meanwhile: the "Invalid packet" branch of         *)
(* mqtt_tcpclient_recv can never throw a good CONNACK away.                *)
ConnackIsExpected == connState = "MQTT_CONNECT_SENDING" => pendingType = "CONNECT"

-----------------------------------------------------------------------------
(* Properties of the environments without overlap: GOT_IP comes after the  *)
(* last callback of the previous connection.                               *)

(* The client has at most one connection (or DNS request for one) under    *)
(* way: the comment in MQTT_Connect, "otherwise the two espconn            *)
(* connections may interfere causing unexpected behaviour".                *)
OneConnection == Cardinality({c \in Conns : ~Quiet(c)}) <= 1

(* When the task is about to free pCon the SDK has no callback left to make*)
(* on it, so no callback runs on freed memory.                             *)
FreedIsQuiet ==
  connState \in {"TCP_RECONNECT", "TCP_DISCONNECTED"} /\ pCon # NoConn => Quiet(pCon)

(* The client believes itself in a session only while the connection it    *)
(* has now, not an earlier one, is established and the CONNECT sent on it  *)
(* has been answered.  Answered is not accepted: mqtt_tcpclient_recv takes *)
(* a CONNACK with any return code for the start of a session.              *)
DataInSession ==
  connState \in Session =>
    pCon # NoConn /\ esp[pCon].st = "open" /\ "CONNACK" \notin esp[pCon].owed

(* A message that could be sent is not left lying: if the queue is not     *)
(* empty, no answer is awaited and the connection would take a message,    *)
(* then the task has been posted.                                          *)
NoStall ==
  connState = "MQTT_DATA" /\ msgQueue # <<>> /\ sendTimeout = 0 /\ CanSend(esp, pCon)
  => posted

(* mqtt_timer compares with >, so in a session PINGREQ is asked for one    *)
(* tick after the interval announced to the broker has passed, neither     *)
(* earlier nor later: through any number of reconnections the counter of   *)
(* an earlier session never shortens the interval of the next, and no more *)
(* than that one tick is ever overrun.                                     *)
KeepAliveHonoured ==
  connState \in Session =>
    /\ keepAliveTick <= KeepAlive + 1
    /\ keepAliveTick = KeepAlive + 1 <=> connState = "MQTT_KEEPALIVE_SEND"

(* A connection that is lost while the link stays up, or that the broker   *)
(* refused, is made again, and ends in a session the broker has accepted.  *)
InAcceptedSession == connState = "MQTT_DATA" /\ pCon # NoConn /\ ~Refused(esp, pCon)

Reconnects ==
  (wifi = "Up" /\ connState = "TCP_RECONNECT_REQ") ~> (InAcceptedSession \/ wifi # "Up")
=============================================================================
