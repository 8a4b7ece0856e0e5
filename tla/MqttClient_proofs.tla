------------------------- MODULE MqttClient_proofs -------------------------
(***************************************************************************)
(* What holds of the MQTT client for every value of the constants: any set *)
(* of espconn objects, host by name or by address, overlapping connections *)
(* or not, any timeouts and any queue.  In the last part, what holds when  *)
(* GOT_IP comes only after the last callback of the old connection: the    *)
(* client has one connection at a time, is in a session when it believes   *)
(* so, frees nothing in use, leaves no message lying and honours the       *)
(* keep-alive.                                                             *)
(***************************************************************************)
EXTENDS MqttClient, SequenceTheorems, FiniteSetTheorems, TLAPS

USE DEF task, ticks, msgs, client, names

-----------------------------------------------------------------------------
(* Lemmas on the operators of the model.                                   *)

(* PutDroppingOldest and PutIfRoom keep a queue a sequence of messages.    *)
LEMMA PutType ==
  ASSUME NEW q \in Seq(Queued), NEW m \in Queued
  PROVE  /\ Fifo!PutDroppingOldest(q, m) \subseteq Seq(Queued)
         /\ Fifo!PutIfRoom(q, m) \subseteq Seq(Queued)
<1>1. ASSUME NEW k \in 0..Len(q)
      PROVE  Append(Fifo!Without(q, k), m) \in Seq(Queued)
  BY <1>1, SubSeqProperties, AppendProperties DEF Fifo!Without
<1>2. <<>> \in Seq(Queued)
  BY EmptySeq
<1>3. Append(q, m) \in Seq(Queued)
  BY AppendProperties
<1> QED
  BY <1>1, <1>2, <1>3 DEF Fifo!PutDroppingOldest, Fifo!PutIfRoom

LEMMA PacketTypes ==
  /\ \A m \in Outbound : Type(m) \in Types /\ Id(m) \in 0..2 /\ Owed(m) \subseteq Answers
  /\ \A p \in Inbound : Response(p) \subseteq Queued
  /\ Queued \subseteq Outbound
BY DEF Outbound, Queued, Types, Type, Id, Owed, Answers, Inbound, Unsolicited, Response

(* The broker's answers, and what it may say after one of them.            *)
LEMMA OwedType ==
  ASSUME TypeOK, NEW c \in Conns, NEW p
  PROVE  OwedAfter(c, p) \subseteq Answers \cup {"CLOSE"}
BY DEF OwedAfter, TypeOK, Espconn

LEMMA FreshType == Fresh \in Espconn
BY DEF Fresh, Espconn

(* The SDK's calls keep the table of espconn objects well typed.           *)
LEMMA EspConnectType ==
  ASSUME NEW e \in [Conns -> Espconn], NEW c \in Conns \cup {NoConn}
  PROVE  EspConnect(e, c) \in [Conns -> Espconn]
BY DEF EspConnect, Fresh, Espconn

LEMMA EspDisconnectType ==
  ASSUME NEW e \in [Conns -> Espconn], NEW c \in Conns \cup {NoConn}
  PROVE  EspDisconnect(e, c) \in [Conns -> Espconn]
BY DEF EspDisconnect, Espconn

LEMMA EspSendType ==
  ASSUME NEW e \in [Conns -> Espconn], NEW c \in Conns \cup {NoConn}, NEW m \in Outbound
  PROVE  EspSend(e, c, m) \in [Conns -> Espconn]
<1>1. Owed(m) \subseteq Answers
  BY PacketTypes
<1>2. CASE ~CanSend(e, c)
  BY <1>2 DEF EspSend
<1>3. CASE CanSend(e, c)
  <2> DEFINE owed == IF Refused(e, c) THEN e[c].owed ELSE e[c].owed \cup Owed(m)
             obj == [e[c] EXCEPT !.busy = TRUE, !.owed = owed]
  <2>1. c \in Conns /\ e[c] \in Espconn
    BY <1>3 DEF CanSend
  <2>2. owed \in SUBSET (Answers \cup {"CLOSE"})
    BY <1>1, <2>1 DEF Espconn
  <2>3. obj \in Espconn
    <3> HIDE DEF owed
    <3> QED
      BY <2>1, <2>2 DEF Espconn
  <2>4. EspSend(e, c, m) = [e EXCEPT ![c] = obj]
    BY <1>3, <2>1, Zenon DEF EspSend
  <2> HIDE DEF obj
  <2> QED
    BY <2>1, <2>3, <2>4
<1> QED
  BY <1>2, <1>3

-----------------------------------------------------------------------------
(* Type correctness.                                                       *)

LEMMA InitTypeOK == Init => TypeOK
<1> SUFFICES ASSUME Init PROVE TypeOK
  OBVIOUS
<1>1. msgQueue \in Seq(Queued)
  BY EmptySeq DEF Init
<1>2. esp \in [Conns -> Espconn]
  BY FreshType DEF Init
<1>3. /\ keepAliveTick \in 0..(KeepAlive + 2)
      /\ reconnectTick \in 0..ReconnectTimeout
      /\ sendTimeout \in 0..SendTimeout
      /\ pendingId \in 0..2
  BY TickAssumption DEF Init
<1> QED
  BY <1>1, <1>2, <1>3, Zenon DEF Init, TypeOK, States

LEMMA RestartTypeOK == Restart => TypeOK'
<1> SUFFICES ASSUME Restart PROVE TypeOK'
  OBVIOUS
<1>1. msgQueue' \in Seq(Queued)
  BY EmptySeq DEF Restart
<1>2. esp' \in [Conns -> Espconn]
  BY FreshType DEF Restart
<1>3. /\ keepAliveTick' \in 0..(KeepAlive + 2)
      /\ reconnectTick' \in 0..ReconnectTimeout
      /\ sendTimeout' \in 0..SendTimeout
      /\ pendingId' \in 0..2
  BY TickAssumption DEF Restart
<1> QED
  BY <1>1, <1>2, <1>3, Zenon DEF Restart, TypeOK, States

LEMMA WifiTypeOK == TypeOK /\ (Wifi \/ DnsExpire) => TypeOK'
<1> SUFFICES ASSUME TypeOK, Wifi \/ DnsExpire PROVE TypeOK'
  OBVIOUS
<1> USE DEF TypeOK, States
<1>1. CASE StaConnected
  BY <1>1 DEF StaConnected, MqttDisconnect, Post
<1>2. CASE StaDisconnected
  BY <1>2 DEF StaDisconnected, MqttDisconnect, Post
<1>3. CASE StaGotIp
  <2>1. PICK c \in Conns : MqttConnect(c)
    BY <1>3 DEF StaGotIp
  <2>2. esp' \in [Conns -> Espconn]
    BY <2>1, EspConnectType, FreshType DEF MqttConnect
  <2>3. msgQueue' \in Seq(Queued)
    BY <1>3, EmptySeq DEF StaGotIp
  <2> QED
    BY <1>3, <2>1, <2>2, <2>3, TickAssumption, SwitchAssumption
       DEF StaGotIp, MqttConnect, IpAfterConnect
<1>4. CASE DnsExpire
  BY <1>4 DEF DnsExpire
<1> QED
  BY <1>1, <1>2, <1>3, <1>4 DEF Wifi

(* The segments of mqtt_tcpclient_recv.                                    *)
LEMMA RecvTypeOK ==
  ASSUME TypeOK, NEW c \in Conns, NEW p \in Inbound, Recv(c, p)
  PROVE  TypeOK'
<1> DEFINE e == [esp EXCEPT ![c].owed = OwedAfter(c, p)]
<1>1. e \in [Conns -> Espconn]
  BY OwedType DEF TypeOK, Espconn
<1> HIDE DEF e
<1>2. /\ esp' \in [Conns -> Espconn]
      /\ connState' \in States
      /\ pendingId' \in 0..2
      /\ msgQueue' \in Seq(Queued)
  <2>1. CASE connState = "MQTT_CONNECT_SENDING" /\ IsConnack(p) /\ RecvConnack(e)
    <3>1. esp' \in [Conns -> Espconn]
      BY <1>1, <2>1, EspDisconnectType DEF RecvConnack, TypeOK
    <3>2. msgQueue' \in Seq(Queued)
      BY <2>1, PutType DEF RecvConnack, TypeOK, Queued
    <3> QED
      BY <2>1, <3>1, <3>2 DEF RecvConnack, TypeOK, States
  <2>2. CASE connState \in Session /\ RecvData(e, p)
    <3>1. PICK q \in IF Response(p) = {} THEN {msgQueue}
                     ELSE UNION {Fifo!PutIfRoom(msgQueue, m) : m \in Response(p)} :
            IF Delivered(p) THEN Deliver(p, q) ELSE msgQueue' = q /\ UNCHANGED pendingId
      BY <2>2 DEF RecvData
    <3>2. q \in Seq(Queued)
      BY <3>1, PutType, PacketTypes DEF TypeOK
    <3>3. msgQueue' \in Seq(Queued) /\ pendingId' \in 0..2
      BY <3>1, <3>2, PutType DEF Deliver, MqttPublish, TypeOK, Queued
    <3> QED
      BY <1>1, <2>2, <3>3 DEF RecvData, TypeOK
  <2>3. CASE esp' = e /\ UNCHANGED <<connState, pendingId, msgQueue>>
    BY <1>1, <2>3 DEF TypeOK
  <2>4. \/ connState = "MQTT_CONNECT_SENDING" /\ IsConnack(p) /\ RecvConnack(e)
        \/ connState \in Session /\ RecvData(e, p)
        \/ esp' = e /\ UNCHANGED <<connState, pendingId, msgQueue>>
    BY Zenon DEF Recv, e
  <2> QED
    BY <2>1, <2>2, <2>3, <2>4
<1> QED
  BY <1>2 DEF TypeOK, Recv, Post

LEMMA CallbackTypeOK ==
  ASSUME TypeOK, NEW c \in Conns, Callback(c)
  PROVE  TypeOK'
<1> USE DEF TypeOK, States
<1>1. CASE DnsFailed(c)
  BY <1>1 DEF DnsFailed
<1>2. CASE DnsFound(c)
  <2>1. CASE Restart
    BY <2>1, RestartTypeOK
  <2>2. CASE ~Restart
    <3>1. esp' \in [Conns -> Espconn]
      BY <1>2, <2>2, EspConnectType DEF DnsFound
    <3> QED
      BY <1>2, <2>2, <3>1 DEF DnsFound, Post
  <2> QED
    BY <2>1, <2>2
<1>3. CASE ConnectCb(c)
  <2> DEFINE opened == [esp EXCEPT ![c].st = "open"]
             hooked == IF pCon = NoConn THEN opened ELSE [opened EXCEPT ![pCon].hooked = TRUE]
  <2>1. opened \in [Conns -> Espconn]
    BY DEF Espconn
  <2> HIDE DEF opened
  <2>2. hooked \in [Conns -> Espconn]
    <3>1. CASE pCon = NoConn
      BY <2>1, <3>1
    <3>2. CASE pCon # NoConn
      <4>1. pCon \in Conns
        BY <3>2
      <4>2. [opened EXCEPT ![pCon].hooked = TRUE] \in [Conns -> Espconn]
        BY <2>1, <4>1 DEF Espconn
      <4> QED
        BY <3>2, <4>2
    <3> QED
      BY <3>1, <3>2
  <2>3. esp' = EspSend(hooked, pCon, "CONNECT")
    BY <1>3 DEF ConnectCb, opened
  <2> HIDE DEF hooked
  <2>4. "CONNECT" \in Outbound
    BY DEF Outbound
  <2>5. esp' \in [Conns -> Espconn]
    BY <2>2, <2>3, <2>4, EspSendType
  <2>6. "CONNECT" \in Types /\ Id("CONNECT") \in 0..2
    BY <2>4, PacketTypes DEF Type, Types, Id
  <2>7. sendTimeout' \in 0..SendTimeout
    BY <1>3, TickAssumption DEF ConnectCb
  <2>8. connState' \in States /\ posted' \in BOOLEAN
    BY <1>3 DEF ConnectCb, Post
  <2> QED
    BY <1>3, <2>5, <2>6, <2>7, <2>8, Zenon DEF ConnectCb
<1>4. CASE ReconCb(c)
  BY <1>4, FreshType DEF ReconCb, Post
<1>5. CASE DisconCb(c)
  BY <1>5, FreshType DEF DisconCb, Post
<1>6. CASE SentCb(c)
  <2>1. esp' \in [Conns -> Espconn]
    BY <1>6 DEF SentCb, Espconn
  <2> QED
    BY <1>6, <2>1, TickAssumption DEF SentCb, Post
<1>7. ASSUME NEW p \in Inbound, Recv(c, p) PROVE TypeOK'
  BY <1>7, RecvTypeOK
<1>8. CASE RecvNullTopic(c)
  BY <1>8, RestartTypeOK DEF RecvNullTopic
<1> QED
  BY <1>1, <1>2, <1>3, <1>4, <1>5, <1>6, <1>7, <1>8 DEF Callback

LEMMA TimerTypeOK == TypeOK /\ Timer => TypeOK'
<1> SUFFICES ASSUME TypeOK, Timer PROVE TypeOK'
  OBVIOUS
<1>1. sendTimeout' \in 0..SendTimeout
  BY TickAssumption DEF TypeOK, Timer
<1>2. /\ keepAliveTick' \in 0..(KeepAlive + 2) 
      /\ reconnectTick' \in 0..ReconnectTimeout
      /\ connState' \in States
      /\ posted' \in BOOLEAN
  <2>1. CASE CountKeepAlive
    BY <2>1, TickAssumption DEF TypeOK, Timer, CountKeepAlive, NextKeepAliveTick, Post, States
  <2>2. CASE CountReconnect
    BY <2>2, TickAssumption DEF TypeOK, Timer, CountReconnect, Post, States
  <2> QED
    BY <2>1, <2>2 DEF TypeOK, Timer
<1> QED
  BY <1>1, <1>2 DEF TypeOK, Timer

LEMMA TaskTypeOK == TypeOK /\ MqttTask => TypeOK'
<1> SUFFICES ASSUME TypeOK, MqttTask PROVE TypeOK'
  OBVIOUS
<1> USE DEF TypeOK, States
<1>1. CASE TaskReconnect
  <2>1. PICK c \in Conns : MqttConnect(c)
    BY <1>1 DEF TaskReconnect
  <2>2. esp' \in [Conns -> Espconn]
    BY <2>1, EspConnectType, FreshType DEF MqttConnect
  <2>3. keepAliveTick' \in 0..(KeepAlive + 2) /\ reconnectTick' \in 0..ReconnectTimeout
    BY <2>1, TickAssumption DEF MqttConnect
  <2>4. connState' \in States /\ pCon' \in Conns /\ timer' \in BOOLEAN /\ dns' \subseteq Conns
    BY <2>1 DEF MqttConnect
  <2>5. ip' \in BOOLEAN /\ posted' \in BOOLEAN
    BY <1>1, SwitchAssumption DEF TaskReconnect, IpAfterConnect
  <2> QED
    BY <1>1, <2>2, <2>3, <2>4, <2>5, Zenon DEF TaskReconnect
<1>2. CASE TaskDisconnect
  BY <1>2, EspDisconnectType DEF TaskDisconnect
<1>3. CASE TaskDelete
  BY <1>3 DEF TaskDelete
<1>4. CASE TaskKeepAlive
  <2>1. "PINGREQ" \in Outbound
    BY DEF Outbound
  <2>2. esp' \in [Conns -> Espconn]
    BY <1>4, <2>1, EspSendType DEF TaskKeepAlive
  <2>3. "PINGREQ" \in Types /\ Id("PINGREQ") \in 0..2
    BY <2>1, PacketTypes DEF Type, Types, Id
  <2>4. sendTimeout' \in 0..SendTimeout /\ keepAliveTick' \in 0..(KeepAlive + 2)
    BY <1>4, TickAssumption DEF TaskKeepAlive
  <2>5. connState' \in States /\ posted' \in BOOLEAN
    BY <1>4 DEF TaskKeepAlive, Post
  <2> QED
    BY <1>4, <2>2, <2>3, <2>4, <2>5, Zenon DEF TaskKeepAlive
<1>5. CASE TaskSend
  <2>1. Head(msgQueue) \in Queued /\ msgQueue' \in Seq(Queued)
    BY <1>5, HeadTailProperties DEF TaskSend
  <2>2. Head(msgQueue) \in Outbound
    BY <2>1, PacketTypes
  <2>3. esp' \in [Conns -> Espconn]
    BY <1>5, <2>2, EspSendType DEF TaskSend
  <2>4. pendingType' \in Types /\ pendingId' \in 0..2
    BY <1>5, <2>2, PacketTypes DEF TaskSend
  <2>5. sendTimeout' \in 0..SendTimeout
    BY <1>5, TickAssumption DEF TaskSend
  <2> QED
    BY <1>5, <2>1, <2>3, <2>4, <2>5, Zenon DEF TaskSend
<1>6. CASE TaskIdle
  BY <1>6 DEF TaskIdle
<1> QED
  BY <1>1, <1>2, <1>3, <1>4, <1>5, <1>6 DEF MqttTask

LEMMA AppPublishTypeOK == TypeOK /\ AppPublish => TypeOK'
<1> SUFFICES ASSUME TypeOK, AppPublish PROVE TypeOK'
  OBVIOUS
<1>1. msgQueue' \in Seq(Queued)
  BY PutType DEF TypeOK, AppPublish, MqttPublish, Queued
<1>2. posted' \in BOOLEAN
  BY Zenon DEF TypeOK, AppPublish, Post
<1>3. pendingId' \in 0..2
  BY DEF AppPublish, MqttPublish
<1> QED
  BY <1>1, <1>2, <1>3, Zenon DEF TypeOK, AppPublish

LEMMA StepTypeOK == TypeOK /\ [Next]_vars => TypeOK'
<1> SUFFICES ASSUME TypeOK, [Next]_vars PROVE TypeOK'
  OBVIOUS
<1>1. CASE UNCHANGED vars
  BY <1>1 DEF vars, TypeOK
<1>2. CASE Next
  BY <1>2, WifiTypeOK, CallbackTypeOK, TimerTypeOK, TaskTypeOK, AppPublishTypeOK DEF Next
<1> QED
  BY <1>1, <1>2

(* Every variable keeps its type: the counters of mqtt_timer stay within   *)
(* their thresholds, and pCon is never anything but an object of the SDK.  *)
THEOREM TypeCorrect == Spec => []TypeOK
<1>1. Init => TypeOK
  BY InitTypeOK
<1>2. TypeOK /\ [Next]_vars => TypeOK'
  BY StepTypeOK
<1> QED
  BY <1>1, <1>2, PTL DEF Spec

-----------------------------------------------------------------------------
(* The timer and the states without a link.  Neither formula is inductive  *)
(* alone: the task arms the timer on its way out of TCP_RECONNECT, a state *)
(* that only the second one excludes without a link, and the timer enters  *)
(* TCP_RECONNECT, which only the first one excludes.                       *)

Link == TimerFollowsLink /\ ParkedWithoutLink

LEMMA RestartLink == Restart => Link'
BY DEF Restart, Link, TimerFollowsLink, ParkedWithoutLink

LEMMA CallbackLink ==
  ASSUME TypeOK, Link, NEW c \in Conns, Callback(c)
  PROVE  Link'
<1> USE DEF Link, TimerFollowsLink, ParkedWithoutLink
<1>1. CASE DnsFailed(c)
  BY <1>1 DEF DnsFailed
<1>2. CASE DnsFound(c)
  <2>1. Restart \/ (wifi = "Up" /\ wifi' = wifi /\ timer' = timer)
    BY <1>2, Zenon DEF DnsFound
  <2> QED
    BY <2>1, RestartLink
<1>3. CASE ConnectCb(c)
  BY <1>3 DEF ConnectCb
<1>4. CASE ReconCb(c)
  BY <1>4 DEF ReconCb
<1>5. CASE DisconCb(c)
  BY <1>5 DEF DisconCb
<1>6. CASE SentCb(c)
  BY <1>6 DEF SentCb
<1>7. ASSUME NEW p \in Inbound, Recv(c, p) PROVE Link'
  <2>1. wifi = "Up" /\ wifi' = wifi /\ timer' = timer
    BY <1>7, Zenon DEF Recv
  <2> QED
    BY <2>1
<1>8. CASE RecvNullTopic(c)
  BY <1>8, RestartLink DEF RecvNullTopic
<1> QED
  BY <1>1, <1>2, <1>3, <1>4, <1>5, <1>6, <1>7, <1>8 DEF Callback

LEMMA StepLink == TypeOK /\ Link /\ [Next]_vars => Link'
<1> SUFFICES ASSUME TypeOK, Link, [Next]_vars PROVE Link'
  OBVIOUS
<1> USE DEF Link, TimerFollowsLink, ParkedWithoutLink
<1>1. CASE StaConnected
  BY <1>1 DEF StaConnected, MqttDisconnect
<1>2. CASE StaDisconnected
  BY <1>2 DEF StaDisconnected, MqttDisconnect
<1>3. CASE StaGotIp
  <2>1. wifi' = "Up" /\ timer' = TRUE
    BY <1>3 DEF StaGotIp, MqttConnect
  <2> QED
    BY <2>1
<1>4. CASE DnsExpire
  BY <1>4 DEF DnsExpire
<1>5. ASSUME NEW c \in Conns, Callback(c) PROVE Link'
  BY <1>5, CallbackLink
<1>6. CASE Timer
  <2>1. wifi' = "Up" /\ timer' = TRUE
    BY <1>6 DEF Timer, TypeOK
  <2> QED
    BY <2>1
<1>7. CASE MqttTask
  <2>1. CASE TaskReconnect
    <3>1. wifi = "Up"
      BY <2>1 DEF TaskReconnect
    <3>2. wifi' = "Up" /\ timer' = TRUE
      BY <2>1, <3>1 DEF TaskReconnect, MqttConnect
    <3> QED
      BY <3>2
  <2>2. CASE TaskDisconnect
    BY <2>2 DEF TaskDisconnect
  <2>3. CASE TaskDelete
    BY <2>3 DEF TaskDelete
  <2>4. CASE TaskKeepAlive
    BY <2>4 DEF TaskKeepAlive
  <2>5. CASE TaskSend
    BY <2>5 DEF TaskSend
  <2>6. CASE TaskIdle
    BY <2>6 DEF TaskIdle
  <2> QED
    BY <1>7, <2>1, <2>2, <2>3, <2>4, <2>5, <2>6 DEF MqttTask
<1>8. CASE AppPublish
  BY <1>8 DEF AppPublish
<1>9. CASE UNCHANGED vars
  BY <1>9 DEF vars
<1> QED
  BY <1>1, <1>2, <1>3, <1>4, <1>5, <1>6, <1>7, <1>8, <1>9 DEF Next, Wifi

LEMMA LinkInvariant == Spec => [](TypeOK /\ Link)
<1>1. Init => TypeOK /\ Link
  BY InitTypeOK DEF Init, Link, TimerFollowsLink, ParkedWithoutLink
<1>2. (TypeOK /\ Link) /\ [Next]_vars => (TypeOK /\ Link)'
  BY StepTypeOK, StepLink
<1> QED
  BY <1>1, <1>2, PTL DEF Spec

(* The timer is armed exactly while the station has an address, so the     *)
(* memset of MQTT_InitConnection never wipes an armed timer.               *)
THEOREM TimerArmedWithLink == Spec => []TimerFollowsLink
<1>1. TypeOK /\ Link => TimerFollowsLink
  BY DEF Link
<1> QED
  BY <1>1, LinkInvariant, PTL

(* Without a link the client only ever waits: no callback of an old        *)
(* connection and no leftover post starts a new one.                       *)
THEOREM ParkedUntilGotIp == Spec => []ParkedWithoutLink
<1>1. TypeOK /\ Link => ParkedWithoutLink
  BY DEF Link
<1> QED
  BY <1>1, LinkInvariant, PTL

-----------------------------------------------------------------------------
(* No lost wakeup.  A post before MQTT_InitClient has registered the task  *)
(* fails, so the invariant also says when it is registered.                *)

Registered == wifi = "Up" \/ pCon # NoConn => registered

Wakeup == Registered /\ NoLostWakeup

LEMMA RestartWakeup == Restart => Wakeup'
BY DEF Restart, Wakeup, Registered, NoLostWakeup

(* A step that leaves the state and the pending post alone, and opens no   *)
(* connection, keeps a request that has its post.                          *)
LEMMA UndisturbedWakeup ==
  ASSUME Link, Wakeup, UNCHANGED <<wifi, registered, connState, pCon>>,
         posted' = posted \/ posted' = registered,
         pCon # NoConn => (esp'[pCon].st = "open" => esp[pCon].st = "open")
  PROVE  Wakeup'
<1>1. connState \in {"TCP_RECONNECT", "MQTT_KEEPALIVE_SEND"} => wifi = "Up"
  BY DEF Link, ParkedWithoutLink
<1> QED
  BY <1>1 DEF Wakeup, Registered, NoLostWakeup

(* A step that posts leaves nothing to be woken for.                       *)
LEMMA PostedWakeup ==
  ASSUME Wakeup, UNCHANGED <<registered, wifi>>, pCon' = pCon, posted' = registered,
         connState' \in {"TCP_RECONNECT", "MQTT_KEEPALIVE_SEND"} => wifi = "Up"
  PROVE  Wakeup'
BY DEF Wakeup, Registered, NoLostWakeup

LEMMA CallbackWakeup ==
  ASSUME TypeOK, Link, Wakeup, NEW c \in Conns, Callback(c)
  PROVE  Wakeup'
<1>1. CASE DnsFailed(c)
  BY <1>1 DEF DnsFailed, Wakeup, Registered, NoLostWakeup
<1>2. CASE DnsFound(c)
  <2>1. CASE Restart
    BY <2>1, RestartWakeup
  <2>2. CASE ~ip /\ pCon # NoConn
    BY <1>2, <2>2, PostedWakeup DEF DnsFound, Post
  <2>3. CASE ip
    BY <1>2, <2>3, PostedWakeup DEF DnsFound, Post, Link, ParkedWithoutLink
  <2> QED
    BY <1>2, <2>1, <2>2, <2>3 DEF DnsFound
<1>3. CASE ConnectCb(c)
  BY <1>3, PostedWakeup DEF ConnectCb, Post
<1>4. CASE ReconCb(c)
  BY <1>4, PostedWakeup DEF ReconCb, Post
<1>5. CASE DisconCb(c)
  <2>1. CASE esp[c].hooked
    BY <1>5, <2>1, PostedWakeup DEF DisconCb, Post
  <2>2. CASE ~esp[c].hooked
    <3>1. pCon # NoConn => (esp'[pCon].st = "open" => esp[pCon].st = "open")
      BY <1>5 DEF DisconCb, Fresh, TypeOK
    <3> QED
      BY <1>5, <2>2, <3>1, UndisturbedWakeup DEF DisconCb
  <2> QED
    BY <2>1, <2>2
<1>6. CASE SentCb(c)
  BY <1>6, PostedWakeup DEF SentCb, Post
<1>7. ASSUME NEW p \in Inbound, Recv(c, p) PROVE Wakeup'
  <2>1. /\ wifi = "Up" /\ posted' = registered
        /\ UNCHANGED <<wifi, registered, pCon>>
    BY <1>7, Zenon DEF Recv, Post
  <2> QED
    BY <2>1, PostedWakeup
<1>8. CASE RecvNullTopic(c)
  BY <1>8, RestartWakeup DEF RecvNullTopic
<1> QED
  BY <1>1, <1>2, <1>3, <1>4, <1>5, <1>6, <1>7, <1>8 DEF Callback

LEMMA StepWakeup == TypeOK /\ Link /\ Wakeup /\ [Next]_vars => Wakeup'
<1> SUFFICES ASSUME TypeOK, Link, Wakeup, [Next]_vars PROVE Wakeup'
  OBVIOUS
<1>1. CASE StaConnected
  BY <1>1 DEF StaConnected, MqttDisconnect, Post, Wakeup, Registered, NoLostWakeup
<1>2. CASE StaDisconnected
  BY <1>2 DEF StaDisconnected, MqttDisconnect, Post, Wakeup, Registered, NoLostWakeup
<1>3. CASE StaGotIp
  <2>1. registered' = TRUE /\ posted' = TRUE
    BY <1>3 DEF StaGotIp
  <2> QED
    BY <2>1 DEF Wakeup, Registered, NoLostWakeup
<1>4. CASE DnsExpire
  BY <1>4 DEF DnsExpire, Wakeup, Registered, NoLostWakeup
<1>5. ASSUME NEW c \in Conns, Callback(c) PROVE Wakeup'
  BY <1>5, CallbackWakeup
<1>6. CASE Timer
  <2>1. UNCHANGED <<wifi, registered, pCon, esp>> /\ wifi = "Up"
    BY <1>6 DEF Timer, Link, TimerFollowsLink
  <2>2. CASE posted' = registered
    BY <2>1, <2>2, PostedWakeup
  <2>3. CASE UNCHANGED <<connState, posted>>
    BY <2>1, <2>3, UndisturbedWakeup
  <2>4. posted' = registered \/ UNCHANGED <<connState, posted>>
    BY <1>6, Zenon DEF Timer, CountKeepAlive, CountReconnect, Post
  <2> QED
    BY <2>2, <2>3, <2>4
<1>7. CASE MqttTask
  <2>1. CASE TaskReconnect
    <3>1. connState' = "TCP_CONNECTING" /\ UNCHANGED <<wifi, registered>> /\ registered
      BY <2>1 DEF TaskReconnect, MqttConnect, Link, ParkedWithoutLink, Wakeup, Registered
    <3> QED
      BY <3>1 DEF Wakeup, Registered, NoLostWakeup
  <2>2. CASE TaskDisconnect
    <3>1. pCon # NoConn => esp'[pCon].st # "open"
      BY <2>2 DEF TaskDisconnect, EspDisconnect, TypeOK
    <3> QED
      BY <2>2, <3>1 DEF TaskDisconnect, Wakeup, Registered, NoLostWakeup
  <2>3. CASE TaskDelete
    BY <2>3 DEF TaskDelete, Wakeup, Registered, NoLostWakeup
  <2>4. CASE TaskKeepAlive
    <3>1. wifi = "Up"
      BY <2>4 DEF TaskKeepAlive, Link, ParkedWithoutLink
    <3> QED
      BY <2>4, <3>1, PostedWakeup DEF TaskKeepAlive, Post
  <2>5. CASE TaskSend
    BY <2>5 DEF TaskSend, Wakeup, Registered, NoLostWakeup
  <2>6. CASE TaskIdle
    BY <2>6 DEF TaskIdle, Wakeup, Registered, NoLostWakeup
  <2> QED
    BY <1>7, <2>1, <2>2, <2>3, <2>4, <2>5, <2>6 DEF MqttTask
<1>8. CASE AppPublish
  <2>1. posted' = posted \/ posted' = registered
    BY <1>8, Zenon DEF AppPublish, Post
  <2>2. UNCHANGED <<wifi, registered, connState, pCon, esp>>
    BY <1>8 DEF AppPublish
  <2> QED
    BY <2>1, <2>2, UndisturbedWakeup
<1>9. CASE UNCHANGED vars
  BY <1>9 DEF vars, Wakeup, Registered, NoLostWakeup
<1> QED
  BY <1>1, <1>2, <1>3, <1>4, <1>5, <1>6, <1>7, <1>8, <1>9 DEF Next, Wifi

(* Whenever the client waits for the task to reconnect, to send a PINGREQ  *)
(* or to close its connection, the task has been posted, although its queue*)
(* has one slot and most posts find it taken.                              *)
THEOREM WakeupNeverLost == Spec => []NoLostWakeup
<1>1. Init => Wakeup
  BY DEF Init, Wakeup, Registered, NoLostWakeup
<1>2. TypeOK /\ Link /\ Wakeup /\ [Next]_vars => Wakeup'
  BY StepWakeup
<1>3. Wakeup => NoLostWakeup
  BY DEF Wakeup
<1> QED
  BY <1>1, <1>2, <1>3, LinkInvariant, PTL DEF Spec

-----------------------------------------------------------------------------
(* CONNACK.                                                                *)

LEMMA StepConnack == ConnackIsExpected /\ [Next]_vars => ConnackIsExpected'
<1> SUFFICES ASSUME ConnackIsExpected, [Next]_vars PROVE ConnackIsExpected'
  OBVIOUS
<1> USE DEF ConnackIsExpected
<1>1. CASE Wifi
  <2>1. connState' \in {"TCP_DISCONNECTING", "TCP_CONNECTING"}
    BY <1>1 DEF Wifi, StaConnected, StaDisconnected, StaGotIp, MqttDisconnect, MqttConnect
  <2> QED
    BY <2>1
<1>2. CASE DnsExpire
  BY <1>2 DEF DnsExpire
<1>3. ASSUME NEW c \in Conns, Callback(c) PROVE ConnackIsExpected'
  <2>1. Restart => ConnackIsExpected'
    BY DEF Restart
  <2>2. CASE ConnectCb(c)
    BY <2>2 DEF ConnectCb
  <2>3. CASE \E p \in Inbound : Recv(c, p)
    <3>1. pendingType' = pendingType /\ connState' \in {connState, "MQTT_DATA"}
      BY <2>3, Zenon DEF Recv, RecvConnack, RecvData
    <3> QED
      BY <3>1
  <2>4. CASE DnsFailed(c) \/ DnsFound(c)
    <3>1. \/ Restart
          \/ connState' \in {"TCP_RECONNECT_REQ", "TCP_CONNECTING"}
          \/ UNCHANGED <<connState, pendingType>>
      BY <2>4, Zenon DEF DnsFailed, DnsFound
    <3> QED
      BY <2>1, <3>1
  <2>5. CASE ReconCb(c) \/ DisconCb(c) \/ SentCb(c)
    BY <2>5 DEF ReconCb, DisconCb, SentCb
  <2>6. CASE RecvNullTopic(c)
    BY <2>1, <2>6 DEF RecvNullTopic
  <2> QED
    BY <1>3, <2>2, <2>3, <2>4, <2>5, <2>6 DEF Callback
<1>4. CASE Timer
  BY <1>4 DEF Timer, CountKeepAlive, CountReconnect
<1>5. CASE MqttTask
  BY <1>5 DEF MqttTask, TaskReconnect, MqttConnect, TaskDisconnect, TaskDelete,
              TaskKeepAlive, TaskSend, TaskIdle
<1>6. CASE AppPublish
  BY <1>6 DEF AppPublish
<1>7. CASE UNCHANGED vars
  BY <1>7 DEF vars
<1> QED
  BY <1>1, <1>2, <1>3, <1>4, <1>5, <1>6, <1>7 DEF Next

(* While the client waits for CONNACK its pending message is CONNECT, so   *)
(* a CONNACK is never taken for an invalid packet.                         *)
THEOREM ConnackNeverInvalid == Spec => []ConnackIsExpected
<1>1. Init => ConnackIsExpected
  BY DEF Init, ConnackIsExpected
<1>2. ConnackIsExpected /\ [Next]_vars => ConnackIsExpected'
  BY StepConnack
<1> QED
  BY <1>1, <1>2, PTL DEF Spec

-----------------------------------------------------------------------------
(* Without an overlap of the old connection and the new one.               *)

(* What is under way is pCon's: a DNS request, and then the connection. A  *)
(* connection that was made has its callbacks, so none of them ends unseen;*)
(* and the client waits to connect again, or frees the object, only when   *)
(* nothing is left.                                                        *)
Waiting == {"TCP_RECONNECT", "TCP_DISCONNECTED", "TCP_RECONNECT_REQ"}

One ==
  /\ \A c \in Conns : ~Quiet(c) => c = pCon
  /\ \A c \in dns : esp[c].st = "idle"
  /\ \A c \in Conns : esp[c].st \in {"open", "closing"} => esp[c].hooked
  /\ connState \in Waiting => AllQuiet

Talking == Session \cup {"MQTT_CONNECT_SENDING"}

(* The client talks on an established connection, on which the broker has  *)
(* answered the CONNECT if the client takes the session to be up.          *)
Established ==
  connState \in Talking =>
    /\ pCon # NoConn /\ esp[pCon].st = "open"
    /\ connState \in Session => "CONNACK" \notin esp[pCon].owed

(* An answer is awaited only to a packet that is not acknowledged, and the *)
(* keep-alive counts from the attempt to connect to the tick at which      *)
(* PINGREQ is asked for.                                                   *)
Pace ==
  /\ \A c \in Conns : esp[c].st = "connecting" => ~esp[c].busy
  /\ connState \in Talking /\ sendTimeout # 0 => esp[pCon].busy
  /\ \A c \in Conns : ~Quiet(c) /\ esp[c].st \notin {"open", "closing"}
                        => keepAliveTick <= KeepAlive
  /\ connState \in {"MQTT_CONNECT_SENDING", "MQTT_DATA"} => keepAliveTick <= KeepAlive
  /\ connState = "MQTT_KEEPALIVE_SEND" => keepAliveTick = KeepAlive + 1

SInv == One /\ Established /\ Pace /\ NoStall

(* What MqttClient_proofs has shown.                                       *)
Known == TypeOK /\ Link /\ Wakeup /\ ConnackIsExpected

(* The states by name.                                                     *)
LEMMA NotTalking ==
  /\ "TCP_CONNECTING" \notin Talking \cup Waiting
  /\ "TCP_DISCONNECTING" \notin Talking \cup Waiting
  /\ "TCP_RECONNECT_DISCONNECTING" \notin Talking \cup Waiting
  /\ "WIFI_INIT" \notin Talking \cup Waiting
  /\ Talking \cap Waiting = {}
  /\ "MQTT_DATA" \in Talking /\ "MQTT_CONNECT_SENDING" \in Talking
  /\ "MQTT_KEEPALIVE_SEND" \in Talking
BY DEF Talking, Waiting, Session

(* After a start there is nothing.                                         *)
LEMMA StartedAlone ==
  ASSUME connState = "WIFI_INIT", esp = [c \in Conns |-> Fresh], dns = {}
  PROVE  SInv
BY NotTalking DEF SInv, One, Established, Pace, NoStall, Quiet, AllQuiet, Fresh

LEMMA RestartedAlone == Restart => SInv'
BY NotTalking DEF Restart, SInv, One, Established, Pace, NoStall, Quiet, AllQuiet, Fresh

(* A new attempt to connect, when nothing of the last is left.             *)
LEMMA ConnectAlone ==
  ASSUME TypeOK, AllQuiet, NEW c \in Conns, MqttConnect(c)
  PROVE  SInv'
<1>1. /\ connState' = "TCP_CONNECTING" /\ pCon' = c /\ keepAliveTick' = 0
      /\ dns' \subseteq {c}
      /\ esp' \in [Conns -> Espconn]
      /\ \A d \in Conns : esp'[d].st = "idle" \/ (d = c /\ esp'[d].st = "connecting" /\ dns' = {})
      /\ \A d \in Conns : esp'[d].st = "connecting" => ~esp'[d].busy
  <2>1. dns = {} /\ \A d \in Conns : esp[d].st = "idle"
    BY DEF AllQuiet, Quiet, TypeOK
  <2>2. esp' \in [Conns -> Espconn]
    BY EspConnectType, FreshType DEF MqttConnect, TypeOK
  <2> QED
    BY <2>1, <2>2 DEF MqttConnect, EspConnect, Fresh, TypeOK
<1> HIDE DEF MqttConnect
<1>2. KeepAlive \in Nat
  BY TickAssumption
<1>3. One'
  BY <1>1, NotTalking DEF One, Quiet
<1>4. Established'
  BY <1>1, NotTalking DEF Established
<1>5. Pace'
  BY <1>1, <1>2, NotTalking DEF Pace
<1>6. NoStall'
  BY <1>1 DEF NoStall
<1> QED
  BY <1>3, <1>4, <1>5, <1>6 DEF SInv

(* A step that leaves connection and keep-alive alone, for a state in which*)
(* the client neither talks nor waits.                                     *)
LEMMA SetAside ==
  ASSUME SInv, UNCHANGED <<esp, dns, pCon, keepAliveTick>>,
         connState' \notin Talking \cup Waiting
  PROVE  SInv'
BY NotTalking DEF SInv, One, Established, Pace, NoStall, Quiet, AllQuiet, Talking

(* A connection ends: nothing is left.                                     *)
LEMMA EndsAlone ==
  ASSUME TypeOK, SInv, NEW c \in Conns, esp[c].st # "idle",
         esp' = [esp EXCEPT ![c] = Fresh], UNCHANGED <<dns, pCon>>,
         connState' \notin Talking
  PROVE  SInv'
<1>1. /\ esp' \in [Conns -> Espconn]
      /\ \A d \in Conns : esp'[d].st = "idle"
      /\ dns' = {}
  <2>1. c = pCon /\ c \notin dns /\ \A d \in Conns : d # c => Quiet(d)
    BY DEF SInv, One, Quiet
  <2> QED
    BY <2>1, FreshType DEF TypeOK, Quiet, Fresh
<1>2. One'
  BY <1>1 DEF One, Quiet, AllQuiet
<1>3. Established' /\ Pace' /\ NoStall'
  BY <1>1, NotTalking DEF Established, Pace, NoStall, Quiet
<1> QED
  BY <1>2, <1>3 DEF SInv

(* A DNS request ends, and with an address the connection begins.          *)
LEMMA DnsAlone ==
  ASSUME Known, SInv, NEW c \in Conns, DnsFailed(c) \/ DnsFound(c)
  PROVE  SInv'
<1>1. c \in dns /\ c = pCon /\ pCon # NoConn /\ dns = {c} /\ \A d \in Conns : esp[d].st = "idle"
  <2>1. c \in dns /\ esp[c].st = "idle"
    BY DEF DnsFailed, DnsFound, SInv, One
  <2>2. \A d \in Conns : ~Quiet(d) => d = pCon
    BY DEF SInv, One
  <2> QED
    BY <2>1, <2>2, ConnsAssumption DEF Quiet, Known, TypeOK
<1>2. keepAliveTick <= KeepAlive /\ connState \notin Talking \cup Waiting
  BY <1>1 DEF SInv, Pace, Established, One, AllQuiet, Quiet
<1>3. CASE DnsFailed(c)
  <2>1. UNCHANGED <<esp, pCon>> /\ dns' = {} /\ connState' = "TCP_RECONNECT_REQ"
    BY <1>1, <1>3 DEF DnsFailed
  <2> QED
    BY <1>1, <2>1, NotTalking
    DEF SInv, One, Established, Pace, NoStall, Quiet, AllQuiet, Talking, Session
<1>4. CASE DnsFound(c) /\ ~ip
  <2>1. /\ dns' = {} /\ pCon' = pCon /\ keepAliveTick' = keepAliveTick
        /\ connState' = "TCP_CONNECTING"
        /\ esp' = EspConnect(esp, c)
    <3>1. /\ dns' = dns \ {c} /\ UNCHANGED <<pCon, ticks>> /\ connState' = "TCP_CONNECTING"
          /\ esp' = EspConnect(esp, pCon)
      BY <1>1, <1>4, Zenon DEF DnsFound
    <3> QED
      BY <1>1, <3>1
  <2>2. /\ esp'[c].st = "connecting" /\ ~esp'[c].busy
        /\ \A d \in Conns \ {c} : esp'[d].st = "idle"
    BY <1>1, <2>1 DEF EspConnect, Known, TypeOK, Fresh
  <2> QED
    BY <1>1, <1>2, <2>1, <2>2, NotTalking
    DEF SInv, One, Established, Pace, NoStall, Quiet
<1>5. CASE DnsFound(c) /\ ip
  <2>1. /\ dns' = {} /\ UNCHANGED <<pCon, keepAliveTick, connState, esp>>
    <3>1. dns' = dns \ {c} /\ UNCHANGED <<client, esp>>
      BY <1>1, <1>5, Zenon DEF DnsFound
    <3> QED
      BY <1>1, <3>1
  <2> QED
    BY <1>1, <1>2, <2>1, NotTalking
    DEF SInv, One, Established, Pace, NoStall, Quiet
<1> QED
  BY <1>3, <1>4, <1>5

(* The connection is made, and CONNECT is sent on it.                      *)
LEMMA ConnectedAlone ==
  ASSUME Known, SInv, NEW c \in Conns, ConnectCb(c)
  PROVE  SInv'
<1>1. c = pCon /\ pCon # NoConn /\ c \notin dns /\ dns = {}
  <2>1. esp[c].st = "connecting"
    BY DEF ConnectCb
  <2>2. c = pCon /\ c \notin dns
    BY <2>1 DEF SInv, One, Quiet
  <2>3. \A d \in dns : d = pCon
    BY DEF SInv, One, Quiet, Known, TypeOK
  <2> QED
    BY <2>2, <2>3, ConnsAssumption DEF Known, TypeOK
<1>2. /\ esp'[c].st = "open" /\ esp'[c].hooked /\ esp'[c].busy
      /\ \A d \in Conns \ {c} : esp'[d] = esp[d]
  <2>1. ~esp[c].busy
    BY DEF SInv, Pace, ConnectCb
  <2> DEFINE opened == [esp EXCEPT ![c].st = "open"]
             hooked == [opened EXCEPT ![c].hooked = TRUE]
  <2>2. /\ hooked \in [Conns -> Espconn]
        /\ hooked[c].st = "open" /\ hooked[c].hooked /\ ~hooked[c].busy
        /\ \A d \in Conns \ {c} : hooked[d] = esp[d]
    BY <2>1 DEF Known, TypeOK, Espconn
  <2>3. esp' = EspSend(hooked, c, "CONNECT")
    BY <1>1 DEF ConnectCb
  <2> HIDE DEF hooked
  <2> QED
    BY <1>1, <2>2, <2>3 DEF EspSend, CanSend, Espconn
<1>3. /\ connState' = "MQTT_CONNECT_SENDING" /\ UNCHANGED <<pCon, dns, keepAliveTick>>
  <2>1. connState' = "MQTT_CONNECT_SENDING" /\ UNCHANGED <<pCon, names, ticks>>
    BY Zenon DEF ConnectCb
  <2> QED
    BY <2>1
<1>4. keepAliveTick <= KeepAlive /\ \A d \in Conns : d # c => Quiet(d)
  BY <1>1 DEF SInv, Pace, One, Quiet, ConnectCb
<1>5. One'
  BY <1>1, <1>2, <1>3, <1>4, NotTalking DEF One, Quiet
<1>6. Established'
  BY <1>1, <1>2, <1>3 DEF Established, Session
<1>7. Pace' /\ NoStall'
  BY <1>1, <1>2, <1>3, <1>4 DEF Pace, NoStall, Quiet
<1> QED
  BY <1>5, <1>6, <1>7 DEF SInv

(* The client talks only once the task is registered.                      *)
LEMMA TalksRegistered ==
  ASSUME Known, SInv, connState \in Talking
  PROVE  registered /\ pCon \in Conns /\ esp[pCon].st = "open"
BY DEF Known, Wakeup, Registered, SInv, Established, TypeOK

(* What was sent is acknowledged.                                          *)
LEMMA SentAlone ==
  ASSUME Known, SInv, NEW c \in Conns, SentCb(c)
  PROVE  SInv'
<1>1. /\ esp' = [esp EXCEPT ![c].busy = FALSE] /\ sendTimeout' = 0 /\ posted' = registered
      /\ UNCHANGED <<connState, pCon, dns, keepAliveTick, registered>>
  BY DEF SentCb, Post
<1>2. \A d \in Conns : /\ esp'[d].st = esp[d].st /\ esp'[d].hooked = esp[d].hooked
                       /\ esp'[d].owed = esp[d].owed
                       /\ ~esp[d].busy => ~esp'[d].busy
  BY <1>1 DEF Known, TypeOK, Espconn
<1>3. connState \in Talking => registered /\ pCon \in Conns
  BY TalksRegistered
<1>4. One'
  BY <1>1, <1>2 DEF SInv, One, Quiet, AllQuiet, Known, TypeOK
<1>5. Established'
  BY <1>1, <1>2, <1>3 DEF SInv, Established
<1>6. Pace'
  BY <1>1, <1>2 DEF SInv, Pace, Quiet
<1>7. NoStall'
  BY <1>1, <1>3, NotTalking DEF NoStall
<1> QED
  BY <1>4, <1>5, <1>6, <1>7 DEF SInv

(* A packet arrives; CONNACK begins the session.                           *)
LEMMA RecvAlone ==
  ASSUME Known, SInv, NEW c \in Conns, NEW p \in Inbound, Recv(c, p)
  PROVE  SInv'
<1> DEFINE e == [esp EXCEPT ![c].owed = OwedAfter(c, p)]
<1>1. /\ c = pCon /\ pCon \in Conns /\ pCon # NoConn
      /\ esp[c].st = "open"
  BY ConnsAssumption DEF Recv, SInv, One, Quiet
<1>2. /\ posted' = registered
      /\ UNCHANGED <<pCon, dns, keepAliveTick, sendTimeout, registered>>
  <2>1. posted' = registered /\ UNCHANGED <<registered, pCon, ticks, sendTimeout, names>>
    BY Zenon DEF Recv, Post
  <2> QED
    BY <2>1
<1>3. registered
  BY <1>1 DEF Known, Wakeup, Registered
<1>4. /\ esp' = e
      /\ \/ connState' = connState
         \/ connState = "MQTT_CONNECT_SENDING" /\ connState' = "MQTT_DATA" /\ IsConnack(p)
  <2>1. connState = "MQTT_CONNECT_SENDING" => pendingType = "CONNECT"
    BY DEF Known, ConnackIsExpected
  <2> QED
    BY <2>1, Zenon DEF Recv, RecvConnack, RecvData, e
<1>5. /\ \A d \in Conns : /\ esp'[d].st = esp[d].st /\ esp'[d].hooked = esp[d].hooked
                          /\ esp'[d].busy = esp[d].busy
                          /\ "CONNACK" \in esp'[d].owed => "CONNACK" \in esp[d].owed
      /\ IsConnack(p) => "CONNACK" \notin esp'[c].owed
  BY <1>4 DEF Known, TypeOK, Espconn, OwedAfter, IsConnack
<1> HIDE DEF e
<1>6. One'
  BY <1>2, <1>4, <1>5, NotTalking DEF SInv, One, Quiet, AllQuiet, Known, TypeOK
<1>7. Established'
  BY <1>1, <1>2, <1>4, <1>5, NotTalking DEF SInv, Established
<1>8. Pace'
  BY <1>1, <1>2, <1>4, <1>5, NotTalking DEF SInv, Pace, Quiet
<1>9. NoStall'
  BY <1>2, <1>3 DEF NoStall
<1> QED
  BY <1>6, <1>7, <1>8, <1>9 DEF SInv

(* Every callback of the SDK keeps the invariant.                          *)
LEMMA CallbackAlone ==
  ASSUME Known, SInv, NEW c \in Conns, Callback(c)
  PROVE  SInv'
<1>1. CASE DnsFailed(c) \/ DnsFound(c)
  BY <1>1, DnsAlone
<1>2. CASE ConnectCb(c)
  BY <1>2, ConnectedAlone
<1>3. CASE ReconCb(c)
  BY <1>3, EndsAlone, NotTalking DEF ReconCb, Known, Waiting
<1>4. CASE DisconCb(c)
  <2>1. esp[c].hooked
    BY <1>4 DEF DisconCb, SInv, One
  <2>2. connState' \in {"TCP_DISCONNECTED", "TCP_RECONNECT_REQ"}
    BY <1>4, <2>1 DEF DisconCb
  <2>3. /\ esp[c].st # "idle" /\ esp' = [esp EXCEPT ![c] = Fresh] /\ UNCHANGED <<dns, pCon>>
    BY <1>4 DEF DisconCb
  <2>4. connState' \notin Talking
    BY <2>2, NotTalking DEF Waiting
  <2> QED
    BY <2>3, <2>4, EndsAlone DEF Known
<1>5. CASE SentCb(c)
  BY <1>5, SentAlone
<1>6. ASSUME NEW p \in Inbound, Recv(c, p) PROVE SInv'
  BY <1>6, RecvAlone
<1>7. CASE RecvNullTopic(c)
  BY <1>7, RestartedAlone DEF RecvNullTopic
<1> QED
  BY <1>1, <1>2, <1>3, <1>4, <1>5, <1>6, <1>7 DEF Callback

(* A second goes by.                                                       *)
LEMMA TimerAlone ==
  ASSUME Known, SInv, Timer
  PROVE  SInv'
<1>1. /\ UNCHANGED <<pCon, esp, dns, msgQueue, registered>>
      /\ sendTimeout' = IF sendTimeout > 0 THEN sendTimeout - 1 ELSE 0
  BY DEF Timer
<1>2. /\ sendTimeout \in Nat /\ keepAliveTick \in Nat /\ KeepAlive \in Nat
  BY TickAssumption DEF Known, TypeOK
<1>3. CASE CountKeepAlive
  <2>1. /\ connState = "MQTT_DATA"
        /\ \/ connState' = "MQTT_KEEPALIVE_SEND"
           \/ connState' = "MQTT_DATA" /\ keepAliveTick' <= KeepAlive /\ posted' = posted
        /\ connState' = "MQTT_KEEPALIVE_SEND" => keepAliveTick' = KeepAlive + 1
    BY <1>2, <1>3 DEF CountKeepAlive, NextKeepAliveTick, SInv, Pace
  <2>2. \A d \in Conns : ~Quiet(d) => esp[d].st = "open"
    BY <2>1, TalksRegistered, NotTalking DEF SInv, One
  <2>3. One'
    BY <1>1, <2>1, NotTalking DEF SInv, One, Quiet, AllQuiet
  <2>4. Established'
    BY <1>1, <2>1, NotTalking DEF SInv, Established, Session
  <2>5. Pace'
    BY <1>1, <1>2, <2>1, <2>2, NotTalking DEF SInv, Pace, Quiet
  <2>6. NoStall'
    BY <1>1, <1>2, <2>1, NotTalking DEF SInv, NoStall, Pace, CanSend
  <2> QED
    BY <2>3, <2>4, <2>5, <2>6 DEF SInv
<1>4. CASE CountReconnect
  <2>1. /\ connState = "TCP_RECONNECT_REQ" /\ connState' \in {"TCP_RECONNECT_REQ", "TCP_RECONNECT"}
        /\ keepAliveTick' = keepAliveTick
    BY <1>4 DEF CountReconnect
  <2>2. connState \in Waiting /\ connState' \in Waiting /\ connState' \notin Talking
    BY <2>1, NotTalking DEF Waiting
  <2> QED
    BY <1>1, <2>1, <2>2 DEF SInv, One, Established, Pace, NoStall, Quiet, AllQuiet, Talking, Session
<1>5. CASE /\ connState \notin {"MQTT_DATA", "TCP_RECONNECT_REQ"}
           /\ UNCHANGED <<connState, posted, ticks>>
  BY <1>1, <1>2, <1>5 DEF SInv, One, Established, Pace, NoStall, Quiet, AllQuiet
<1> QED
  BY <1>3, <1>4, <1>5 DEF Timer

(* The client sends a packet other than CONNECT.                           *)
LEMMA SendAlone ==
  ASSUME Known, SInv, connState \in Session,
         connState' \in {"MQTT_DATA", "TCP_RECONNECT_DISCONNECTING"},
         NEW m \in Outbound \ {"CONNECT"},
         esp' = EspSend(esp, pCon, m), UNCHANGED <<pCon, dns>>,
         sendTimeout' # 0,
         keepAliveTick' = keepAliveTick \/ keepAliveTick' = 0,
         connState' = "MQTT_DATA" => keepAliveTick' <= KeepAlive
  PROVE  SInv'
<1>1. /\ pCon \in Conns /\ esp[pCon].st = "open" /\ "CONNACK" \notin esp[pCon].owed
      /\ "CONNACK" \notin Owed(m)
  BY TalksRegistered DEF SInv, Established, Talking, Owed
<1>2. /\ \A d \in Conns : esp'[d].st = esp[d].st /\ esp'[d].hooked = esp[d].hooked
      /\ \A d \in Conns : d # pCon => esp'[d].busy = esp[d].busy
      /\ esp'[pCon].busy
      /\ "CONNACK" \notin esp'[pCon].owed
  <2>1. CASE CanSend(esp, pCon)
    BY <1>1, <2>1 DEF EspSend, Known, TypeOK, Espconn
  <2>2. CASE ~CanSend(esp, pCon)
    <3>1. esp' = esp /\ esp[pCon].busy = TRUE
      BY <1>1, <2>2, ConnsAssumption DEF EspSend, CanSend, Known, TypeOK, Espconn
    <3> QED
      BY <1>1, <3>1
  <2> QED
    BY <2>1, <2>2
<1>3. connState' \notin Waiting
  BY NotTalking
<1>4. \A d \in Conns : ~Quiet(d) => esp[d].st = "open"
  BY <1>1 DEF SInv, One
<1>5. One'
  BY <1>2, <1>3 DEF SInv, One, Quiet, Known, TypeOK
<1>6. Established'
  BY <1>1, <1>2, ConnsAssumption DEF Established
<1>7. Pace'
  BY <1>1, <1>2, <1>4 DEF SInv, Pace, Quiet
<1>8. NoStall'
  BY <1>2 DEF NoStall, CanSend
<1> QED
  BY <1>5, <1>6, <1>7, <1>8 DEF SInv

(* Every case of the task keeps the invariant.                             *)
LEMMA TaskAlone ==
  ASSUME Known, SInv, MqttTask
  PROVE  SInv'
<1>1. CASE TaskReconnect
  <2>1. AllQuiet
    BY <1>1 DEF TaskReconnect, SInv, One, Waiting
  <2>2. PICK c \in Conns : MqttConnect(c)
    BY <1>1 DEF TaskReconnect
  <2> QED
    BY <2>1, <2>2, ConnectAlone DEF Known
<1>2. CASE TaskDisconnect
  <2>1. /\ connState' = connState /\ connState' \notin Talking \cup Waiting
        /\ UNCHANGED <<pCon, dns, keepAliveTick>> /\ esp' = EspDisconnect(esp, pCon)
    BY <1>2, NotTalking DEF TaskDisconnect
  <2>2. \A d \in Conns : /\ esp'[d].hooked = esp[d].hooked /\ esp'[d].busy = esp[d].busy
                         /\ \/ esp'[d].st = esp[d].st
                            \/ esp[d].st = "open" /\ esp'[d].st = "closing"
    BY <2>1 DEF EspDisconnect, Known, TypeOK, Espconn
  <2>3. One'
    BY <2>1, <2>2 DEF SInv, One, Quiet, Known, TypeOK
  <2>4. Established' /\ Pace' /\ NoStall'
    BY <2>1, <2>2, NotTalking DEF SInv, Established, Pace, NoStall, Quiet
  <2> QED
    BY <2>3, <2>4 DEF SInv
<1>3. CASE TaskDelete
  <2>1. AllQuiet
    BY <1>3 DEF TaskDelete, SInv, One, Waiting
  <2>2. /\ connState' \notin Talking /\ UNCHANGED <<esp, dns, connState>>
    BY <1>3 DEF TaskDelete, Talking, Session
  <2>3. dns = {} /\ \A d \in Conns : esp[d].st = "idle"
    BY <2>1 DEF AllQuiet, Quiet, Known, TypeOK
  <2> QED
    BY <2>2, <2>3, NotTalking DEF SInv, One, Established, Pace, NoStall, Quiet, AllQuiet
<1>4. CASE TaskKeepAlive
  <2>1. /\ connState = "MQTT_KEEPALIVE_SEND" /\ sendTimeout' = SendTimeout
        /\ esp' = EspSend(esp, pCon, "PINGREQ") /\ UNCHANGED <<pCon, dns>>
        /\ \/ keepAliveTick' = 0 /\ connState' = "MQTT_DATA"
           \/ connState' = "TCP_RECONNECT_DISCONNECTING" /\ keepAliveTick' = keepAliveTick
    BY <1>4 DEF TaskKeepAlive
  <2>2. "PINGREQ" \in Outbound \ {"CONNECT"} /\ connState \in Session
    BY <2>1 DEF Outbound, Session
  <2>3. SendTimeout # 0 /\ 0 <= KeepAlive
    BY TickAssumption
  <2> QED
    BY <2>1, <2>2, <2>3, SendAlone, NotTalking
<1>5. CASE TaskSend
  <2>1. /\ connState = "MQTT_DATA" /\ connState' = "MQTT_DATA" /\ sendTimeout' = SendTimeout
        /\ esp' = EspSend(esp, pCon, Head(msgQueue)) /\ UNCHANGED <<pCon, dns, keepAliveTick>>
    BY <1>5 DEF TaskSend
  <2>2. Head(msgQueue) \in Queued
    BY <1>5, HeadTailProperties DEF TaskSend, Known, TypeOK
  <2>3. Head(msgQueue) \in Outbound \ {"CONNECT"} /\ connState \in Session
    BY <2>1, <2>2 DEF Outbound, Queued, Session
  <2>4. SendTimeout # 0 /\ keepAliveTick <= KeepAlive
    BY <2>1, TickAssumption DEF SInv, Pace
  <2> QED
    BY <2>1, <2>3, <2>4, SendAlone, NotTalking
<1>6. CASE TaskIdle
  <2>1. UNCHANGED <<esp, dns, pCon, connState, keepAliveTick, sendTimeout, msgQueue>>
    BY <1>6 DEF TaskIdle
  <2>2. connState # "MQTT_DATA" \/ msgQueue = <<>> \/ sendTimeout # 0
    BY <1>6 DEF TaskIdle
  <2> QED
    BY <2>1, <2>2 DEF SInv, One, Established, Pace, NoStall, Quiet, AllQuiet
<1> QED
  BY <1>1, <1>2, <1>3, <1>4, <1>5, <1>6 DEF MqttTask

(* A publication of the relay.                                             *)
LEMMA PublishAlone ==
  ASSUME Known, SInv, AppPublish
  PROVE  SInv'
<1>1. /\ UNCHANGED <<esp, dns, pCon, connState, keepAliveTick, sendTimeout>>
      /\ registered
  BY DEF AppPublish
<1>2. msgQueue' = <<>> \/ posted'
  BY <1>1, Zenon DEF AppPublish, Post
<1> QED
  BY <1>1, <1>2 DEF SInv, One, Established, Pace, NoStall, Quiet, AllQuiet

(* The invariant is kept by every step, if GOT_IP waits for the last       *)
(* callback.                                                               *)
LEMMA StepAlone ==
  ASSUME ~Overlap
  PROVE  Known /\ SInv /\ [Next]_vars => SInv'
<1> SUFFICES ASSUME Known, SInv, [Next]_vars PROVE SInv'
  OBVIOUS
<1>1. CASE StaConnected \/ StaDisconnected
  BY <1>1, SetAside, NotTalking DEF StaConnected, StaDisconnected, MqttDisconnect
<1>2. CASE StaGotIp
  <2>1. PICK c \in Conns : MqttConnect(c)
    BY <1>2 DEF StaGotIp
  <2> QED
    BY <1>2, <2>1, ConnectAlone DEF StaGotIp, Known
<1>3. CASE DnsExpire
  BY <1>3 DEF DnsExpire, SInv, One, Established, Pace, NoStall, Quiet, AllQuiet
<1>4. ASSUME NEW c \in Conns, Callback(c) PROVE SInv'
  BY <1>4, CallbackAlone
<1>5. CASE Timer
  BY <1>5, TimerAlone
<1>6. CASE MqttTask
  BY <1>6, TaskAlone
<1>7. CASE AppPublish
  BY <1>7, PublishAlone
<1>8. CASE UNCHANGED vars
  BY <1>8 DEF vars, SInv, One, Established, Pace, NoStall, Quiet, AllQuiet
<1> QED
  BY <1>1, <1>2, <1>3, <1>4, <1>5, <1>6, <1>7, <1>8 DEF Next, Wifi

(* It holds at all times.                                                  *)
LEMMA AloneInvariant ==
  ASSUME ~Overlap
  PROVE  Spec => [](Known /\ SInv)
<1>1. Init => Known /\ SInv
  BY InitTypeOK, StartedAlone
  DEF Init, Known, Link, TimerFollowsLink, ParkedWithoutLink, Wakeup, Registered,
      NoLostWakeup, ConnackIsExpected
<1>2. (Known /\ SInv) /\ [Next]_vars => (Known /\ SInv)'
  BY StepTypeOK, StepLink, StepWakeup, StepConnack, StepAlone DEF Known
<1> QED
  BY <1>1, <1>2, PTL DEF Spec

-----------------------------------------------------------------------------
(* Whatever is lost, late or refused, the client has at most one connection*)
(* or DNS request under way.                                               *)
THEOREM OneAtATime ==
  ASSUME ~Overlap
  PROVE  Spec => []OneConnection
<1>1. SInv => OneConnection
  <2> SUFFICES ASSUME SInv PROVE OneConnection
    OBVIOUS
  <2>1. {c \in Conns : ~Quiet(c)} \subseteq {pCon}
    BY DEF SInv, One
  <2>2. IsFiniteSet({pCon}) /\ Cardinality({pCon}) = 1
    BY FS_Singleton
  <2>3. Cardinality({c \in Conns : ~Quiet(c)}) <= Cardinality({pCon})
    BY <2>1, <2>2, FS_Subset
  <2> QED
    BY <2>2, <2>3 DEF OneConnection
<1> QED
  BY <1>1, AloneInvariant, PTL

(* No callback ever runs on a connection object that the task has freed.   *)
THEOREM FreedQuiet ==
  ASSUME ~Overlap
  PROVE  Spec => []FreedIsQuiet
<1>1. Known /\ SInv => FreedIsQuiet
  BY DEF SInv, One, Waiting, AllQuiet, FreedIsQuiet, Known, TypeOK
<1> QED
  BY <1>1, AloneInvariant, PTL

(* SUBSCRIBE, PUBLISH and PINGREQ are only sent on an established          *)
(* connection whose CONNECT the broker has answered, with whatever return  *)
(* code.                                                                   *)
THEOREM SessionReal ==
  ASSUME ~Overlap
  PROVE  Spec => []DataInSession
<1>1. SInv => DataInSession
  BY DEF SInv, Established, Talking, DataInSession
<1> QED
  BY <1>1, AloneInvariant, PTL

(* A message that could be sent has the task posted.                       *)
THEOREM NeverStalls ==
  ASSUME ~Overlap
  PROVE  Spec => []NoStall
<1>1. SInv => NoStall
  BY DEF SInv
<1> QED
  BY <1>1, AloneInvariant, PTL

(* In every session PINGREQ is asked for exactly one tick after the        *)
(* interval announced to the broker, through any number of reconnections.  *)
THEOREM KeepAliveKept ==
  ASSUME ~Overlap
  PROVE  Spec => []KeepAliveHonoured
<1>1. Known /\ SInv => KeepAliveHonoured
  BY TickAssumption DEF Known, TypeOK, SInv, Pace, Session, KeepAliveHonoured
<1> QED
  BY <1>1, AloneInvariant, PTL
=============================================================================
