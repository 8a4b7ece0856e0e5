------------------------------ MODULE Commands ------------------------------
(***************************************************************************)
(* The way of a command through the device, byte by byte: a TCP segment    *)
(* with the broker's packets (mqtt_tcpclient_recv in app/mqtt/mqtt.c), the *)
(* payload of a PUBLISH (deliver_publish, mqttDataCb), the frame in it     *)
(* (mqtt_data_trans_to_mcu), the relay's state (mcu_proc in app/user/      *)
(* trans_realtime.c), the messages made in answer, and which of them the   *)
(* queue holds.                                                            *)
(*                                                                         *)
(* No buffer on this way is cleared or terminated: in_buffer holds what    *)
(* earlier segments have left behind the present one, and the text of a    *)
(* command is read on into it.                                             *)
(*                                                                         *)
(* MqttClient has the client around this handler; here it is in a session, *)
(* past its two SUBACKs.  Relay has the pin, the flash and the end of a    *)
(* pulse.                                                                  *)
(***************************************************************************)
EXTENDS HxFrame, MqttMsg

CONSTANTS
  Segments,           \* what the broker puts into one segment: sequences of packets
  g_tmpMQTTSubscr,    \* the device's topics
  g_tmpMQTTPublish,
  SearchReply,        \* the reply to a search: "RMSD," and the names of the device
  QUEUE_BUFFER_SIZE,  \* the bytes of msgQueue
  Rooms               \* how many of them may be free before the queue is put to use

(* Texts of the source, in ASCII.                                          *)
Kg(c) == <<107, 103, 35, c>>                \* "kg#" and a character
Tk(c) == <<116, 107, 35, c>>                \* "tk#"
SearchTopic == <<77, 83, 68, 47, 65>>       \* "MSD/A"
ReplyTopic  == <<77, 83, 68, 47, 66>>       \* "MSD/B"
SearchText  == <<70, 77, 83, 68, 44>>       \* "FMSD,"

-----------------------------------------------------------------------------
(* The broker and the controllers (external).  A packet is a record: a     *)
(* command, a search, a PUBLISH with another text, or some other packet;   *)
(* no SUBACK or UNSUBACK, since nothing is left to be answered by one.     *)

Lower(text) == [i \in DOMAIN text |-> IF text[i] \in 65..90 THEN text[i] + 32 ELSE text[i]]

CommandText(p) ==
  LET text == sbufEncode(CreateFrame(p.flag, p.parm, p.crc))
  IN  IF p.lower THEN Lower(text) ELSE text

Wire(p) ==
  CASE p.kind = "command" -> PublishMsg(g_tmpMQTTSubscr, CommandText(p), p.qos, p.id)
    [] p.kind = "search"  -> PublishMsg(SearchTopic, SearchText, 0, 0)
    [] p.kind = "text"    -> PublishMsg(g_tmpMQTTSubscr, p.text, 0, 0)
    [] p.kind = "ack"     -> AckMsg(p.type, p.id)
    [] p.kind = "ping"    -> PingMsg(p.type)

IsPublish(p) == p.kind \in {"command", "search", "text"}

(* A text that is not the beginning of a frame, whatever lies behind it.   *)
Harmless(text) ==
  text # <<>> => \A low \in 0..255 :
    (Len(text) > 1 => low = DigitValue(Upper(text[2])))
    => Or((16 * DigitValue(Upper(text[1]))) % 256, low) # 170

(* What two bytes hold.                                                    *)
Ids == 0..65535

Packets ==
  [kind : {"command"}, flag : Seq(1..255), parm : Seq(0..255), crc : BOOLEAN,
   lower : BOOLEAN, qos : 0..2, id : Ids]
  \cup [kind : {"search"}]
  \cup [kind : {"text"}, text : Seq(1..255)]
  \cup [kind : {"ack"}, type : {PUBACK, PUBREC, PUBREL, PUBCOMP}, id : Ids]
  \cup [kind : {"ping"}, type : {PINGREQ, PINGRESP}]

(* What the broker sends is sent in one piece.                             *)
ASSUME SegmentsAssumption ==
  \A s \in Segments : s \in Seq(Packets) /\ \A i \in DOMAIN s :
    /\ Wire(s[i]) # <<>>
    /\ s[i].kind = "command" => Len(s[i].flag) <= 255 /\ Len(s[i].parm) <= 65535
    /\ s[i].kind = "text" => Harmless(s[i].text)

(* The device's topic is not one that a search could have.                 *)
ASSUME TopicsAssumption ==
  /\ g_tmpMQTTSubscr \in Seq(1..255) /\ g_tmpMQTTPublish \in Seq(1..255)
  /\ SearchReply \in Seq(0..255)
  /\ \E i \in DOMAIN g_tmpMQTTSubscr : i <= 5 /\ g_tmpMQTTSubscr[i] # SearchTopic[i]
  /\ g_tmpMQTTPublish \notin {<<>>, ReplyTopic}

(* The states, as frames of 11 bytes in hexadecimal text, and the reply    *)
(* fit into out_buffer.                                                    *)
ASSUME AnswersAssumption ==
  Len(g_tmpMQTTPublish) + 27 <= MQTT_BUF_SIZE /\ Len(SearchReply) + 10 <= MQTT_BUF_SIZE

ASSUME QueueAssumption == QUEUE_BUFFER_SIZE \in Nat /\ Rooms \subseteq 0..QUEUE_BUFFER_SIZE

-----------------------------------------------------------------------------
VARIABLES
  in_buffer,  \* as far as it has been written to
  pdata,      \* what is left of the segment being handled
  g_kg1,      \* the state of the relay in RAM
  msgQueue,   \* held: which of made it holds, by their numbers; room: its free bytes
  made,       \* history: the messages made since the segment has come
  spare,      \* history: what was free then, less what all of made would take
  segment,    \* history: the packets in the segment
  before,     \* history: the state when it has come
  done        \* history: the commands carried out since then

vars == <<in_buffer, pdata, g_kg1, msgQueue, made, spare, segment, before, done>>

Init ==
  /\ in_buffer = <<>> /\ pdata = <<>> /\ g_kg1 \in {0, 1}
  /\ msgQueue = [held |-> {}, room |-> QUEUE_BUFFER_SIZE] /\ spare = QUEUE_BUFFER_SIZE
  /\ made = <<>> /\ segment = <<>> /\ before = g_kg1 /\ done = <<>>

(* What MQTT_Task has taken from the queue meanwhile, and the keep-alive   *)
(* and the button have put in, shows in its room.                          *)
Arrive ==
  /\ pdata = <<>>
  /\ \E s \in Segments :
       /\ segment' = s
       /\ pdata' = FlattenSeq([i \in DOMAIN s |-> Wire(s[i])])
  /\ \E n \in Rooms : msgQueue' = [held |-> {}, room |-> n] /\ spare' = n
  /\ made' = <<>> /\ before' = g_kg1 /\ done' = <<>>
  /\ UNCHANGED <<in_buffer, g_kg1>>

-----------------------------------------------------------------------------
(* os_memcpy to the beginning of a buffer.                                 *)
Over(new, old) == new \o SubSeq(old, Len(new) + 1, Len(old))

Bytes(b, at, n) == [i \in 1..n |-> Byte(b, at + i - 1)]

(* What handling a packet comes to: the buffer, the state, the message to  *)
(* be queued and the commands carried out.                                 *)
Nothing(b) == [buf |-> b, kg1 |-> g_kg1, msg |-> <<>>, did |-> <<>>]

(* kgDevStatus and tkDevStatus with mqttSendBuff: the message that tells b.*)
Status(flag, b) == PublishMsg(g_tmpMQTTPublish, sbufEncode(CreateFrame(flag, <<b>>, TRUE)), 0, 0)

(* Faulty: the channel is taken for the state.                             *)
McuProcChannel(cache, f) ==
  LET Param(i) == ByteAt(cache, f.parameter + i)
      Becomes(b, flag) == [kg1 |-> b, msg |-> Status(flag, b)]
  IN  CASE f.flag \in {Kg(49), Kg(50)} -> Becomes(Param(0), Kg(97))
        [] f.flag \in {Tk(49), Tk(50)} -> Becomes(1, Tk(97))
        [] f.flag = Tk(48) -> Becomes(g_kg1, Tk(97))
        [] OTHER -> Becomes(g_kg1, Kg(97))

(* mcu_proc, for the frame f in cache: the state it commands, and the      *)
(* message that tells it.  The length of the parameters is not looked at.  *)
McuProc(cache, f) ==
  LET Param(i) == ByteAt(cache, f.parameter + i)
      Becomes(b, flag) == [kg1 |-> b, msg |-> Status(flag, b)]
  IN  CASE f.flag = Kg(48) -> Becomes(g_kg1, Kg(97))
        [] f.flag = Kg(49) -> Becomes(Param(0), Kg(97))
        [] f.flag = Kg(50) /\ Param(0) = 0 -> Becomes(Param(1), Kg(97))
        [] f.flag = Tk(48) -> Becomes(g_kg1, Tk(97))
        [] f.flag = Tk(49) -> Becomes(1, Tk(97))
        [] f.flag = Tk(50) /\ Param(0) = 0 -> Becomes(1, Tk(97))
        [] OTHER -> [kg1 |-> g_kg1, msg |-> <<>>]

(* mqtt_data_trans_to_mcu.  sbufDecode turns the text into capitals where  *)
(* it lies; debuf, which it decodes to, has been cleared.                  *)
TransToMcu(b, at) ==
  LET cache == sbufDecode(From(b, at))
      f     == GetFrame(cache)
      left  == SubSeq(b, 1, at) \o Capitals(From(b, at))
      Done(r) ==
        [buf |-> left, kg1 |-> r.kg1, msg |-> r.msg,
         did |-> <<[flag |-> f.flag, parm |-> Bytes(cache, f.parameter, f.parameter_len)]>>]
  IN  IF f.ok THEN Done(McuProc(cache, f)) ELSE Nothing(left)

(* deliver_publish and mqttDataCb                                          *)
Deliver(b, len) ==
  LET topic == PublishTopic(b, len)
      data  == PublishData(b, len)
      Said(msg) == [buf |-> b, kg1 |-> g_kg1, msg |-> msg, did |-> <<>>]
  IN  IF Bytes(b, topic.at, 5) = SearchTopic
      THEN IF data.length >= 4 /\ Bytes(b, data.at, 5) = SearchText
           THEN Said(PublishMsg(ReplyTopic, SearchReply, 0, 0))
           ELSE Nothing(b)
      ELSE IF /\ Bytes(b, topic.at, topic.length) = Bytes(g_tmpMQTTSubscr, 0, topic.length)
              /\ data.length > 0
      THEN TransToMcu(b, data.at)
      ELSE Nothing(b)

(* The packets that reach the case of PUBLISH: a SUBACK or UNSUBACK that   *)
(* answers nothing falls through to it.                                    *)
Delivers(type) == type \in {PUBLISH, SUBACK, UNSUBACK}

(* What is queued for a packet before it is handed to the application.     *)
Ack(b) ==
  LET id == GetId(b, MQTT_BUF_SIZE)
  IN  CASE Delivers(GetType(b)) /\ GetQos(b) = 1 -> AckMsg(PUBACK, id)
        [] Delivers(GetType(b)) /\ GetQos(b) = 2 -> AckMsg(PUBREC, id)
        [] GetType(b) = PUBREC  -> AckMsg(PUBREL, id)
        [] GetType(b) = PUBREL  -> AckMsg(PUBCOMP, id)
        [] GetType(b) = PINGREQ -> PingMsg(PINGRESP)
        [] OTHER -> <<>>

-----------------------------------------------------------------------------
(* The queue (MsgQueue has its bytes), for the n-th message m of a segment;*)
(* a message of length 0 is not queued.                                    *)
More(box, m) == IF m = <<>> THEN box ELSE Append(box, m)

(* PROTO_AddRb: two bytes around a message, one before each that is escaped*)
FrameLength(m) ==
  IF m = <<>> THEN 0 ELSE Len(m) + 2 + Cardinality({i \in DOMAIN m : m[i] \in 125..127})

Put(q, n, m) == [held |-> q.held \cup {n}, room |-> q.room - FrameLength(m)]

(* QUEUE_Puts in mqtt_tcpclient_recv, which does not look at the result: in*)
(* a full queue the beginning of a frame is left, up to the last free byte.*)
Answered(q, n, m) ==
  IF m = <<>> THEN q
  ELSE IF FrameLength(m) <= q.room THEN Put(q, n, m) ELSE [q EXCEPT !.room = 0]

(* Faulty: a message that does not fit is given up.                        *)
PublishedOnce(q, n, m) == {Answered(q, n, m)}

(* MQTT_Publish: the oldest messages are dropped, those from before the    *)
(* segment first, until this one fits; or all are and this one is lost too.*)
Published(q, n, m) ==
  IF m = <<>> \/ FrameLength(m) <= q.room THEN {Answered(q, n, m)}
  ELSE {[held |-> {i \in q.held : i > k} \cup {n}, room |-> r] :
          k \in 0..n, r \in {x \in Rooms : x + FrameLength(m) <= QUEUE_BUFFER_SIZE}}
       \cup {[held |-> {}, room |-> QUEUE_BUFFER_SIZE]}

-----------------------------------------------------------------------------
(* Faulty: the bytes after the packet are not looked at.                   *)
RestNone(b, len) == <<>>

(* What the loop goes on with: only behind a PUBLISH are the bytes that    *)
(* follow in the segment taken for a packet.                               *)
Rest(b, len) ==
  IF GetType(b) = PUBLISH /\ TotalLength(b, len) < len THEN From(pdata, TotalLength(b, len))
  ELSE <<>>

(* Faulty: the last byte of in_buffer, which is 0, is used as well.        *)
HoldsAll(n) == n <= MQTT_BUF_SIZE

Holds(n) == n < MQTT_BUF_SIZE

(* One round of READPACKET.                                                *)
ReadPacket ==
  /\ pdata # <<>> /\ Holds(Len(pdata))
  /\ LET b == Over(pdata, in_buffer)
         r == IF Delivers(GetType(b)) THEN Deliver(b, Len(pdata)) ELSE Nothing(b)
         acked == More(made, Ack(b))
     IN  /\ in_buffer' = r.buf
         /\ g_kg1' = r.kg1
         /\ made' = More(acked, r.msg)
         /\ msgQueue' \in Published(Answered(msgQueue, Len(acked), Ack(b)), Len(made'), r.msg)
         /\ spare' = spare - FrameLength(Ack(b)) - FrameLength(r.msg)
         /\ done' = done \o r.did
         /\ pdata' = Rest(b, Len(pdata))
  /\ UNCHANGED <<segment, before>>

(* A segment that does not fit is thrown away, all its packets.            *)
TooLong ==
  /\ ~Holds(Len(pdata))
  /\ pdata' = <<>>
  /\ UNCHANGED <<in_buffer, g_kg1, msgQueue, made, spare, segment, before, done>>

Next == Arrive \/ ReadPacket \/ TooLong

Spec == Init /\ [][Next]_vars

-----------------------------------------------------------------------------
(* Types.  A byte of in_buffer is left over, so that what reads on behind a*)
(* text finds a 0 within the buffer.                                       *)
TypeOK ==
  /\ in_buffer \in Seq(0..255) /\ Len(in_buffer) < MQTT_BUF_SIZE
  /\ pdata \in Seq(0..255)
  /\ g_kg1 \in 0..255 /\ before \in 0..255
  /\ segment \in Segments \cup {<<>>}
  /\ made \in Seq(Seq(0..255))
  /\ \A i \in DOMAIN made : Len(made[i]) <= MQTT_BUF_SIZE
  /\ msgQueue \in [held : SUBSET DOMAIN made, room : 0..QUEUE_BUFFER_SIZE] /\ spare \in Int

Length(s) == Len(FlattenSeq([i \in DOMAIN s |-> Wire(s[i])]))

(* The packets that the device takes notice of: all, up to the first that  *)
(* is not a PUBLISH.                                                       *)
Taken(s) ==
  LET others == {i \in DOMAIN s : ~IsPublish(s[i])}
  IN  IF Length(s) >= MQTT_BUF_SIZE THEN <<>>
      ELSE IF others = {} THEN s ELSE SubSeq(s, 1, Min(others))

Commanded(s) ==
  LET Command(p) == IF p.kind = "command" THEN <<[flag |-> p.flag, parm |-> p.parm]>> ELSE <<>>
  IN  FlattenSeq([i \in DOMAIN Taken(s) |-> Command(Taken(s)[i])])

(* Whatever earlier segments have left in the buffer and whatever follows  *)
(* in this one, the commands carried out are those that were sent, each    *)
(* once, in order and with their parameters; no text that is not a command *)
(* becomes one.                                                            *)
DoneAsSent == IsPrefix(done, Commanded(segment)) /\ (pdata = <<>> => done = Commanded(segment))

(* The broker's reading of a message of the device.                        *)
Reading(m) ==
  LET len   == Len(m)
      topic == PublishTopic(m, len)
      data  == PublishData(m, len)
      text  == Bytes(m, data.at, data.length)
      cache == sbufDecode(text)
      f     == GetFrame(cache)
  IN  IF GetType(m) # PUBLISH THEN [kind |-> "ack", type |-> GetType(m), id |-> GetId(m, len)]
      ELSE IF Bytes(m, topic.at, topic.length) = ReplyTopic
           THEN [kind |-> "reply", text |-> text]
           ELSE [kind |-> "status", flag |-> f.flag,
                 told |-> Bytes(cache, f.parameter, f.parameter_len)]

(* The state that a command asks for, or the one before it, and whether it *)
(* is answered: those for another channel are not.                         *)
Wanted(p, b) ==
  IF p.flag = Kg(49) THEN p.parm[1]
  ELSE IF p.flag = Kg(50) /\ p.parm[1] = 0 THEN p.parm[2]
  ELSE IF p.flag = Tk(49) \/ (p.flag = Tk(50) /\ p.parm[1] = 0) THEN 1
  ELSE b

IsAnswered(p) ==
  \/ p.flag \in {Kg(48), Kg(49), Tk(48), Tk(49)}
  \/ p.flag \in {Kg(50), Tk(50)} /\ p.parm[1] = 0

Acked(type, id) == <<[kind |-> "ack", type |-> type, id |-> id]>>

Told(p, b) ==
  IF ~IsAnswered(p) THEN <<>>
  ELSE <<[kind |-> "status", flag |-> IF p.flag[1] = 107 THEN Kg(97) ELSE Tk(97),
          told |-> <<Wanted(p, b)>>]>>

(* What should be answered to a packet that comes when the state is b, and *)
(* the state behind it.                                                    *)
Answer(p, b) ==
  CASE p.kind = "command" ->
         (IF p.qos = 0 THEN <<>> ELSE Acked(IF p.qos = 1 THEN PUBACK ELSE PUBREC, p.id))
         \o Told(p, b)
    [] p.kind = "search" -> <<[kind |-> "reply", text |-> SearchReply]>>
    [] p.kind = "ack" /\ p.type = PUBREC -> Acked(PUBREL, p.id)
    [] p.kind = "ack" /\ p.type = PUBREL -> Acked(PUBCOMP, p.id)
    [] p.kind = "ping" /\ p.type = PINGREQ -> Acked(PINGRESP, 0)
    [] OTHER -> <<>>

States(s, b) ==
  LET Behind[k \in 0..Len(s)] ==
        IF k = 0 THEN b
        ELSE IF s[k].kind = "command" THEN Wanted(s[k], Behind[k - 1]) ELSE Behind[k - 1]
  IN  Behind

Answers(s, b) == [i \in DOMAIN s |-> Answer(s[i], States(s, b)[i - 1])]

(* A command with the parameters that its flag asks for: mcu_proc does not *)
(* look at their number.                                                   *)
IsComplete(p) ==
  p.kind = "command" => /\ p.flag \in {Kg(49), Tk(50)} => Len(p.parm) >= 1
                        /\ p.flag = Kg(50) => Len(p.parm) >= 2

(* If the commands have their parameters, the messages that the device     *)
(* makes for a segment read as they should: the acknowledgement of each    *)
(* packet that wants one, under its id, the reply to each search, and for  *)
(* each command but those for other channels the state that it and the     *)
(* commands before it ask for; in this order, and no others.  Which of them*)
(* a full queue loses, AnswersQueued says.                                 *)
AnswersRead ==
  (\A i \in DOMAIN segment : IsComplete(segment[i])) =>
  LET taken == Taken(segment)
      all   == FlattenSeq(Answers(taken, before))
      read  == [i \in DOMAIN made |-> Reading(made[i])]
  IN  /\ IsPrefix(read, all)
      /\ pdata = <<>> => read = all /\ g_kg1 = States(taken, before)[Len(taken)]

(* "Queue full" costs no message while there is room for all of them.  When*)
(* there is not, an acknowledgement may be lost alone, but a state or a    *)
(* reply only together with all that is older: no old state waits to be    *)
(* told where a newer one has been lost.                                   *)
AnswersQueued ==
  /\ spare >= 0 => msgQueue.held = DOMAIN made
  /\ \A n \in DOMAIN made \ msgQueue.held :
       GetType(made[n]) = PUBLISH => \A i \in msgQueue.held : i > n
=============================================================================
