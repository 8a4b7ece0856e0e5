# Verification of the esp8266-KG1 firmware

TLA+ models, TLC runs and TLAPS proofs for the firmware of the KG1 / TK1 WiFi
switch (`src/esp8266开关固件/esp8266`, below abbreviated to `D/`). The firmware
is a single-processor program on Espressif's non-OS SDK: every SDK callback,
timer handler and task event runs to completion, so *one handler is one action*;
what is open is the order in which the SDK runs them, what the network, the
broker, the browser and the user do, and when the power fails.

## 1. Inventory

| component | state | operations | reached by |
|---|---|---|---|
| MQTT client `D/app/mqtt/mqtt.c` | `MQTT_Client`: connState, pCon, ip, timer, ticks, sendTimeout, pending type and id, queue; a task queue of one slot | connect, DNS, connect, receive, sent, disconnect and error callbacks, the 1 s timer, the task, Publish, Subscribe | WiFi events and the publications of `trans_realtime.c` |
| message queue `queue.c`, `proto.c` | frames in the byte ring | Puts, Gets; the drop-the-oldest loop of `mqtt.c` | the client |
| byte ring `ringbuf.c` | buffer, two pointers, fill count | Put, Get | the queue |
| MQTT codec `mqtt_msg.c` | `in_buffer`, never cleared | build and take apart messages | the client |
| relay `trans_realtime.c`, `user_main.c` | g_kg1, GPIO2, the DevStatus sector, the pulse timer | commands kg#0..2, tk#0..2, short press, timer, power-up | MQTT commands, the button |
| hx-net frames `hxnet-protocol.c`, `hx-crc.h`, `sbufhex.c` | none | encode, decode, CRC, hex text | relay commands and answers |
| settings `user_main.c`, `webPageAP.c`, `JsonErrAP.c`, `uwork.c` | the sectors JSON, DevConfig, UserFix; restart and reset flags; the boot mode | boot, factory reset, user reset, the saving pages, restart timer | the web pages, the long press, power-up |
| button `key.c` | pin, interrupt mode, key_level, two timers | interrupt, debounce, long press | the relay (short press), the settings (long press) |
| web server `http_serv.c`, `webPageAP.c`, `JsonErrAP.c` | the request cache, one list of response chunks, one connection pointer, the number of the index page | accept, receive, sent, disconnect and error callbacks, the pages | a browser |
| forms `http_serv.c`, `urlcode.c` | none | split a URL, find a parameter, decode it | the saving pages |

What makes it hard: a task queue with a single slot; a client structure that
is wiped at every GOT_IP while callbacks of the old connection may still come;
a DNS answer that may be cached, late or for another attempt; a queue that
stops in the middle of a message when it is full; a receive buffer that is never
cleared and read past what has arrived; flash sectors that are erased before they
are written; a restart and a reset that hang on a later disconnect callback, of
whichever connection; one response list and one request cache for all
connections, refused and broken ones included; a key that bounces while its
interrupt is being re-armed. `PROJECT.json` lists these hazards at their lines,
with the properties that cover them.

What makes each correct: the client always gets back into a session, asks for a PINGREQ when
it is due, never has two connections, frees nothing in use and forgets no request for the
task; the queue hands out whole messages in order; the ring is a queue of bytes; the commands
carried out are those sent, and answered; pin, RAM, flash and publications of the relay agree;
the settings in use were entered under the JSON in force, and as they were typed, and are put
to use; the button resets only when it is held; a browser gets the answer to its own request
and the server cannot be locked out.

## 2. Modules

| module | models |
|---|---|
| `MqttPackets` | the packets, as far as the client's control flow tells them apart |
| `QueueRules` | what is put into the queue and what is dropped for it, in whole messages |
| `MsgFifo` | abstract: the queue that `MQTT_Task` relies on, by these rules |
| `MqttClient` | the client with its environment (WiFi, DNS, TCP, broker) |
| `MqttClient_proofs` | proofs about it: with any overlap of old and new connection, and without |
| `ByteFifo` | abstract: a bounded queue of bytes |
| `RingBuf`, `RingBuf_proofs` | `ringbuf.c`, proved to implement `ByteFifo` |
| `MsgQueue`, `MsgQueue_proofs` | `queue.c` and `proto.c` over the ring's content, proved to implement `MsgFifo` |
| `HxFrame` | hx-net frames, CRC and hex text, as functions on bytes |
| `MqttMsg` | MQTT messages, as functions on bytes |
| `Commands`, `Commands_proofs` | a TCP segment through the device: packets, frames, the relay's state, the answers |
| `Relay` | the relay with power failures |
| `Key` | the button |
| `Device`, `Device_proofs` | `Relay` and `Key` on one processor; proofs about both |
| `Settings`, `Settings_proofs` | flash, boot modes, saves and resets |
| `UrlText` | a typed text from the form to the arrays of the settings, as functions on characters |
| `WebServer`, `WebServer_proofs` | the server of the configuration pages; proofs about it and about `UrlText` |
| `RecursionLemmas` | what the proofs about recursive functions on sequences share |
| `MCMqttClient`, `MCMsgQueue`, `MCWebServer`, `MCCommands` | constants, symmetry and inputs for TLC |

How they compose. The chain client - queue - ring is layered: `MqttClient` holds its queue as
a sequence of messages and changes it only through the operators of `QueueRules`; `MsgQueue`
works on the sequence of bytes in the ring and implements `MsgFifo`, the queue that changes by
the same operators and is read at its head (`QueueImplementsFifo`, for all messages and every
size); `RingBuf` implements the queue of bytes (`RingImplementsFifo`, for every size).
`Device` is `Relay` and `Key` together: each of its steps is a step of one and a stutter of
the other, but for the release that switches the relay, the long press, the power failure and
the passing of time, which are steps of both; that it implements both is proved
(`DeviceIsRelay`, `DeviceIsKey`). `Commands` puts `MqttMsg` and `HxFrame` behind each other
the way `mqtt_tcpclient_recv` does. The rest share events: a long press of `Key` is
`LongPress` of `Settings`; a publication of `Relay` is `AppPublish` of `MqttClient`; the end
of a connection in `WebServer` is `Disconnect` or `Break` of `Settings`.

### MqttClient

The variables are the fields of `mqttClient` under their own names, `posted` (the
one slot of `mqtt_procTaskQueue`), `registered` (the task exists), `wifi`, and the
environment: `esp` (each espconn object: idle, connecting, open or closing; whether
the data callbacks are registered; whether a packet is unacknowledged; what the
broker owes), `dns` and `cached` (requests under way; the name is in the SDK's
table). Each callback, timer handler and case of `MQTT_Task` is an action named
after it. `StaGotIp` is the whole branch of `wifi_handle_event_cb`: the `memset` of
`MQTT_InitConnection`, `MQTT_InitClient` and `MQTT_Connect`. Allocation picks any
object nobody refers to, so the address of a freed object may be used again.

The environment, as the code's use of the SDK takes it to be: `espconn_connect`
fails on an object in use, `espconn_disconnect` on one that is not open,
`espconn_send` without a connection or while the previous packet is not
acknowledged; positive network events need the link; there is one GOT_IP for each
association; the broker speaks first with a CONNACK, which accepts or refuses (`REFUSAL`);
one that has refused sends nothing more and in the end closes the connection (`Refused`,
`MustEnd`). The client looks at no return code: it takes either CONNACK for the start of a
session (`RecvConnack`), and leaves it again when the broker closes. An exception (the two places
where a null pointer is read: `mqtt_dns_found` when pCon is NULL, `mqttDataCb` on a
SUBACK taken for a PUBLISH) restarts the device (`Restart`). The client runs only
in the normal work mode, in station mode, so no events of the access point occur.
The constant `Overlap` says whether GOT_IP may come before the last callback of the
old connection.

### MsgQueue

`rb` is the content of the ring, byte by byte. `Puts` stops at the byte that does
not fit and leaves the part it has put, as `PROTO_AddRb` does; `Gets` parses to the
first end mark; `PutsOrDrops` is the loop of `MQTT_Publish` and `MQTT_Subscribe`. The loops over
bytes are recursive functions on the number of bytes done, the loop that drops one on the
number of rounds, so that each can be reasoned about round by round.
The messages are whole MQTT packets no longer than the buffers (`BufSize`).

### Commands, HxFrame, MqttMsg

`Arrive` is a TCP segment of the broker, some packets in one; `ReadPacket` is one
round of the loop behind READPACKET with everything it calls, down to `mcu_proc` and
the messages it makes and queues; `TooLong` is a segment that does not fit. `in_buffer` keeps
what earlier segments have left behind the present one: the text of a command is read
on into it, and `sbufDecode` turns letters into capitals where they lie. Bytes are
numbers; frames, checksums, remaining lengths and hex digits are computed as the code
computes them. What is put together (`CreateFrame`, `sbufEncode`, `PublishMsg`) and
taken apart (`GetFrame`, `sbufDecode`, `PublishTopic`, ...) are separate definitions
from separate functions of the source; the broker and the controllers use the former
for what they send and the latter for what they read. C's `|` and `^` are written out
digit by digit (`Or`, `Xor`), because the bitwise operators of the library have no meaning
to the prover.

The queue is here the set of those messages of the segment that it holds, by their numbers
(`held`), and its free bytes (`room`); its bytes one by one are in `MsgQueue`. `MQTT_Task`
does not run within the callback, so while a segment is handled nothing is taken off but by
`MQTT_Publish`. `Answered` is `QUEUE_Puts` for an acknowledgement, whose result the code does
not look at: in a full queue the beginning of its frame takes the last free bytes.
`Published` is the loop of `MQTT_Publish`: the oldest messages go, those from before the
segment first, until the new one fits, or all go and it is lost as well. How much room it
finds (`Rooms`), the loop leaves open, and so does `Arrive`, for what was queued before.
A SUBACK or UNSUBACK that misses its request falls through to the case of PUBLISH
(`Delivers`), as in `MqttClient`; past its two SUBACKs nothing is left for one to answer,
and the broker sends none.

Five assumptions say what is sent and how long things are. `QueueAssumption`: the room is
no more than the queue has bytes. `SegmentsAssumption`: a segment is a sequence of
whole packets, the lengths in a frame and in a packet fit their fields, and a text
that is no command is `Harmless`: its first two characters, or a single one with whatever
lies behind it, do not decode to 0xAA, the first byte of a frame. Without the last, a text
that is the beginning of a command could be completed by what an earlier segment has left
behind it in `in_buffer`. `TopicsAssumption`: the device's topic is not "MSD/A", the one of
the searches, up to its fifth character, and the one it publishes on is not "MSD/B", the one
of its replies, which a reader could not tell apart. `BufSizeAssumption`: a remaining length
takes at most two bytes, which is what `fini_message` writes. `AnswersAssumption`: the
messages of the device, a state of 22 characters and the reply to a search, fit `out_buffer`;
`fail_message` makes one that does not fit a message of length 0, which is not queued.

`AnswersRead` reads the messages made for a segment as the broker would, with the
definitions that take messages and frames apart (`Reading`), and compares them with what is
due for the packets (`Answer`), beginning with the state in which the segment has found the
relay (the history variable `before`). It is about commands that have the parameters their
flag asks for (`IsComplete`): `mcu_proc` does not look at their number and takes what lies
in their place in `debuf`, the end of the frame or the zeros behind it. Made is not queued:
a segment may ask for more answers than the queue has bytes (70 searches fit into
`in_buffer`, their replies not into 2048 bytes). What is lost then is the subject of
`AnswersQueued`; the history variable `spare` says whether there was room for all.

### Relay, Key, Device

`SetBegin` and `SetEnd` are `kg_setOnOff` up to the erase and from the write on:
only a power failure or the key's interrupt comes in between. A value is a whole
byte: the macro `GPIO_OUTPUT_SET` drives the pin by its lowest bit. The history
variable `due` holds the states that a power-up may restore. In `Key` time advances
in ticks; `key_5s` and `key_50ms` are what the timers have left. An edge the interrupt
is not armed for is lost; the history variable `raced` records that the key moved in
such a moment. In `Device` a handler of the one never runs within a handler of the
other (`Free`), the key may move at any moment, and one tick is a tick for both.

### Settings

A sector's content is what the decisions of the code depend on: which JSON text the sector
JSON holds (0 if it does not parse), which text's CRC is in DevConfig, and for UserFix the
work mode and two of its fields, the router's name and the broker's host, as representatives:
each is empty, or the 0xFF of an erased sector (`Garbage`), or was entered under some JSON
text. The forms read the sector and put in the work mode and the parameters they are given;
one that is missing or empty leaves its field as it was (`Submitted`, after
`urlGetParameter`), so the 0xFF of a sector whose write has failed, or that a user reset has
copied, goes into the next record. `save-mqtt.json` takes empty fields too. The history
variable `spoilt` says that a write of UserFix has failed and no factory reset has written it
since. The restart timer counts ticks: `web_discon_cb` calls `trRestart` on every
disconnection while the restart is due, and that disarms the timer and arms it anew
(`TrRestart`), so visitors who come and go within a second put the restart off for as long as
they do. A handler that rewrites sectors leaves its flash operations in `todo`; they are
carried out one by one (`Erase`, `Write`, `WriteFails`), and only `PowerLoss` can intervene.
It is assumed that an erase or a write is atomic, that two texts have different CRCs and that
no text is saved twice. Requests that `save.htm` and `config.htm` refuse change nothing.

### WebServer, UrlText

A connection is closed, open or closing. `web_listen` takes another one over its own when
`web_pEspConn` is free, and gives a refused one the same callbacks, as the code does. A
segment goes through `httpServReslovURL`, whose search goes through all of `cacheBuf`, what
earlier requests have left in it included; a request that is found is answered by the action
of its page, with the response in `sendDataList`, whose first chunk is sent at once and each
further one by `web_send_cb`. A device without a JSON (`jsonErr`) serves the one page of
`JsonErrAP.c` instead, with callbacks of the same make. The restart timer counts ticks and is
armed anew by the end of every connection while a restart is due, of refused ones too, as in
`Settings`. A connection may end at any moment by an error (`web_recon_cb` does nothing) or by
the SDK's idle timeout. The history fields of a connection (`own`, `want`, `sent`, `ended`)
record what one that is alone has asked for and was given.

`UrlText` is the way of a field: the browser's encoding of a form, `urlSplit`,
`urlGetParameter`, `urldecode` and the fields of `save.htm`, which are decoded
whether they come from the URL or are the ones stored before. The fields lie in memory
one behind the other (`sta_ssid` and `sta_passwd` of `data_struct.h`, of lengths
`SsidSize` and `PwdSize`); a parameter is copied to its array as it stands in the URL and
decoded where it lies, so a model with two separate texts would miss that one can reach
the other.

## 3. Runs

| run | checks | distinct states | bounds |
|---|---|---|---|
| `mqtt_session` | OneConnection, FreedIsQuiet, DataInSession, NoStall, KeepAliveHonoured | 553 k | 2 objects, names and DNS, every packet of the broker, refusals included, queue of 2, timeouts of 1 and 2 ticks, `Overlap` FALSE |
| `mqtt_overlap` | TypeOK, NoLostWakeup, ParkedWithoutLink, TimerFollowsLink, ConnackIsExpected | 2.8 M | as above with `Overlap` TRUE, queue of 1, one packet |
| `mqtt_reconnect` | Reconnects (liveness) | 10 k | 1 object, IP address |
| `mqtt_names` | Reconnects, *violated* | | 1 object, domain name |
| `mqtt_two_connections` | OneConnection, *violated* | | 2 objects, `Overlap` TRUE |
| `byte_ring` | TypeOK, IsFifo (refinement) | 3.6 k | 3 bytes, size 4 |
| `message_queue` | TypeOK, StartsWithFrame, DropsUpToOneAsLong, SendsTheOldest, IsFifo (refinement) | 913 | 3 messages with frames of 3, 5 and 7 bytes, a ring of 10 |
| `commands` | TypeOK, DoneAsSent, AnswersRead, AnswersQueued | 53 k | 11 segments of 1 to 5 packets, buffers of 153 bytes, a queue of 200, with 0, 64 or 200 free |
| `device` | DTypeOK, StateIsReal, NextPressIsSeen, RestoresLast, PulseEnds (liveness), NoEarlyReset, ResetNeedsHolding | 137 k | KG1 and TK1, values 0..2, pulse 2, long press 5, debounce 2, limit 3 ticks |
| `settings` | TypeOK, SettingsMatchJson, NoGarbageInWork, SaveRestarts, NewJsonTakesEffect, ComesUp (liveness) | 161 k | 2 JSON texts, 2 connections, a restart timer of 2 ticks, every fault |
| `settings_empty_ssid` | WorkHasRouter, *violated* | | an empty SSID |
| `web` | TypeOK, AnswersItsOwn, SavedAsTyped, NotLockedOut, SavedTakesEffect (liveness) | 266 k | 2 connections, a restart timer of 2 ticks, 7 kinds of request, one may come in two segments, pages of 3 chunks, a cache of 5 pieces; texts of up to 3 of 9 characters, three stored before, arrays of 10 and 4 |

Why the bounds are enough.
* `mqtt_*`: a client has one current connection object and, because each attempt
  frees or forgets the last, interference needs one old and one new; two objects make
  it, and DNS requests that outlive their attempt. Timers only compare a counter with a
  limit, so one or two ticks below, at and above it are all cases. A queue of two
  messages is what one CONNACK fills; a queue of one already drops.
* `message_queue`: the ring of 10 bytes holds up to three frames and cuts frames short
  at every place.
* `commands`: any segment follows any other, so each is read over the remains of each.
  The segments have every command, both marks at the end of a frame, small and capital
  letters, texts that are no commands, packets before and behind a PUBLISH, a reply whose
  remaining length is 128 (the first of two bytes), and one segment too long for the
  buffer. The buffer is 1024 bytes in the firmware; 153 puts that boundary and the
  reply within reach. A state takes 29 bytes of the queue, an acknowledgement 6 and the reply
  133: with no room every message is at the limit, with 64 the segment `<<On, Pulse, ...>>`
  fills the queue to the last byte and then overflows it, with 200 the others fit.
* `device`: the order of the three periods is the code's (debounce < limit < long
  press); the value 2 is one that the pin and the flash take differently.
* `settings`: two JSON texts are the one in force and the one that replaces it; a
  third would show nothing new to code that only compares for equality
  (with three, 574,043 states, the run passes too, in three minutes). Two ticks of the
  timer, for it to be armed anew between them.
* `web`: interference is between two connections, one of which may be refused, broken or
  idle; a third would be another of these. A page of three chunks has a first, a middle
  and a last. The cache has room for one request and two thirds of another, so a request
  cut short lies before, under and behind the next. The alphabet of the typed texts has the
  characters with a meaning in a URL (`+ % & = ?` and the blank), two that can be hexadecimal
  digits, and one beyond ASCII. The longest typed text fills its array to the last byte
  when it is encoded (nine characters and the 0 in ten); with one byte less the run fails.

Fairness.
* `mqtt_reconnect`: the task and the timer run (the SDK schedules them), a closing connection
  ends, an attempt to connect and a DNS request end one way or the other; strong fairness of a
  successful DNS answer, connection and accepting CONNACK means that not every attempt fails
  or is refused for ever: without it no client can promise anything. That a CONNACK comes at
  all, and that a broker closes the connection it has refused, are assumptions the code needs,
  for it has no timeout there.
* `device`: a handler that has begun ends (weakly fair); the key's interrupt, the timers and
  the passing of time are strongly fair, because a key that bounces without end disables each
  of them again and again. The processor does keep up with a key.
* `settings`: boot and flash operations complete; the restart timer and the disconnect
  callback are strongly fair, as requests of other connections disable them for the time of a
  handler, and not every connection that is made breaks. That is fairness of a tick, not of
  the restart: the timer may be armed anew for ever. What the properties need beyond that is
  in their hypotheses: `Calm` (at some time the power stays on and the flash takes what is
  written), `Visited` (a device that shows its pages is visited) and, for `SaveRestarts`,
  `Unhurried` (at some time no connection ends while the restart is pending; it is false
  without that).
* `web`: browsers come again, sent chunks are acknowledged, idle connections are ended by the
  SDK, the restart timer ticks; that the restart it stands for is not put off for ever is the
  hypothesis of `SavedTakesEffect` (`Postpone`). The disconnect callback is strongly fair over
  all connections together: of those that are being closed not every one breaks first.

What the passing runs show is in the `about` of each run. Deadlock is checked in
every run.

### Where code and comments disagree

Three runs end in a violation, and `PROJECT.json` quotes what they contradict:

* `mqtt_names`: the result of `espconn_gethostbyname` is dropped; a cached name
  gives no callback and the client stays in TCP_CONNECTING.
* `mqtt_two_connections`: the guard of `MQTT_Connect` against a second connection
  is wiped by `MQTT_InitConnection`.
* `settings_empty_ssid`: `save-sta.json` saves the work mode without a router; at
  the next start the device neither serves its pages nor joins a network
  (the phase "NoRouter" of `Settings`), until the button is held or the power is cycled.

### What else the models reproduce

None of these is claimed to be absent by a property; each is where the name in
parentheses is defined.

MQTT. A CONNACK that refuses is taken for the start of a session: the client subscribes and
publishes into a connection that the broker is about to close (`RecvConnack`,
`DataInSession`). PINGREQ is sent one tick after the interval that CONNECT announces,
because `mqtt_timer` compares with `>` (`KeepAliveHonoured`); MQTT has a broker wait one and a
half intervals. A SUBACK that misses its SUBSCRIBE is handled as a PUBLISH, because the INFO
statement of the `if` is commented out and `break` takes its place (`Delivered`,
`RecvNullTopic`). Packets behind one that is not a PUBLISH are dropped with the rest of
their segment (`Rest`, `Taken`); a segment as long as `in_buffer` is dropped whole
(`TooLong`); a packet split over two segments is misread, which the source admits
("Not Implement yet"), and which no segment of the run contains. `mcu_proc` does not look
at the length of the parameters (`McuProc`). Every publication leaks its hex text
(`mqttSendBuff`), which the models do not show, having no heap. Answers to a segment that
asks for more than the queue holds are lost (`Answered`, `Published`): an acknowledgement
silently, and a state or reply with all that is older.

Frames. The usage example in `hxnet-protocol.h:15-36` feeds the parser byte by byte; with a
flag of more than two characters the fourth byte finds no end of the flag and the parser
throws its head away (`GetFrame`, the case `zeros = {}`). The firmware does not use
it that way: it always has the whole text.

Relay. The operating time of tk#1 and tk#2 is ignored, a pulse always takes a second
(`TkPulse`); a short press leaves a TK1 on (`ShortPress`); a kg command does not stop a
pulse (`Tick`); kg#1 with an even value other than 0 switches the output off now and on
at the next power-up (`Level`, `Restored`); a power failure between erase and write turns
a KG1 on (`RestoresLast` says so).

Settings. A power failure between the writing of DevConfig and the erasing of UserFix
leaves settings of the old JSON in force (`cut` in `SettingsMatchJson`); a reset that
cannot write DevConfig is not noticed, and the device goes on without the new JSON
(`failed` in `NewJsonTakesEffect`); a connection that breaks does not restart the device after
a save (`Break`); visitors who come and go put the restart after a save off (`Postpone`).
A write of UserFix that fails leaves 0xFF in the fields, and a page or a user reset that
copies the sector afterwards makes a valid record of them: the work mode then runs on fields
nobody has entered (`spoilt` in `NoGarbageInWork`; fields that are not terminated are not
followed further). A form without a port stores, in its place, what was last put into
`ssport`: 0, or the number of the index page in `save.htm`; ports are not among the fields of
the model. `save-sta.json` restarts the device even if the write has failed
(`SavedSta`).

Button. An edge lost while the key's interrupt is re-armed makes a release
unseen (`raced`).

Web server. A refused connection has the callbacks of an accepted one: its end clears
`web_pEspConn`, so that a third is accepted while the first is open, and may restart the
device while another is being answered (`web_discon_cb`). The 404 response is made and
never sent; the browser waits for the idle timeout (`NoFound`).
`httpServCurrentResumeData` returns nothing at all when the list is empty, and the
caller takes what it finds for a chunk (`Garbage`). If there is no memory for its page,
`save.htm` has stored the settings and does not restart (`save_htm`, the branch without an
answer). Before any index page was shown the number of the page is 0 and a form with 0 is
accepted; no request of the run carries 0. The fields that a form
leaves out are decoded again at each save: a stored text with a `+` or an escape changes
(`IsPlain` in `SavesAsTyped`). A text is copied to its array before it is decoded, without
a limit: one that fits as it is typed, but not as the browser encodes it, runs into the
next field. Six Chinese characters make a name of 18 bytes, 54 when encoded, for an array
of 48 (`FieldsFit` says what does fit).

## 4. Proofs

All theorems are proved by TLAPS for every value of the constants under the
assumptions named in the modules (`ConnsAssumption`: NULL is no object;
`TickAssumption`, `SizeAssumption`, `PeriodsAssumption`: limits are positive, the ring has
at least two slots; `WebAssumption`: a cache with room for a request; `TextsAssumption`:
the two arrays together are shorter than the longest string of parameters; and so on),
each of which a run evaluates.

`MqttClient_proofs` (`TypeCorrect`, `TimerArmedWithLink`, `ParkedUntilGotIp`,
`WakeupNeverLost`, `ConnackNeverInvalid`) covers both values of `Overlap` and `ByName`,
any number of objects and any packets of the broker. `TimerFollowsLink` and
`ParkedWithoutLink` are inductive only together and with more: without a link, the timer
is off, so nothing counts a reconnection down, and no positive network event can come;
that is the invariant `Link`. `NoLostWakeup` rests on two facts: a post is lost only before
the task is registered (`Registered`: until then the client is in a state that waits for
nothing), and every action that enters a waiting state posts, while the one that takes the
post leaves the state or closes the connection (`Wakeup`).

Its second part (`OneAtATime`, `FreedQuiet`, `SessionReal`, `NeverStalls`,
`KeepAliveKept`) assumes `~Overlap`, without which `OneConnection` is false (the run
`mqtt_two_connections`). On top of what the first part has shown the invariant says:
`One` (no object but the client's is in use or has a callback to come, and while the client
waits to connect none at all), `Established` (in the states in which the client talks its
connection is open, and in a session the broker has answered its CONNECT) and `Pace` (an answer is
awaited only to a packet that is not acknowledged, and the keep-alive counts from the attempt
to connect, which is why it is within its limit when a session begins; it is one past it just
while the PINGREQ is asked for).

`RingBuf_proofs`: `PointersAgree` (the pointers are fill_cnt slots apart, modulo the
size) with the types is the inductive invariant; from it each `Put` appends to
`Content` and each `Get` takes its head, so every step of the ring is a step of
`ByteFifo` (`RingImplementsFifo`).

`MsgQueue_proofs`: the ring's content is a concatenation of frames, whole and cut short, and
of the rest of one that is being dropped; the proof does not follow these parts but what can
be said of single bytes (`Sound`, `QueueInvariant`): a Begin stands at the front and behind
every End, and every End is the last byte of a frame of a message. That much is kept by a put
that stops anywhere and by a parser that takes everything up to the first End, and it says
that what the parser takes ends in the frame of a message, whatever lies before it.
`FrameFirst` is a part of it. For `OldestFirst` the parser, started with any `isBegin`, is
followed byte by byte: a Begin throws away what a cut frame has left, and a frame read from
its Begin gives its message, escaped bytes included (`ParsesFrame`). For the refinement
(`QueueImplementsFifo`) the mapping `Whole` takes the messages whose frames are whole out of
the ring; it is a homomorphism (`ConcatWhole`): a whole frame appended to the ring appends its
message, a part of a frame nothing, and what a `Gets` takes off is the head. The loop that
drops the oldest has an invariant over its rounds (`Dropped`): so many messages are gone and
what is put in their place is always a cut frame; it ends at the first message that is at
least as long, or with an empty queue (`DropsJustEnough`).

`RecursionLemmas` has what these proofs need in place of the library's theorems on
induction and recursion, which take operators as parameters: induction for sets of numbers
by a least counterexample (`WFMin`), the existence of a function defined by recursion from
the one that the choice in its definition names, `Min` of a set of numbers, the elements
of a concatenation, and `FlattenSeq` taken part by part (`FlatTo`, `FlatPrefixes`).

`Device_proofs`, the relay: `StateIsReal` needs that nothing was published before the state is
restored (`ReportInv`); `RestoresLast` follows from `FlashHoldsDue`: what the sector
holds is due, and so is the value that remains to be written after an erase.

It then shows that a step of the device is a step or a stutter of `Relay`
and of `Key` (`DeviceIsRelay`, `DeviceIsKey`); the theorems of the relay then hold of the
device. For the button it has an invariant of its own: the timer of the long press has run for
no longer than the device is up (`LongTimer`); and as long as no edge was lost, the edge
that is waited for goes with the phase of a press and with the level of the pin (`Phases`),
and while the long press is timed the key has been up for less than a bounce, and down for
what the timer has counted (`Holding`). `NextPressIsSeen`, `NoEarlyReset` and
`ResetNeedsHolding` follow for all periods.

`Settings_proofs` (`TypeCorrect`, `NoGarbage`, `SettingsMatch`): where DevConfig vouches for
the JSON, UserFix was entered under it or a factory reset is about to erase it (`Match`);
a JSON that is being saved is newer than any that DevConfig vouches for, so no save can
make an old CRC true (`Pending`); the work mode runs only on sectors that vouch for it
(`Modal`); and until a write of UserFix fails, 0xFF is in the fields only with an erased work
mode, which no mode with pages or a button sees, and in nothing that is about to be written
(`Clean`). A handler's flash operations
in hand are always the rest of one of a few lists (`Todos`), which turns the steps between
an erase and its write into cases.

`WebServer_proofs` (`TypeCorrect`, `AnswerIsOwn`): the invariant `Alone` says of a
connection that is alone that it is waiting, or being answered, or answered; and that what it
has been sent, followed by what waits behind the chunk on its way, is an answer to its
request. A whole request that comes behind an empty cache is found first, whatever the
buffer still holds behind it (`WholeRequestFound`); `Shift` is the step of a chunk from the
one list to the other.

Its second part (`EveryFormSaved`, `FormsSavedAsTyped`): an encoded text is a concatenation
of parts, one for each character, each of which `urldecode`, wherever it stands in the text,
turns into its character and is then ready for the next (`DecodesChar`, `DecodesEncoded`); a
text without `+` and `%` is not changed (`DecodesPlain`). No part has an `&`, `=` or `?` in
it, so `strtok_r` finds what the browser has put together (`TwoTokens`, `FormParameters`,
`SplitsForm`). In memory (`HasText`, `Fields`) a text that fits is written to its field
without touching the other, and decoding does not lengthen it (`DecodesShorter`); four such
steps, two copies and two decodings, are the whole of `Saved` (`FieldsSaved`).

`Commands_proofs` (`TypeCorrect`, `CommandsDoneAsSent`, `AnswersAreRead`, `AnswersStayQueued`)
goes the way of a command backwards through the code. Each thing that is taken apart is shown
to give what was put together, with any bytes behind it: hexadecimal text, in capitals or not
(`Decodes`), frames with either end (`GetsFrame`), MQTT messages (`MessageRead`,
`PublishRead`). A message or frame lies at the front of a longer buffer (`Starts`), so nothing
is assumed of what earlier segments have left. Of the checksum nothing is used but that it is
a function of the bytes and fits two of them. From these follows what the handling of one
packet does (`Delivered`, `NotDelivered`; `CommandTransferred` for a command, `HarmlessText`
for any other text). The inductive invariant (`IInv`) says where the device is in a segment:
past its first k packets, all of them PUBLISHes, with the wire form of the others left in
`pdata` and the commands of these carried out (`Handling`), or through with it (`Handled`).
That a segment known to fit is part of it, because a segment is dropped whole or not at all;
so are the answers, which `DoneAsSent` could do without: the messages made so far read as
those due for the first k packets, and the relay is in the state behind them (`AnsweredTo`).
What the device puts together is shown to read as it should with the lemmas that serve for
what it is sent (`PublishHeard`, `HeardStatus`, `HeardAck`); `McuProcTells` and `AckAnswers`
say what one packet is answered, `StatesOf` and `NextAnswered` carry it from packet to packet.
`NextPacket` finds the next packet at the front of what is left, and `CommandedUpTo` the
packet behind which nothing is looked at. `AnswersStayQueued` has an invariant of its own
(`Kept`): as long as there was room for all messages, the queue holds all of them and just
what is left is free; and no state or reply is missing while an older message is held. It
holds step by step for `Answered`, because what it may lose alone is no PUBLISH
(`AckNotPublish`), and for `Published`, whatever it drops.

Only model-checked: liveness (`Reconnects`, `PulseEnds`, `SaveRestarts`,
`NewJsonTakesEffect`, `ComesUp`, `NotLockedOut`, `SavedTakesEffect`), which the prover does
not cover. Every other property of a run that is to pass is a theorem.

## 5. Not modelled

* TLS (vendored, and never reached: security is 0), cJSON (vendored; whether a text
  parses is an input of `Settings`), Espressif's drivers, SDK headers, the SDK's examples
  (`examples/IoT_Demo` and others, no part of the firmware), linker scripts, images and
  tools. These are the larger part of the repository's C code; the firmware's
  own code in `app/user` and `app/mqtt` is about a sixth of it, and it is what is modelled.
* Of that code: the WiFi scan, the access point's set-up and the LED, which call the SDK
  and keep no state that anything depends on; `user/http.c`, an older copy of `http_serv.c`
  without a caller; `user/uart.c` and `user/spi.c`, register accesses; the fields that
  `json_do.c` copies.
* Of `mqtt.c`: MQTT_Ping, MQTT_InitLWT, MQTT_DeleteClient and the timeout callback have no
  caller; QoS above 0 on the device's side is not used. Of the codec: CONNECT and SUBSCRIBE
  as bytes (`MqttClient` has them as values), and `utils.c`, of which only the test for an
  IP address is used.
* Of the web server: POST and lower-case methods, `urlencode` (no caller), the
  malloc failures of single chunks and of `JsonErrAP.c`, which looks at no result of
  malloc, and the texts of the pages.
* Of the environment: an interrupted erase or write that leaves half a sector; two JSON
  texts with one CRC.

## 6. What is left

1. `WebServer` and `Settings` composed through the disconnect callback, as `Device` composes
   relay and button; today they share the two flags by name only.
2. CONNECT and SUBSCRIBE as bytes in `Commands`, and a segment that ends in the midst of a
   packet.
