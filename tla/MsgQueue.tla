------------------------------ MODULE MsgQueue ------------------------------
(***************************************************************************)
(* The outbound message queue of the MQTT client: app/mqtt/queue.c and the *)
(* framing of app/mqtt/proto.c on top of the byte ring of ringbuf.c, and   *)
(* what mqtt.c does with them.  The ring is the sequence of its bytes, the *)
(* content of ByteFifo, which RingBuf implements.                          *)
(*                                                                         *)
(* A message is framed by the bytes 0x7E and 0x7F; these and 0x7D are      *)
(* escaped inside it.  Putting a message stops at the byte that does not   *)
(* fit and leaves what it has put, so the ring may hold frames without end.*)
(***************************************************************************)
EXTENDS Integers, Sequences, FiniteSetsExt

CONSTANTS
  Messages,   \* the MQTT packets that are queued: sequences of bytes
  Size,       \* QUEUE_BUFFER_SIZE
  BufSize     \* MQTT_BUF_SIZE: the buffers messages are built in and read into

ASSUME MessagesAssumption ==
  \A m \in Messages : m \in Seq(0..255) /\ Len(m) \in 1..BufSize
ASSUME SizesAssumption == Size \in Nat \ {0, 1} /\ BufSize \in Nat

VARIABLES rb,      \* the bytes in the ring, oldest first
          taken    \* the message MQTT_Task has taken last

vars == <<rb, taken>>

-----------------------------------------------------------------------------
(* proto.c                                                                 *)

Escape == 125   \* 0x7D
Begin  == 126   \* 0x7E
End    == 127   \* 0x7F

(* b ^ 0x20                                                                *)
Flip(b) == IF (b \div 32) % 2 = 1 THEN b - 32 ELSE b + 32

Escaped(b) == IF b \in {Escape, Begin, End} THEN <<Escape, Flip(b)>> ELSE <<b>>

(* What PROTO_AddRb puts up to each byte of the message.                   *)
FrameTo(m) ==
  LET f[n \in 0..Len(m)] == IF n = 0 THEN <<Begin>> ELSE f[n - 1] \o Escaped(m[n])
  IN  f

Frame == [m \in Messages |-> Append(FrameTo(m)[Len(m)], End)]

(* Faulty: the result of RINGBUF_Put is taken for granted.                 *)
PutsUnchecked(r, m) == [ok |-> TRUE, rb |-> r \o Frame[m]]

(* QUEUE_Puts (PROTO_AddRb): as much of the frame as fits.                 *)
Puts(r, m) ==
  LET room == Size - Len(r)
  IN  [ok |-> Len(Frame[m]) <= room,
       rb |-> r \o SubSeq(Frame[m], 1, Min({room, Len(Frame[m])}))]

(* Faulty: a new frame does not discard the beginning of the last one.     *)
ParseByteKeeps(p, v) ==
  CASE v = Escape -> [p EXCEPT !.isEsc = TRUE]
    [] v = Begin  -> [p EXCEPT !.isEsc = FALSE, !.isBegin = TRUE]
    [] OTHER      -> IF ~p.isBegin THEN p
                     ELSE [p EXCEPT !.isEsc = FALSE,
                                    !.data = Append(@, IF p.isEsc THEN Flip(v) ELSE v)]

(* PROTO_ParseByte, for every byte but End.                                *)
ParseByte(p, v) ==
  CASE v = Escape -> [p EXCEPT !.isEsc = TRUE]
    [] v = Begin  -> [data |-> <<>>, isEsc |-> FALSE, isBegin |-> TRUE]
    [] OTHER      -> IF ~p.isBegin THEN p
                     ELSE [p EXCEPT !.isEsc = FALSE,
                                    !.data = IF Len(@) < BufSize
                                             THEN Append(@, IF p.isEsc THEN Flip(v) ELSE v)
                                             ELSE @]

(* PROTO_Init, and the parser after each byte.  isBegin is not initialised.*)
ParserAt(r, begun) ==
  LET p[n \in 0..Len(r)] ==
        IF n = 0 THEN [data |-> <<>>, isEsc |-> FALSE, isBegin |-> begun]
        ELSE ParseByte(p[n - 1], r[n])
  IN  p

Ends(r) == {i \in DOMAIN r : r[i] = End}

(* Faulty: no more bytes are read from the ring than fit into the buffer.  *)
GetsBounded(r, begun) ==
  IF Ends(r) # {} /\ Min(Ends(r)) <= BufSize
  THEN [ok |-> TRUE, rb |-> SubSeq(r, Min(Ends(r)) + 1, Len(r)),
        msg |-> ParserAt(r, begun)[Min(Ends(r)) - 1].data]
  ELSE [ok |-> FALSE, rb |-> SubSeq(r, BufSize + 1, Len(r)), msg |-> <<>>]

(* Faulty: the search for an End goes on after the first one.              *)
GetsAll(r, begun) ==
  IF Ends(r) # {}
  THEN [ok |-> TRUE, rb |-> SubSeq(r, Max(Ends(r)) + 1, Len(r)),
        msg |-> ParserAt(r, begun)[Min(Ends(r)) - 1].data]
  ELSE [ok |-> FALSE, rb |-> <<>>, msg |-> <<>>]

(* QUEUE_Gets (PROTO_ParseRb): parse up to the first End, or empty the ring*)
(* in search of it.                                                        *)
Gets(r, begun) ==
  IF Ends(r) # {}
  THEN [ok |-> TRUE, rb |-> SubSeq(r, Min(Ends(r)) + 1, Len(r)),
        msg |-> ParserAt(r, begun)[Min(Ends(r)) - 1].data]
  ELSE [ok |-> FALSE, rb |-> <<>>, msg |-> <<>>]

-----------------------------------------------------------------------------
(* mqtt.c                                                                  *)

(* Faulty: one retry instead of a loop.                                    *)
PutsOrDropsOnce(r, m) ==
  IF Puts(r, m).ok THEN Puts(r, m) ELSE Puts(Gets(Puts(r, m).rb, FALSE).rb, m)

(* The ring after so many messages have been taken off it to make room.    *)
AfterDrops(r, m) ==
  LET f[k \in 0..Len(r)] == IF k = 0 THEN r ELSE Gets(Puts(f[k - 1], m).rb, FALSE).rb
  IN  f

(* MQTT_Publish, MQTT_Subscribe: take messages off the queue until the new *)
(* one has gone in whole, or there is nothing left to take.                *)
PutsOrDrops(r, m) ==
  LET put == [k \in 0..Len(r) |-> Puts(AfterDrops(r, m)[k], m)]
      k   == Min({i \in 0..Len(r) : put[i].ok \/ Ends(put[i].rb) = {}})
  IN  IF put[k].ok THEN put[k] ELSE [ok |-> FALSE, rb |-> <<>>]

Init == rb = <<>> /\ taken = <<>>

Publish(m) == rb' = PutsOrDrops(rb, m).rb /\ UNCHANGED taken

(* mqtt_tcpclient_recv queues its answers and does not look at the result. *)
Answer(m) == rb' = Puts(rb, m).rb /\ UNCHANGED taken

(* MQTT_Task, when the queue is not empty and it may send.                 *)
Send ==
  /\ rb # <<>>
  /\ \E begun \in BOOLEAN :
       LET get == Gets(rb, begun)
       IN  rb' = get.rb /\ taken' = IF get.ok THEN get.msg ELSE taken

Next == Send \/ \E m \in Messages : Publish(m) \/ Answer(m)

Spec == Init /\ [][Next]_vars

-----------------------------------------------------------------------------
(* What the ring holds, told from the frames alone and not by the parser.  *)

(* The message whose frame ends at the n-th byte.                          *)
EndingAt(r, n) ==
  {m \in Messages : Len(Frame[m]) <= n /\ SubSeq(r, n - Len(Frame[m]) + 1, n) = Frame[m]}

(* The whole messages up to each byte.                                     *)
WholeTo(r) ==
  LET w[n \in 0..Len(r)] ==
        IF n = 0 THEN <<>>
        ELSE IF r[n] = End THEN Append(w[n - 1], CHOOSE m \in EndingAt(r, n) : TRUE)
        ELSE w[n - 1]
  IN  w

Whole(r) == WholeTo(r)[Len(r)]

TypeOK == /\ rb \in Seq(0..255) /\ Len(rb) <= Size
          /\ taken \in Messages \cup {<<>>}

(* The ring never begins in the middle of a frame, although frames are cut *)
(* short when it is full: so the first byte the parser sees sets isBegin,  *)
(* and it does not matter that PROTO_Init leaves it uninitialised.         *)
StartsWithFrame == rb # <<>> => Head(rb) = Begin

(* The frames that were cut short never show: what MQTT_Task takes is the  *)
(* oldest message put in whole, byte by byte.                              *)
SendsTheOldest == [][Send /\ Whole(rb) # <<>> => taken' = Head(Whole(rb))]_vars

(* What MQTT_Publish and MQTT_Subscribe keep.  A message that does not fit *)
(* costs the oldest ones, up to the first that is as long as the new one   *)
(* itself: the room of shorter ones is used up by the attempts in between. *)
(* If there is none that long, everything is lost, the new message too.    *)
DropsUpToOneAsLong ==
  \A m \in Messages :
    LET need   == Len(Frame[m])
        asLong == {e \in Ends(rb) : \A i \in Ends(rb) \cup {0} : i < e => i <= e - need}
        after  == PutsOrDrops(rb, m).rb
    IN  IF Len(rb) + need <= Size THEN Whole(after) = Append(Whole(rb), m)
        ELSE IF asLong = {} THEN after = <<>>
        ELSE Whole(after) = Append(Whole(SubSeq(rb, Min(asLong) + 1, Len(rb))), m)

Fifo == INSTANCE MsgFifo WITH Capacity <- Size \div 3, fifo <- Whole(rb)

(* The queue is the one MQTT_Task relies on (MsgFifo): whole messages, in  *)
(* order, lost only from the front and only when a new one needs the room. *)
IsFifo == Fifo!Spec
=============================================================================
