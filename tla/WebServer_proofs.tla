-------------------------- MODULE WebServer_proofs --------------------------
(***************************************************************************)
(* Proofs about the configuration pages' server: the types, and that one   *)
(* that is alone with the server gets the answer to its own request; and   *)
(* that what is typed into a form is what is saved, for all texts that fit *)
(* into the arrays of the settings and all lengths of these.               *)
(***************************************************************************)
EXTENDS MCWebServer, RecursionLemmas

Names == {"index", "config", "save", "refused", "isdev", "save-sta", "jump", "404", "garbage"}
Chunk == Names \X Nat
Piece == {"GET", "URL", "END"} \X (Requests \cup {NoRequest})

Connection ==
  [st : {"none", "open", "closing"}, asked : BOOLEAN, rest : Seq(Piece), busy : BOOLEAN,
   own : BOOLEAN, want : Requests \cup {NoRequest}, sent : Seq(Chunk), ended : BOOLEAN]

Connections == {r \in Connection : Len(r.rest) < 3 /\ (r.busy => r.st = "open")}

Types ==
  /\ conn \in [Conns -> Connections]
  /\ web_pEspConn \in Conns \cup {NoConn}
  /\ sendDataList \in Seq(Chunk)
  /\ cacheBuf \in Seq(Piece) /\ Len(cacheBuf) < CacheSize /\ cacheLen \in 0..Len(cacheBuf)
  /\ index_page_ckd \in Ckds \cup {0}
  /\ is_frist_config_page \in BOOLEAN /\ is_disconnect_cb_restart \in BOOLEAN
  /\ g_webAPDisconResetFactory \in BOOLEAN /\ armed \in 0..RestartTicks /\ jsonErr \in BOOLEAN

-----------------------------------------------------------------------------
(* A connection that is alone waits, for the browser or for nothing any    *)
(* more; or is given its answer, of which the first of sendDataList is on  *)
(* its way; or has got it.                                                 *)
Quiet(r) == r.st = "open" /\ ~r.busy /\ r.sent = <<>> /\ ~r.ended

Answering(r) ==
  /\ r.st = "open" /\ r.asked /\ r.busy /\ ~r.ended
  /\ r.sent # <<>> /\ sendDataList # <<>>
  /\ r.sent \o Tail(sendDataList) \in Answers(r.want)

Answered(r) == r.st = "closing" /\ r.ended /\ r.sent \in Answers(r.want)

Good(c) ==
  /\ \A d \in Conns \ {c} : ~Open(d)
  /\ conn[c].rest = <<>>
  /\ Quiet(conn[c]) \/ Answering(conn[c]) \/ Answered(conn[c])

Alone == \A c \in Conns : conn[c].own => Good(c)

IInv == Types /\ Alone

-----------------------------------------------------------------------------
(* Two sequences put together: moving the first element of the second to   *)
(* the end of the first changes nothing.                                   *)
LEMMA Shift ==
  ASSUME NEW S, NEW s \in Seq(S), NEW t \in Seq(S), t # <<>>
  PROVE  Append(s, Head(t)) \o Tail(t) = s \o t
<1>1. Head(t) \in S /\ Tail(t) \in Seq(S) /\ Len(Tail(t)) = Len(t) - 1
  BY HeadTailProperties
<1>2. /\ Append(s, Head(t)) \in Seq(S) /\ Len(Append(s, Head(t))) = Len(s) + 1
      /\ \A i \in 1..Len(s) : Append(s, Head(t))[i] = s[i]
      /\ Append(s, Head(t))[Len(s) + 1] = Head(t)
  BY <1>1, AppendProperties
<1>3. Len(s) \in Nat /\ Len(t) \in Nat \ {0} /\ Head(t) = t[1]
      /\ \A i \in 1..Len(Tail(t)) : Tail(t)[i] = t[i + 1]
  BY LenProperties, EmptySeq, HeadTailProperties
<1> DEFINE u == Append(s, Head(t)) \o Tail(t)
           v == s \o t
<1>4. /\ u \in Seq(S) /\ Len(u) = Len(s) + Len(t)
      /\ \A i \in 1..Len(s) + Len(t) :
           u[i] = IF i <= Len(s) + 1 THEN Append(s, Head(t))[i] ELSE Tail(t)[i - (Len(s) + 1)]
  BY <1>1, <1>2, <1>3, ConcatProperties
<1>5. /\ v \in Seq(S) /\ Len(v) = Len(s) + Len(t)
      /\ \A i \in 1..Len(s) + Len(t) : v[i] = IF i <= Len(s) THEN s[i] ELSE t[i - Len(s)]
  BY ConcatProperties
<1>6. ASSUME NEW i \in 1..Len(u) PROVE u[i] = v[i]
  <2>1. CASE i <= Len(s)
    BY <1>2, <1>3, <1>4, <1>5, <2>1
  <2>2. CASE i = Len(s) + 1
    BY <1>2, <1>3, <1>4, <1>5, <2>2
  <2>3. CASE i > Len(s) + 1
    <3>1. u[i] = Tail(t)[i - (Len(s) + 1)] /\ v[i] = t[i - Len(s)]
      BY <1>3, <1>4, <1>5, <2>3
    <3>2. i - (Len(s) + 1) \in 1..Len(Tail(t)) /\ (i - (Len(s) + 1)) + 1 = i - Len(s)
      BY <1>1, <1>3, <1>4, <2>3
    <3> QED
      BY <1>3, <3>1, <3>2
  <2> QED
    BY <1>3, <1>4, <2>1, <2>2, <2>3
<1> HIDE DEF u, v
<1>7. u = v
  BY <1>4, <1>5, <1>6, SeqEqual
<1> QED
  BY <1>7 DEF u, v

(* A sequence is a prefix of what is made by putting another behind it.  *)
LEMMA ConcatHasPrefix ==
  ASSUME NEW S, NEW s \in Seq(S), NEW t \in Seq(S)
  PROVE  IsPrefix(s, s \o t)
<1>1. Len(s) \in Nat /\ Len(t) \in Nat /\ Len(s \o t) = Len(s) + Len(t)
  BY LenProperties, ConcatProperties
<1>2. CASE s = <<>>
  <2>1. Len(s) = 0
    BY <1>2, EmptySeq
  <2>2. SubSeq(s, 1, 0) = <<>> /\ SubSeq(s \o t, 1, 0) = <<>>
    BY SubSeqEmpty
  <2> QED
    BY <1>1, <2>1, <2>2 DEF IsPrefix
<1>3. CASE s # <<>>
  <2>1. Len(s) \in 1..Len(s) /\ 1 \in 1..Len(s)
    BY <1>3, EmptySeq
  <2>2. SubSeq(s \o t, 1, Len(s)) = SubSeq(s, 1, Len(s))
    BY <2>1, SubSeqOfConcat1
  <2> QED
    BY <1>1, <2>2 DEF IsPrefix
<1> QED
  BY <1>2, <1>3

-----------------------------------------------------------------------------
(* Answers are sequences of chunks, none longer than a page.               *)
LEMMA PageType ==
  ASSUME NEW name \in Names
  PROVE  /\ Page(name) \in Seq(Chunk) /\ Len(Page(name)) = PageChunks + 1
         /\ Page(name) # <<>>
<1>1. PageChunks \in Nat /\ PageChunks + 1 \in Nat /\ PageChunks > 0
  BY WebAssumption
<1>2. Page(name) \in [1..(PageChunks + 1) -> Chunk]
  BY <1>1 DEF Page, Chunk
<1>3. Page(name) \in Seq(Chunk)
  BY <1>1, <1>2, SeqDef
<1>4. DOMAIN Page(name) = 1..(PageChunks + 1) /\ DOMAIN Page(name) = 1..Len(Page(name))
      /\ Len(Page(name)) \in Nat
  BY <1>2, <1>3, LenProperties
<1>5. Len(Page(name)) = PageChunks + 1
  BY <1>1, <1>4
<1>6. Page(name) # <<>>
  BY <1>1, <1>5, EmptySeq
<1> QED
  BY <1>3, <1>5, <1>6

(* The answers that are no pages.                                          *)
LEMMA ShortTypes ==
  /\ \A name \in Names : Short(name) \in Seq(Chunk) /\ Len(Short(name)) = 2 /\ Short(name) # <<>>
  /\ Jump \in Seq(Chunk) /\ Len(Jump) = 1 /\ Jump # <<>>
  /\ NotFound \in Seq(Chunk)
  /\ Garbage \in Chunk
BY DEF Short, Jump, NotFound, Garbage, Chunk, Names

(* Every answer.                                                           *)
LEMMA AnswerTypes ==
  ASSUME NEW q, NEW a \in Answers(q)
  PROVE  a \in Seq(Chunk) /\ Len(a) <= PageChunks + 1
<1>1. PageChunks \in Nat \ {0}
  BY WebAssumption
<1>2. <<>> \in Seq(Chunk) /\ Len(<<>>) = 0
  BY EmptySeq
<1>3. /\ \A name \in Names : Page(name) \in Seq(Chunk) /\ Len(Page(name)) = PageChunks + 1
      /\ \A name \in Names : Short(name) \in Seq(Chunk) /\ Len(Short(name)) = 2
      /\ Jump \in Seq(Chunk) /\ Len(Jump) = 1
  BY PageType, ShortTypes
<1>4. \/ a = <<>> \/ a = Jump
      \/ \E name \in Names : a = Page(name) \/ a = Short(name)
  <2>1. CASE q[1] \in {"index", "config", "cfg"}
    BY <2>1 DEF Answers, Names
  <2>2. CASE q[1] = "save"
    BY <2>2 DEF Answers, Names
  <2>3. CASE q[1] = "isdev"
    BY <2>3 DEF Answers, Names
  <2>4. CASE q[1] = "save-sta"
    BY <2>4 DEF Answers, Names
  <2>5. CASE q[1] \notin {"index", "config", "save", "cfg", "isdev", "save-sta"}
    BY <2>5 DEF Answers
  <2> QED
    BY <2>1, <2>2, <2>3, <2>4, <2>5
<1>5. Jump \in Seq(Chunk) /\ Len(Jump) <= PageChunks + 1
  BY <1>1, <1>3
<1>6. \A name \in Names : Page(name) \in Seq(Chunk) /\ Len(Page(name)) <= PageChunks + 1
  BY <1>1, <1>3
<1>7. \A name \in Names : Short(name) \in Seq(Chunk) /\ Len(Short(name)) <= PageChunks + 1
  BY <1>1, <1>3
<1>8. <<>> \in Seq(Chunk) /\ Len(<<>>) <= PageChunks + 1
  BY <1>1, <1>2
<1> QED
  BY <1>4, <1>5, <1>6, <1>7, <1>8

Pages(c, r, u) ==
  \/ /\ ~jsonErr
     /\ index_htm(c, r, u) \/ save_htm(c, r, u) \/ config_htm(c, r, u) \/ json(c, r, u)
  \/ jsonErr /\ jsonErr_htm(c, r, u)
  \/ favicon_ico(c, r, u) \/ NoFound(c, r, u)

(* What the pages make of a request: nothing, an answer that fits it, or   *)
(* the end of the connection, which is the answer to some.                 *)
LEMMA PagesAnswer ==
  ASSUME NEW c \in Conns, NEW r, NEW u,
         Pages(c, r, u)
  PROVE  \/ conn' = [conn EXCEPT ![c] = r] /\ sendDataList' \in {sendDataList, NotFound}
         \/ \E a \in Answers(u) : a # <<>> /\ Respond(c, r, a)
         \/ /\ conn' = [conn EXCEPT ![c] = End(r)] /\ UNCHANGED sendDataList
            /\ <<>> \in Answers(u)
<1>1. CASE ~jsonErr /\ index_htm(c, r, u)
  BY <1>1, PageType DEF index_htm, Answers, Names
<1>2. CASE ~jsonErr /\ save_htm(c, r, u)
  BY <1>2, PageType, ShortTypes DEF save_htm, Answers, Names
<1>3. CASE config_htm(c, r, u)
  BY <1>3, PageType, ShortTypes DEF config_htm, Answers, Names
<1>4. CASE ~jsonErr /\ json(c, r, u)
  BY <1>4, ShortTypes DEF json, Answers, Names
<1>5. CASE favicon_ico(c, r, u)
  BY <1>5 DEF favicon_ico, Answers
<1>6. CASE NoFound(c, r, u)
  BY <1>6 DEF NoFound, Response
<1>7. CASE jsonErr /\ jsonErr_htm(c, r, u)
  BY <1>7, PageType, ShortTypes DEF jsonErr_htm, Answers, Names
<1> QED
  BY <1>1, <1>2, <1>3, <1>4, <1>5, <1>6, <1>7 DEF Pages

-----------------------------------------------------------------------------
(* The text of a request is three pieces.                                  *)
LEMMA TextType ==
  ASSUME NEW q \in Requests
  PROVE  /\ Text(q) \in Seq(Piece) /\ Len(Text(q)) = 3
         /\ Text(q)[1] = <<"GET", q>> /\ Text(q)[2] = <<"URL", q>> /\ Text(q)[3] = <<"END", NoRequest>>
<1>1. <<"GET", q>> \in Piece /\ <<"URL", q>> \in Piece /\ <<"END", NoRequest>> \in Piece
  BY DEF Piece
<1>2. Text(q) = <<<<"GET", q>>, <<"URL", q>>, <<"END", NoRequest>>>>
  BY DEF Text, NoRequest
<1> QED
  BY <1>1, <1>2

(* The cache stays within its bounds, whatever comes.                      *)
LEMMA CacheKept ==
  ASSUME cacheBuf \in Seq(Piece), Len(cacheBuf) < CacheSize, cacheLen \in 0..Len(cacheBuf),
         NEW seg \in Seq(Piece)
  PROVE  LET f == httpServReslovURL(seg)
         IN  f.buf \in Seq(Piece) /\ Len(f.buf) < CacheSize /\ f.len \in 0..Len(f.buf)
<1> DEFINE len  == cacheLen + Len(seg)
           head == SubSeq(cacheBuf, 1, cacheLen)
           rest == SubSeq(cacheBuf, len + 1, Len(cacheBuf))
           buf  == head \o seg \o rest
<1>1. Len(seg) \in Nat /\ Len(cacheBuf) \in Nat /\ CacheSize \in Nat
      /\ len \in Nat /\ cacheLen \in Nat
      /\ \A i \in 1..Len(cacheBuf) : cacheBuf[i] \in Piece
  BY LenProperties, ElementOfSeq, WebAssumption
<1>2. head \in Seq(Piece) /\ Len(head) = cacheLen
  BY <1>1, SubSeqProperties
<1>3. rest \in Seq(Piece) /\ Len(rest) = IF len + 1 <= Len(cacheBuf) THEN Len(cacheBuf) - len ELSE 0
  BY <1>1, SubSeqProperties
<1>4. head \o seg \in Seq(Piece) /\ Len(head \o seg) = len
  BY <1>2, ConcatProperties
<1>5. buf \in Seq(Piece) /\ Len(buf) = len + Len(rest)
  BY <1>3, <1>4, ConcatProperties
<1> HIDE DEF len, head, rest, buf
<1>6. Fits(len) => Len(buf) < CacheSize /\ len \in 0..Len(buf) /\ 0 \in 0..Len(buf)
  BY <1>1, <1>3, <1>5 DEF Fits
<1>7. LET f == httpServReslovURL(seg)
      IN  \/ ~Fits(len) /\ f.buf = cacheBuf /\ f.len = 0
          \/ Fits(len) /\ f.buf = buf /\ f.len \in {0, len}
  BY DEF httpServReslovURL, len, buf, head, rest
<1> QED
  BY <1>1, <1>5, <1>6, <1>7

(* A whole request is found behind an empty cache, and no other, whatever  *)
(* the buffer still holds behind it.                                       *)
LEMMA WholeRequestFound ==
  ASSUME cacheBuf \in Seq(Piece), Len(cacheBuf) < CacheSize, cacheLen = 0,
         NEW q \in Requests
  PROVE  httpServReslovURL(Text(q)).urls = {q}
<1> DEFINE rest  == SubSeq(cacheBuf, 4, Len(cacheBuf))
           buf   == Text(q) \o rest
           heads == {i \in DOMAIN buf : buf[i][1] = "GET"}
<1> HIDE DEF rest, buf, heads
<1>1. Len(cacheBuf) \in Nat /\ \A i \in 1..Len(cacheBuf) : cacheBuf[i] \in Piece
  BY LenProperties, ElementOfSeq
<1>2. rest \in Seq(Piece) /\ Len(rest) \in Nat
  BY <1>1, SubSeqProperties, LenProperties DEF rest
<1>3. /\ Text(q) \in Seq(Piece) /\ Len(Text(q)) = 3
      /\ Text(q)[1] = <<"GET", q>> /\ Text(q)[2] = <<"URL", q>> /\ Text(q)[3] = <<"END", NoRequest>>
  BY TextType
<1>4. /\ buf \in Seq(Piece) /\ Len(buf) = Len(Text(q)) + Len(rest)
      /\ \A i \in 1..(Len(Text(q)) + Len(rest)) :
           buf[i] = IF i <= Len(Text(q)) THEN Text(q)[i] ELSE rest[i - Len(Text(q))]
  BY <1>2, <1>3, ConcatProperties DEF buf
<1>5. DOMAIN buf = 1..(3 + Len(rest))
  BY <1>3, <1>4, LenProperties
<1>6. buf[1] = <<"GET", q>> /\ buf[2] = <<"URL", q>> /\ buf[3] = <<"END", NoRequest>>
      /\ {1, 2, 3} \subseteq DOMAIN buf /\ DOMAIN buf \subseteq Nat \ {0}
  BY <1>2, <1>3, <1>4, <1>5
<1>7. 1 \in heads /\ heads \subseteq Nat \ {0}
  BY <1>6 DEF heads
<1>8. Min(heads) = 1
  <2>1. \A x \in heads : 1 <= x
    BY <1>7
  <2>2. \A x \in heads : (\A y \in heads : x <= y) => x = 1
    BY <1>7, <2>1
  <2> QED
    BY <1>7, <2>1, <2>2 DEF Min
<1>9. Requested(buf) = q
  <2>1. Min({i \in DOMAIN buf : buf[i][1] = "GET"}) = 1
    BY <1>8 DEF heads
  <2>2. buf[1][2] = q /\ 1 + 1 = 2
    BY <1>6
  <2> QED
    BY <1>6, <2>1, <2>2 DEF Requested
<1>10. Holds(buf, "GET") /\ Holds(buf, "END")
  BY <1>6 DEF Holds
<1>11. cacheLen + Len(Text(q)) = 3 /\ 3 + 1 = 4 /\ Fits(3)
  BY <1>3, WebAssumption DEF Fits
<1>12. SubSeq(cacheBuf, 1, cacheLen) \o Text(q) = Text(q)
  <2>1. SubSeq(cacheBuf, 1, cacheLen) = <<>>
    BY SubSeqEmpty
  <2> QED
    BY <1>3, <2>1, ConcatEmptySeq
<1>13. SubSeq(cacheBuf, 1, cacheLen) \o Text(q)
         \o SubSeq(cacheBuf, cacheLen + Len(Text(q)) + 1, Len(cacheBuf)) = buf
  BY <1>11, <1>12 DEF buf, rest
<1> QED
  BY <1>9, <1>10, <1>11, <1>13 DEF httpServReslovURL

-----------------------------------------------------------------------------
(* What the operations on a connection make of it.                         *)
LEMMA ConnectionOps ==
  /\ Closed \in Connections /\ ~Closed.own /\ Closed.st = "none"
  /\ \A r \in Connections :
       /\ NotOwn(r) \in Connections /\ ~NotOwn(r).own /\ NotOwn(r).st = r.st
       /\ End(r) \in Connections /\ End(r).own = r.own /\ End(r).want = r.want
       /\ End(r).st = "closing" /\ End(r).rest = <<>> /\ End(r).sent = r.sent
       /\ End(r).ended = r.own
<1>1. <<>> \in Seq(Piece) /\ <<>> \in Seq(Chunk) /\ Len(<<>>) = 0
  BY EmptySeq
<1>2. Closed \in Connections /\ ~Closed.own /\ Closed.st = "none"
  <2>1. \A e, f : e \in Seq(Piece) /\ f \in Seq(Chunk) /\ Len(e) = 0 =>
          [st |-> "none", asked |-> FALSE, rest |-> e, busy |-> FALSE,
           own |-> FALSE, want |-> NoRequest, sent |-> f, ended |-> FALSE] \in Connections
    BY DEF Connections, Connection
  <2> QED
    BY <1>1, <2>1 DEF Closed
<1>3. ASSUME NEW r \in Connections
      PROVE  /\ NotOwn(r) \in Connections /\ ~NotOwn(r).own /\ NotOwn(r).st = r.st
  BY <1>1 DEF NotOwn, Connections, Connection
<1>4. ASSUME NEW r \in Connections
      PROVE  /\ End(r) \in Connections /\ End(r).own = r.own /\ End(r).want = r.want
             /\ End(r).st = "closing" /\ End(r).rest = <<>> /\ End(r).sent = r.sent
             /\ End(r).ended = r.own
  <2> DEFINE x(e, b) == [r EXCEPT !.st = "closing", !.asked = FALSE, !.rest = e, !.busy = FALSE,
                                  !.ended = b]
  <2>1. ASSUME NEW e \in Seq(Piece), Len(e) = 0, NEW b \in BOOLEAN
        PROVE  /\ x(e, b) \in Connections /\ x(e, b).want = r.want /\ x(e, b).own = r.own
               /\ x(e, b).st = "closing" /\ x(e, b).rest = e /\ x(e, b).sent = r.sent
               /\ x(e, b).ended = b
    <3>1. r \in Connection
      BY DEF Connections
    <3>2. x(e, b) \in Connection /\ x(e, b).st = "closing" /\ x(e, b).rest = e /\ ~x(e, b).busy
      BY <3>1 DEF Connection
    <3>3. x(e, b).want = r.want /\ x(e, b).own = r.own /\ x(e, b).sent = r.sent /\ x(e, b).ended = b
      BY <3>1 DEF Connection
    <3> HIDE DEF x
    <3>4. x(e, b) \in Connections
      BY <2>1, <3>2 DEF Connections
    <3> QED
      BY <3>2, <3>3, <3>4
  <2>2. r.own \in BOOLEAN
    BY DEF Connections, Connection
  <2> QED
    BY <1>1, <2>1, <2>2 DEF End
<1> QED
  BY <1>2, <1>3, <1>4

(* Giving a chunk to espconn_send.                                         *)
LEMMA SendOp ==
  ASSUME NEW r \in Connections, r.st = "open", NEW chunk \in Chunk
  PROVE  /\ Send(r, chunk) \in Connections
         /\ Send(r, chunk).busy /\ Send(r, chunk).st = "open"
         /\ Send(r, chunk).own = r.own /\ Send(r, chunk).want = r.want
         /\ Send(r, chunk).asked = r.asked /\ Send(r, chunk).rest = r.rest
         /\ Send(r, chunk).ended = r.ended
         /\ r.own /\ Len(r.sent) <= PageChunks + 1 => Send(r, chunk).sent = Append(r.sent, chunk)
<1>1. r.sent \in Seq(Chunk) /\ Append(r.sent, chunk) \in Seq(Chunk)
  BY AppendProperties DEF Connections, Connection
<1> QED
  BY <1>1 DEF Send, Connections, Connection

(* A change of one connection.                                             *)
LEMMA OneChanges ==
  ASSUME conn \in [Conns -> Connections], NEW c \in Conns, NEW r \in Connections,
         conn' = [conn EXCEPT ![c] = r]
  PROVE  /\ conn' \in [Conns -> Connections]
         /\ conn'[c] = r /\ \A d \in Conns \ {c} : conn'[d] = conn[d]
OBVIOUS

(* What a segment leads to, see PagesAnswer.                               *)
LEMMA SegmentAnswered ==
  ASSUME NEW c \in Conns, NEW seg, NEW r, web_recv_cb(c, seg, r)
  PROVE  \/ conn' = [conn EXCEPT ![c] = r] /\ sendDataList' \in {sendDataList, NotFound}
         \/ \E u \in httpServReslovURL(seg).urls :
              \E a \in Answers(u) : a # <<>> /\ Respond(c, r, a)
         \/ /\ conn' = [conn EXCEPT ![c] = End(r)] /\ UNCHANGED sendDataList
            /\ \E u \in httpServReslovURL(seg).urls : <<>> \in Answers(u)
<1>1. CASE httpServReslovURL(seg).urls = {}
  BY <1>1 DEF web_recv_cb
<1>2. ASSUME NEW u \in httpServReslovURL(seg).urls, Pages(c, r, u)
      PROVE  \/ conn' = [conn EXCEPT ![c] = r] /\ sendDataList' \in {sendDataList, NotFound}
             \/ \E a \in Answers(u) : a # <<>> /\ Respond(c, r, a)
             \/ /\ conn' = [conn EXCEPT ![c] = End(r)] /\ UNCHANGED sendDataList
                /\ <<>> \in Answers(u)
  BY <1>2, PagesAnswer
<1>3. \/ conn' = [conn EXCEPT ![c] = r] /\ UNCHANGED sendDataList
      \/ \E u \in httpServReslovURL(seg).urls : Pages(c, r, u)
  BY DEF web_recv_cb, Pages
<1> QED
  BY <1>2, <1>3

(* A segment keeps the types of the flags.                                 *)
LEMMA FlagsKept ==
  ASSUME Types, NEW c \in Conns, NEW seg, NEW r, web_recv_cb(c, seg, r)
  PROVE  /\ index_page_ckd' \in Ckds \cup {0} /\ is_frist_config_page' \in BOOLEAN
         /\ is_disconnect_cb_restart' \in BOOLEAN /\ g_webAPDisconResetFactory' \in BOOLEAN
<1>1. CASE UNCHANGED flags
  BY <1>1 DEF flags, Types
<1>2. ASSUME NEW u, index_htm(c, r, u) \/ save_htm(c, r, u)
      PROVE  /\ index_page_ckd' \in Ckds \cup {0} /\ is_frist_config_page' \in BOOLEAN
             /\ is_disconnect_cb_restart' \in BOOLEAN /\ g_webAPDisconResetFactory' \in BOOLEAN
  BY <1>2 DEF index_htm, save_htm, Types
<1>3. ASSUME NEW u, config_htm(c, r, u) \/ json(c, r, u)
      PROVE  /\ index_page_ckd' \in Ckds \cup {0} /\ is_frist_config_page' \in BOOLEAN
             /\ is_disconnect_cb_restart' \in BOOLEAN /\ g_webAPDisconResetFactory' \in BOOLEAN
  BY <1>3 DEF config_htm, json, Types
<1>4. ASSUME NEW u, favicon_ico(c, r, u) \/ NoFound(c, r, u)
      PROVE  UNCHANGED flags
  BY <1>4 DEF favicon_ico, NoFound
<1>5. ASSUME NEW u, jsonErr_htm(c, r, u)
      PROVE  /\ index_page_ckd' \in Ckds \cup {0} /\ is_frist_config_page' \in BOOLEAN
             /\ is_disconnect_cb_restart' \in BOOLEAN /\ g_webAPDisconResetFactory' \in BOOLEAN
  BY <1>5 DEF jsonErr_htm, Types
<1> QED
  BY <1>1, <1>2, <1>3, <1>4, <1>5 DEF web_recv_cb

(* What Respond sends is the first chunk of an answer.                     *)
LEMMA FirstChunk ==
  ASSUME NEW c \in Conns, NEW r, NEW u, NEW a \in Answers(u), a # <<>>, Respond(c, r, a)
  PROVE  /\ a \in Seq(Chunk) /\ Head(a) \in Chunk /\ sendDataList' = a
         /\ conn' = [conn EXCEPT ![c] = Send(r, Head(a))]
<1>1. a \in Seq(Chunk)
  BY AnswerTypes
<1>2. Head(a) \in Chunk /\ Head(a) = a[1]
  BY <1>1, HeadTailProperties
<1> QED
  BY <1>1, <1>2 DEF Respond, Response

(* A segment keeps the types.                                              *)
LEMMA SegmentTypes ==
  ASSUME Types, NEW c \in Conns, NEW seg \in Seq(Piece), NEW r \in Connections,
         r.st = "open", web_recv_cb(c, seg, r)
  PROVE  Types'
<1>1. cacheBuf' \in Seq(Piece) /\ Len(cacheBuf') < CacheSize /\ cacheLen' \in 0..Len(cacheBuf')
  BY CacheKept DEF Types, web_recv_cb
<1>2. conn' \in [Conns -> Connections] /\ sendDataList' \in Seq(Chunk)
  <2>1. CASE conn' = [conn EXCEPT ![c] = r] /\ sendDataList' \in {sendDataList, NotFound}
    BY <2>1, OneChanges, ShortTypes DEF Types
  <2>2. ASSUME NEW u, NEW a \in Answers(u), a # <<>>, Respond(c, r, a)
        PROVE  conn' \in [Conns -> Connections] /\ sendDataList' \in Seq(Chunk)
    <3>1. /\ a \in Seq(Chunk) /\ Head(a) \in Chunk /\ sendDataList' = a
          /\ conn' = [conn EXCEPT ![c] = Send(r, Head(a))]
      BY <2>2, FirstChunk
    <3>2. Send(r, Head(a)) \in Connections
      BY <3>1, SendOp
    <3> QED
      BY <3>1, <3>2, OneChanges DEF Types
  <2>3. CASE conn' = [conn EXCEPT ![c] = End(r)] /\ UNCHANGED sendDataList
    BY <2>3, OneChanges, ConnectionOps DEF Types
  <2> QED
    BY <2>1, <2>2, <2>3, SegmentAnswered
<1>3. UNCHANGED <<web_pEspConn, armed, jsonErr>>
  BY DEF web_recv_cb
<1> QED
  BY <1>1, <1>2, <1>3, FlagsKept DEF Types

(* A segment leaves one that is alone alone, and begins its answer.        *)
LEMMA SegmentAlone ==
  ASSUME Types, Alone, NEW c \in Conns, NEW seg, NEW r \in Connections,
         Open(c), r.st = "open", web_recv_cb(c, seg, r),
         r.own => /\ conn[c].own /\ Quiet(r) /\ r.asked /\ r.rest = <<>>
                  /\ httpServReslovURL(seg).urls = {r.want}
  PROVE  Alone'
<1> SUFFICES ASSUME NEW d \in Conns, conn'[d].own PROVE Good(d)'
  BY DEF Alone
<1>0. jsonErr' = jsonErr
  BY DEF web_recv_cb
<1>1. \E x \in Connections : conn' = [conn EXCEPT ![c] = x] /\ x.own = r.own
  <2>1. CASE conn' = [conn EXCEPT ![c] = r]
    BY <2>1
  <2>2. ASSUME NEW u, NEW a \in Answers(u), a # <<>>, Respond(c, r, a)
        PROVE  \E x \in Connections : conn' = [conn EXCEPT ![c] = x] /\ x.own = r.own
    BY <2>2, FirstChunk, SendOp
  <2>3. CASE conn' = [conn EXCEPT ![c] = End(r)]
    BY <2>3, ConnectionOps
  <2> QED
    BY <2>1, <2>2, <2>3, SegmentAnswered
<1>2. conn'[c].own = r.own /\ \A e \in Conns \ {c} : conn'[e] = conn[e]
  BY <1>1, OneChanges DEF Types
<1>3. d = c
  BY <1>2 DEF Alone, Good
<1>4. r.own /\ Good(c)
  BY <1>2, <1>3 DEF Alone
<1>5. \A e \in Conns \ {c} : ~Open(e)'
  BY <1>2, <1>4 DEF Good, Open
<1>6. CASE conn' = [conn EXCEPT ![c] = r]
  <2>1. conn'[c] = r
    BY <1>6 DEF Types
  <2> QED
    BY <1>3, <1>4, <1>5, <2>1 DEF Good, Quiet
<1>7. ASSUME NEW a \in Answers(r.want), a # <<>>, Respond(c, r, a) PROVE Good(d)'
  <2>1. /\ a \in Seq(Chunk) /\ Head(a) \in Chunk /\ sendDataList' = a
        /\ conn' = [conn EXCEPT ![c] = Send(r, Head(a))]
    BY <1>7, FirstChunk
  <2>2. conn'[c] = Send(r, Head(a))
    BY <2>1 DEF Types
  <2>3. Len(r.sent) <= PageChunks + 1
    BY <1>4, EmptySeq, WebAssumption DEF Quiet
  <2>4. /\ conn'[c].busy /\ conn'[c].st = "open" /\ conn'[c].want = r.want /\ conn'[c].asked
        /\ conn'[c].rest = <<>> /\ ~conn'[c].ended /\ conn'[c].sent = Append(<<>>, Head(a))
    BY <1>4, <2>1, <2>2, <2>3, SendOp DEF Quiet
  <2>5. /\ conn'[c].sent # <<>>
        /\ conn'[c].sent \o Tail(sendDataList') = a
    <3>1. <<>> \in Seq(Chunk)
      BY EmptySeq
    <3>2. Append(<<>>, Head(a)) # <<>>
      BY <2>1, <3>1, AppendProperties
    <3>3. Append(<<>>, Head(a)) \o Tail(a) = <<>> \o a
      BY <1>7, <2>1, <3>1, Shift
    <3> QED
      BY <2>1, <2>4, <3>2, <3>3, ConcatEmptySeq
  <2>6. Answering(conn[c])'
    BY <1>0, <1>7, <2>1, <2>4, <2>5 DEF Answering, Answers
  <2> QED
    BY <1>3, <1>5, <2>4, <2>6 DEF Good
<1>8. CASE conn' = [conn EXCEPT ![c] = End(r)] /\ <<>> \in Answers(r.want)
  <2>1. conn'[c] = End(r)
    BY <1>8 DEF Types
  <2>2. /\ conn'[c].st = "closing" /\ conn'[c].rest = <<>> /\ conn'[c].ended
        /\ conn'[c].sent = <<>> /\ conn'[c].want = r.want
    BY <1>4, <2>1, ConnectionOps DEF Quiet
  <2>3. Answered(conn[c])'
    BY <1>0, <1>8, <2>2 DEF Answered, Answers
  <2> QED
    BY <1>3, <1>5, <2>2, <2>3 DEF Good
<1>9. httpServReslovURL(seg).urls = {r.want}
  BY <1>4
<1> QED
  BY <1>6, <1>7, <1>8, <1>9, SegmentAnswered

-----------------------------------------------------------------------------
(* The rest of the steps.  Ending a connection leaves the others as they   *)
(* are.                                                                    *)
LEMMA Dropped ==
  ASSUME Types, Alone, NEW c \in Conns, NEW x \in Connections, ~x.own, x.st # "open",
         conn' = [conn EXCEPT ![c] = x], UNCHANGED <<sendDataList, jsonErr>>
  PROVE  Alone'
<1> SUFFICES ASSUME NEW d \in Conns, conn'[d].own PROVE Good(d)'
  BY DEF Alone
<1>1. conn'[c] = x /\ \A e \in Conns \ {c} : conn'[e] = conn[e]
  BY OneChanges DEF Types
<1>2. d # c /\ conn'[d] = conn[d] /\ Good(d)
  BY <1>1 DEF Alone
<1>3. \A e \in Conns \ {d} : ~Open(e)'
  BY <1>1, <1>2 DEF Good, Open
<1>4. /\ Quiet(conn[d]) => Quiet(conn[d])'
      /\ Answered(conn[d]) => Answered(conn[d])'
  BY <1>2 DEF Quiet, Answered, Answers
<1>5. conn'[d].rest = <<>>
  BY <1>2 DEF Good
<1>6. CASE Quiet(conn[d])
  BY <1>3, <1>4, <1>5, <1>6 DEF Good
<1>7. CASE Answering(conn[d])
  BY <1>2, <1>3, <1>5, <1>7 DEF Good, Answering, Answers
<1>8. CASE Answered(conn[d])
  BY <1>3, <1>4, <1>5, <1>8 DEF Good
<1> QED
  BY <1>2, <1>6, <1>7, <1>8 DEF Good

(* Each action keeps the invariant: a new connection;                      *)
LEMMA ListenKeeps == ASSUME IInv, NEW c \in Conns, web_listen(c) PROVE IInv'
<1> DEFINE refused  == [Closed EXCEPT !.st = "closing"]
           accepted == [Closed EXCEPT !.st = "open", !.own = \A e \in Conns : ~Open(e)]
<1>1. refused \in Connections /\ ~refused.own /\ refused.st # "open"
  BY ConnectionOps DEF Closed, Connections, Connection
<1>2. ASSUME NEW b \in BOOLEAN
      PROVE  LET x == [Closed EXCEPT !.st = "open", !.own = b]
             IN  x \in Connections /\ x.own = b /\ Quiet(x) /\ x.rest = <<>>
  <2>1. Closed \in Connections
    BY ConnectionOps
  <2>2. ~Closed.busy /\ Closed.rest = <<>> /\ Closed.sent = <<>> /\ ~Closed.ended
    BY DEF Closed
  <2> QED
    BY <2>1, <2>2 DEF Connections, Connection, Quiet
<1>3. accepted \in Connections /\ accepted.own = (\A e \in Conns : ~Open(e)) /\ Quiet(accepted)
      /\ accepted.rest = <<>>
  BY <1>2
<1> HIDE DEF refused, accepted
<1>4. CASE conn' = [conn EXCEPT ![c] = refused]
  <2>1. Alone'
    BY <1>1, <1>4, Dropped DEF IInv, web_listen
  <2>2. conn' \in [Conns -> Connections]
    BY <1>1, <1>4 DEF IInv, Types
  <2> QED
    BY <2>1, <2>2 DEF IInv, Types, web_listen, cache, flags
<1>5. CASE conn' = [d \in Conns |-> IF d = c THEN accepted ELSE NotOwn(conn[d])]
  <2>1. conn' \in [Conns -> Connections]
    BY <1>3, <1>5, ConnectionOps DEF IInv, Types
  <2>2. conn'[c] = accepted /\ \A d \in Conns \ {c} : ~conn'[d].own /\ conn'[d].st = conn[d].st
    BY <1>5, ConnectionOps DEF IInv, Types
  <2>3. ASSUME NEW d \in Conns, conn'[d].own PROVE Good(d)'
    <3>1. d = c /\ \A e \in Conns : ~Open(e)
      BY <1>3, <2>2, <2>3
    <3>2. \A e \in Conns \ {c} : ~Open(e)'
      BY <2>2, <3>1 DEF Open
    <3> QED
      BY <1>3, <2>2, <3>1, <3>2 DEF Good, Quiet
  <2> QED
    BY <2>1, <2>3 DEF IInv, Alone, Types, web_listen, cache, flags
<1> QED
  BY <1>4, <1>5 DEF web_listen, refused, accepted

(* a request, whole or its first part;                                     *)
LEMMA AskKeeps == ASSUME IInv, NEW c \in Conns, Ask(c) PROVE IInv'
<1> PICK q \in Requests, n \in 1..3 :
      LET r == [conn[c] EXCEPT !.asked = TRUE, !.rest = SubSeq(Text(q), n + 1, 3)]
      IN  web_recv_cb(c, SubSeq(Text(q), 1, n),
                      IF r.own /\ n = 3 /\ cacheLen = 0 THEN [r EXCEPT !.want = q] ELSE NotOwn(r))
  BY DEF Ask
<1> DEFINE seg == SubSeq(Text(q), 1, n)
           r0  == [conn[c] EXCEPT !.asked = TRUE, !.rest = SubSeq(Text(q), n + 1, 3)]
           r   == IF r0.own /\ n = 3 /\ cacheLen = 0 THEN [r0 EXCEPT !.want = q] ELSE NotOwn(r0)
<1>1. web_recv_cb(c, seg, r) /\ Open(c) /\ ~conn[c].asked /\ conn[c] \in Connections
  BY DEF Ask, IInv, Types
<1>2. \A i \in 1..3 : Text(q)[i] \in Piece
  BY TextType, ElementOfSeq
<1>3. seg \in Seq(Piece)
  BY <1>2, SubSeqProperties
<1>4. SubSeq(Text(q), n + 1, 3) \in Seq(Piece) /\ Len(SubSeq(Text(q), n + 1, 3)) < 3
  BY <1>2, SubSeqProperties
<1>5. n = 3 => seg = Text(q) /\ SubSeq(Text(q), n + 1, 3) = <<>>
  BY TextType, SubSeqFull, SubSeqEmpty
<1> HIDE DEF seg
<1>6. ASSUME NEW rest \in Seq(Piece), Len(rest) < 3
      PROVE  LET x == [conn[c] EXCEPT !.asked = TRUE, !.rest = rest]
             IN  /\ x \in Connections /\ x.st = "open" /\ x.own = conn[c].own /\ x.asked
                 /\ x.rest = rest /\ x.busy = conn[c].busy /\ x.sent = conn[c].sent
                 /\ x.ended = conn[c].ended
  BY <1>1, <1>6 DEF Connections, Connection, Open
<1>7. /\ r0 \in Connections /\ r0.st = "open" /\ r0.own = conn[c].own /\ r0.asked
      /\ r0.rest = SubSeq(Text(q), n + 1, 3) /\ r0.busy = conn[c].busy
      /\ r0.sent = conn[c].sent /\ r0.ended = conn[c].ended
  BY <1>4, <1>6
<1> HIDE DEF r0
<1>8. LET x == [r0 EXCEPT !.want = q]
      IN  /\ x \in Connections /\ x.st = "open" /\ x.own = r0.own /\ x.asked /\ x.want = q
          /\ x.rest = r0.rest /\ x.busy = r0.busy /\ x.sent = r0.sent /\ x.ended = r0.ended
  BY <1>7 DEF Connections, Connection
<1>9. r \in Connections /\ r.st = "open"
  BY <1>7, <1>8, ConnectionOps
<1>10. r.own => /\ conn[c].own /\ Quiet(r) /\ r.asked /\ r.rest = <<>>
                /\ httpServReslovURL(seg).urls = {r.want}
  <2> SUFFICES ASSUME r.own
               PROVE  /\ conn[c].own /\ Quiet(r) /\ r.asked /\ r.rest = <<>>
                      /\ httpServReslovURL(seg).urls = {r.want}
    OBVIOUS
  <2>1. r0.own /\ n = 3 /\ cacheLen = 0 /\ r = [r0 EXCEPT !.want = q]
    BY <1>7, ConnectionOps
  <2>2. Good(c) /\ conn[c].own
    BY <1>7, <2>1 DEF IInv, Alone
  <2>3. Quiet(conn[c])
    BY <1>1, <2>2 DEF Good, Answering, Answered, Open
  <2>4. Quiet(r) /\ r.asked /\ r.rest = <<>> /\ r.want = q
    BY <1>5, <1>7, <1>8, <2>1, <2>3 DEF Quiet
  <2>5. httpServReslovURL(seg).urls = {q}
    BY <1>5, <2>1, WholeRequestFound DEF IInv, Types
  <2> QED
    BY <2>2, <2>4, <2>5
<1> HIDE DEF r
<1> QED
  BY <1>1, <1>3, <1>9, <1>10, SegmentTypes, SegmentAlone DEF IInv

(* the rest of a request;                                                  *)
LEMMA AskRestKeeps == ASSUME IInv, NEW c \in Conns, AskRest(c) PROVE IInv'
<1> DEFINE r == [conn[c] EXCEPT !.rest = <<>>]
<1> HIDE DEF r
<1>1. /\ Open(c) /\ conn[c].rest # <<>> /\ web_recv_cb(c, conn[c].rest, r)
      /\ conn[c] \in Connections
  BY DEF AskRest, IInv, Types, r
<1>2. conn[c].rest \in Seq(Piece)
  BY <1>1 DEF Connections, Connection
<1>3. ASSUME NEW e \in Seq(Piece), Len(e) = 0
      PROVE  LET x == [conn[c] EXCEPT !.rest = e]
             IN  x \in Connections /\ x.st = "open" /\ x.own = conn[c].own
  <2> DEFINE x == [conn[c] EXCEPT !.rest = e]
  <2>1. conn[c] \in Connection /\ conn[c].st = "open" /\ Len(e) < 3
    BY <1>1, <1>3 DEF Connections, Open
  <2>2. x \in Connection /\ x.st = "open" /\ x.rest = e /\ x.own = conn[c].own
    BY <2>1 DEF Connection
  <2> HIDE DEF x
  <2>3. x \in Connections
    BY <2>1, <2>2 DEF Connections
  <2> QED
    BY <2>2, <2>3 DEF x
<1>4. r \in Connections /\ r.st = "open" /\ r.own = conn[c].own
  BY <1>3, EmptySeq DEF r
<1>5. ~r.own
  BY <1>1, <1>4 DEF IInv, Alone, Good
<1> QED
  BY <1>1, <1>2, <1>4, <1>5, SegmentTypes, SegmentAlone DEF IInv

(* a chunk that has been acknowledged;                                     *)
LEMMA SendCbKeeps == ASSUME IInv, NEW c \in Conns, web_send_cb(c) PROVE IInv'
<1> DEFINE r    == [conn[c] EXCEPT !.busy = FALSE]
           next == IF sendDataList = <<>> THEN <<>> ELSE Tail(sendDataList)
<1> HIDE DEF r, next
<1>1. /\ Open(c) /\ conn[c].busy /\ conn[c] \in Connections /\ sendDataList' = next
      /\ \/ next # <<>> /\ conn' = [conn EXCEPT ![c] = Send(r, Head(next))]
         \/ next = <<>> /\ conn' = [conn EXCEPT ![c] = End(r)]
         \/ sendDataList = <<>> /\ conn' = [conn EXCEPT ![c] = Send(r, Garbage)]
      /\ UNCHANGED <<web_pEspConn, cacheBuf, cacheLen, flags, armed, jsonErr>>
  BY DEF web_send_cb, IInv, Types, r, next, cache
<1>2. /\ r \in Connections /\ r.st = "open" /\ r.own = conn[c].own /\ r.asked = conn[c].asked
      /\ r.rest = conn[c].rest /\ r.want = conn[c].want /\ r.sent = conn[c].sent
      /\ r.ended = conn[c].ended
  BY <1>1 DEF r, Connections, Connection, Open
<1>3. next \in Seq(Chunk)
  BY EmptySeq, HeadTailProperties DEF IInv, Types, next
<1>4. next # <<>> => Head(next) \in Chunk
  BY <1>3, HeadTailProperties
<1>5. \E x \in Connections : conn' = [conn EXCEPT ![c] = x] /\ x.own = r.own
  BY <1>1, <1>2, <1>4, SendOp, ConnectionOps, ShortTypes
<1>6. /\ conn' \in [Conns -> Connections] /\ conn'[c].own = conn[c].own
      /\ \A d \in Conns \ {c} : conn'[d] = conn[d]
  BY <1>2, <1>5, OneChanges DEF IInv, Types
<1>7. Types'
  BY <1>1, <1>3, <1>6 DEF IInv, Types, flags
<1>8. ASSUME NEW d \in Conns, conn'[d].own PROVE Good(d)'
  <2>1. conn[d].own /\ Good(d)
    BY <1>6, <1>8 DEF IInv, Alone
  <2>2. d = c
    BY <1>1, <2>1 DEF Good
  <2>3. \A e \in Conns \ {c} : ~Open(e)'
    BY <1>6, <2>1, <2>2 DEF Good, Open
  <2>4. Answering(conn[c]) /\ conn[c].rest = <<>>
    BY <1>1, <2>1, <2>2 DEF Good, Quiet, Answered, Open
  <2>5. /\ sendDataList # <<>> /\ next = Tail(sendDataList) /\ r.own /\ r.asked /\ ~r.ended
        /\ r.sent \in Seq(Chunk) /\ r.sent # <<>> /\ r.sent \o next \in Answers(r.want)
    BY <1>2, <2>1, <2>2, <2>4 DEF Answering, next, Connections, Connection
  <2>6. CASE next # <<>> /\ conn' = [conn EXCEPT ![c] = Send(r, Head(next))]
    <3>1. conn'[c] = Send(r, Head(next))
      BY <2>6 DEF IInv, Types
    <3>2. Len(r.sent) <= PageChunks + 1
      <4>1. Len(r.sent \o next) = Len(r.sent) + Len(next) /\ Len(next) \in Nat /\ Len(r.sent) \in Nat
        BY <1>3, <2>5, ConcatProperties, LenProperties
      <4>2. Len(r.sent \o next) <= PageChunks + 1
        BY <2>5, AnswerTypes
      <4> QED
        BY <4>1, <4>2, WebAssumption
    <3>3. /\ conn'[c].busy /\ conn'[c].st = "open" /\ conn'[c].want = r.want /\ conn'[c].asked
          /\ conn'[c].rest = <<>> /\ ~conn'[c].ended /\ conn'[c].sent = Append(r.sent, Head(next))
      <4>1. LET x == Send(r, Head(next))
            IN  /\ x.busy /\ x.st = "open" /\ x.want = r.want /\ x.asked = r.asked
                /\ x.rest = r.rest /\ x.ended = r.ended /\ x.sent = Append(r.sent, Head(next))
        BY <1>2, <1>4, <2>5, <2>6, <3>2, SendOp
      <4> QED
        BY <1>2, <2>4, <2>5, <3>1, <4>1
    <3>4. /\ conn'[c].sent # <<>>
          /\ conn'[c].sent \o Tail(next) = r.sent \o next
      <4>1. Append(r.sent, Head(next)) # <<>>
        BY <1>4, <2>5, <2>6, AppendProperties, EmptySeq
      <4>2. Append(r.sent, Head(next)) \o Tail(next) = r.sent \o next
        BY <1>3, <2>5, <2>6, Shift
      <4> QED
        BY <3>3, <4>1, <4>2
    <3>5. Answering(conn[c])'
      BY <1>1, <2>5, <2>6, <3>3, <3>4 DEF Answering, Answers
    <3> QED
      BY <2>2, <2>3, <3>3, <3>5 DEF Good
  <2>7. CASE next = <<>> /\ conn' = [conn EXCEPT ![c] = End(r)]
    <3>1. conn'[c] = End(r)
      BY <2>7 DEF IInv, Types
    <3>2. /\ conn'[c].st = "closing" /\ conn'[c].rest = <<>> /\ conn'[c].ended
          /\ conn'[c].sent = r.sent /\ conn'[c].want = r.want
      BY <1>2, <2>5, <3>1, ConnectionOps
    <3>3. r.sent \in Answers(r.want)
      BY <2>5, <2>7, ConcatEmptySeq
    <3>4. Answered(conn[c])'
      BY <1>1, <3>2, <3>3 DEF Answered, Answers
    <3> QED
      BY <2>2, <2>3, <3>2, <3>4 DEF Good
  <2> QED
    BY <1>1, <2>5, <2>6, <2>7
<1> QED
  BY <1>7, <1>8 DEF IInv, Alone

(* A connection that ends, by a callback, an error or for being idle.      *)
LEMMA EndKeeps ==
  ASSUME IInv, NEW c \in Conns, web_discon_cb(c) \/ web_recon_cb(c) \/ Timeout(c)
  PROVE  IInv'
<1>1. \E x \in Connections : ~x.own /\ x.st # "open" /\ conn' = [conn EXCEPT ![c] = x]
  <2>1. CASE web_discon_cb(c) \/ web_recon_cb(c)
    BY <2>1, ConnectionOps DEF web_discon_cb, web_recon_cb
  <2>2. [Closed EXCEPT !.st = "closing"] \in Connections
        /\ ~[Closed EXCEPT !.st = "closing"].own /\ [Closed EXCEPT !.st = "closing"].st # "open"
    BY ConnectionOps DEF Closed, Connections, Connection
  <2>3. CASE Timeout(c)
    BY <2>2, <2>3 DEF Timeout
  <2> QED
    BY <2>1, <2>3
<1>2. conn' \in [Conns -> Connections]
  BY <1>1, OneChanges DEF IInv, Types
<1>3. /\ web_pEspConn' \in {web_pEspConn, NoConn} /\ armed' \in {armed, RestartTicks}
      /\ g_webAPDisconResetFactory' \in BOOLEAN
      /\ UNCHANGED <<cacheBuf, cacheLen, sendDataList, index_page_ckd, is_frist_config_page,
                     is_disconnect_cb_restart, jsonErr>>
  BY DEF web_discon_cb, web_recon_cb, Timeout, cache, flags, IInv, Types
<1>4. armed' \in 0..RestartTicks
  BY <1>3, TickAssumption DEF IInv, Types
<1> QED
  BY <1>1, <1>2, <1>3, <1>4, Dropped DEF IInv, Types

(* What the invariant says of a connection does not mention the timer.     *)
LEMMA TimerKeeps ==
  ASSUME IInv, UNCHANGED <<conn, web_pEspConn, cache, sendDataList, flags, jsonErr>>,
         armed' \in 0..RestartTicks
  PROVE  IInv'
<1>1. Types'
  BY DEF cache, flags, IInv, Types
<1>2. ASSUME NEW c \in Conns, conn'[c].own PROVE Good(c)'
  <2>1. conn' = conn /\ sendDataList' = sendDataList /\ jsonErr' = jsonErr /\ Good(c)
    BY <1>2 DEF IInv, Alone
  <2> QED
    BY <2>1 DEF Good, Quiet, Answering, Answered, Answers, Open
<1> QED
  BY <1>1, <1>2 DEF IInv, Alone

(* A tick of the timer, and the restart.                                   *)
LEMMA RestartKeeps == ASSUME IInv, trRestartHandler PROVE IInv'
<1>1. CASE armed > 1
  <2>1. UNCHANGED <<conn, web_pEspConn, cache, sendDataList, flags, jsonErr>> /\ armed' = armed - 1
    BY <1>1 DEF trRestartHandler
  <2>2. armed' \in 0..RestartTicks
    BY <1>1, <2>1, TickAssumption DEF IInv, Types
  <2> QED
    BY <2>1, <2>2, TimerKeeps
<1>2. CASE armed = 1
  <2>1. conn' = [c \in Conns |-> Closed] /\ <<>> \in Seq(Piece) /\ <<>> \in Seq(Chunk) /\ Len(<<>>) = 0
    BY <1>2, EmptySeq DEF trRestartHandler
  <2>2. Types'
    <3>1. conn' \in [Conns -> Connections]
      BY <2>1, ConnectionOps
    <3>2. Len(cacheBuf') < CacheSize /\ cacheLen' \in 0..Len(cacheBuf')
      BY <1>2, <2>1, WebAssumption DEF trRestartHandler
    <3>3. armed' \in 0..RestartTicks
      BY <1>2, TickAssumption DEF trRestartHandler
    <3>4. /\ web_pEspConn' = NoConn /\ sendDataList' = <<>> /\ cacheBuf' = <<>>
          /\ index_page_ckd' = 0
      BY <1>2 DEF trRestartHandler
    <3>5. /\ is_frist_config_page' \in BOOLEAN /\ is_disconnect_cb_restart' \in BOOLEAN
          /\ g_webAPDisconResetFactory' \in BOOLEAN /\ jsonErr' \in BOOLEAN
      <4>1. ~(armed > 1)
        BY <1>2
      <4> QED
        BY <4>1, Zenon DEF trRestartHandler
    <3> QED
      BY <2>1, <3>1, <3>2, <3>3, <3>4, <3>5 DEF Types
  <2>3. Alone'
    BY <2>1, ConnectionOps DEF Alone
  <2> QED
    BY <2>2, <2>3 DEF IInv
<1> QED
  BY <1>1, <1>2 DEF trRestartHandler

(* The invariant holds at the start, and every step keeps it.              *)
LEMMA InitGood == Init => IInv
<1> SUFFICES ASSUME Init PROVE IInv
  OBVIOUS
<1>1. <<>> \in Seq(Piece) /\ <<>> \in Seq(Chunk) /\ Len(<<>>) = 0
  BY EmptySeq
<1>2. Types
  <2>1. conn \in [Conns -> Connections]
    BY ConnectionOps DEF Init
  <2>2. /\ Len(cacheBuf) < CacheSize /\ cacheLen \in 0..Len(cacheBuf)
        /\ armed \in 0..RestartTicks
    BY <1>1, WebAssumption, TickAssumption DEF Init
  <2> QED
    BY <1>1, <2>1, <2>2 DEF Types, Init
<1>3. Alone
  BY ConnectionOps DEF Alone, Init
<1> QED
  BY <1>2, <1>3 DEF IInv

(* The induction step, action by action.                                   *)
LEMMA Inductive == IInv /\ [Next]_vars => IInv'
<1> SUFFICES ASSUME IInv, [Next]_vars PROVE IInv'
  OBVIOUS
<1>1. ASSUME NEW c \in Conns, web_listen(c) PROVE IInv'
  BY <1>1, ListenKeeps
<1>2. ASSUME NEW c \in Conns, Ask(c) PROVE IInv'
  BY <1>2, AskKeeps
<1>3. ASSUME NEW c \in Conns, AskRest(c) PROVE IInv'
  BY <1>3, AskRestKeeps
<1>4. ASSUME NEW c \in Conns, web_send_cb(c) PROVE IInv'
  BY <1>4, SendCbKeeps
<1>5. ASSUME NEW c \in Conns, web_discon_cb(c) \/ web_recon_cb(c) \/ Timeout(c) PROVE IInv'
  BY <1>5, EndKeeps
<1>6. CASE trRestartHandler
  BY <1>6, RestartKeeps
<1>7. CASE UNCHANGED vars
  <2>1. UNCHANGED <<conn, web_pEspConn, cache, sendDataList, flags, jsonErr>> /\ armed' = armed
    BY <1>7 DEF vars
  <2>2. armed' \in 0..RestartTicks
    BY <2>1 DEF IInv, Types
  <2> QED
    BY <2>1, <2>2, TimerKeeps
<1> QED
  BY <1>1, <1>2, <1>3, <1>4, <1>5, <1>6, <1>7 DEF Next

(* The inductive invariant, always.                                        *)
LEMMA InvariantIsTrue == Spec => []IInv
BY InitGood, Inductive, PTL DEF Spec

-----------------------------------------------------------------------------
(* The server's variables keep their types; the cache never holds as much  *)
(* as cacheBuf, whatever is sent to it in whatever pieces.                 *)
THEOREM TypeCorrect == Spec => []TypeOK
<1>1. IInv => TypeOK
  BY DEF IInv, Types, Connections, Connection, TypeOK, Open
<1> QED
  BY <1>1, InvariantIsTrue, PTL

(* One that is alone with the server gets the answer to its own request and*)
(* nothing else: for any number of connections, any pages' length, any     *)
(* requests, cut or whole, and whatever earlier ones have left behind.     *)
THEOREM AnswerIsOwn == Spec => []AnswersItsOwn
<1>1. IInv => AnswersItsOwn
  <2> SUFFICES ASSUME IInv, NEW c \in Conns, conn[c].own,
                      conn[c].sent # <<>> \/ conn[c].ended
               PROVE  \E a \in Answers(conn[c].want) :
                        IsPrefix(conn[c].sent, a) /\ (conn[c].ended => conn[c].sent = a)
    BY DEF AnswersItsOwn
  <2>1. conn[c].sent \in Seq(Chunk) /\ sendDataList \in Seq(Chunk) /\ Good(c)
    BY DEF IInv, Types, Alone, Connections, Connection
  <2>2. CASE Answering(conn[c])
    <3>1. Tail(sendDataList) \in Seq(Chunk)
      BY <2>1, <2>2, HeadTailProperties DEF Answering
    <3>2. IsPrefix(conn[c].sent, conn[c].sent \o Tail(sendDataList))
      BY <2>1, <3>1, ConcatHasPrefix
    <3> QED
      BY <2>2, <3>2 DEF Answering
  <2>3. CASE Answered(conn[c])
    <3>1. <<>> \in Seq(Chunk) /\ conn[c].sent \o <<>> = conn[c].sent
      BY <2>1, EmptySeq, ConcatEmptySeq
    <3>2. IsPrefix(conn[c].sent, conn[c].sent)
      BY <2>1, <3>1, ConcatHasPrefix
    <3> QED
      BY <2>3, <3>2 DEF Answered
  <2> QED
    BY <2>1, <2>2, <2>3 DEF Good, Quiet
<1> QED
  BY <1>1, InvariantIsTrue, PTL

-----------------------------------------------------------------------------
(* The browser's encoding.                                                 *)

(* A hexadecimal digit is one, has its value, and means nothing in a URL.  *)
LEMMA HexDigits ==
  ASSUME NEW d \in 0..15
  PROVE  /\ HexDigit(d) \in Char \ {Amp, Equals, Mark}
         /\ IsXDigit(HexDigit(d)) /\ DigitOf(HexDigit(d)) = d
<1>1. CASE d < 10
  BY <1>1 DEF HexDigit, Char, Amp, Equals, Mark, IsXDigit, DigitOf
<1>2. CASE d >= 10
  BY <1>2 DEF HexDigit, Char, Amp, Equals, Mark, IsXDigit, DigitOf
<1> QED
  BY <1>1, <1>2

(* An encoded character is one character that urldecode turns into it, or  *)
(* an escape with its value.                                               *)
LEMMA EncodedCharIs ==
  ASSUME NEW c \in Char
  PROVE  /\ EncodedChar(c) \in Seq(Char)
         /\ EncodedChar(c) \in Seq(Char \ {Amp, Equals, Mark})
         /\ \/ /\ Len(EncodedChar(c)) = 1
               /\ EncodedChar(c)[1] # Percent /\ Unescaped(EncodedChar(c)[1]) = c
            \/ /\ Len(EncodedChar(c)) = 3
               /\ EncodedChar(c)[1] = Percent
               /\ IsXDigit(EncodedChar(c)[2]) /\ IsXDigit(EncodedChar(c)[3])
               /\ 16 * DigitOf(EncodedChar(c)[2]) + DigitOf(EncodedChar(c)[3]) = c
<1>1. CASE c = Blank
  <2>1. EncodedChar(c) = <<Plus>>
    BY <1>1 DEF EncodedChar, Unreserved, Blank
  <2>2. Plus \in Char \ {Amp, Equals, Mark} /\ Plus # Percent
    BY DEF Plus, Percent, Amp, Equals, Mark, Char
  <2>3. Unescaped(Plus) = c
    BY <1>1 DEF Unescaped
  <2> QED
    BY <2>1, <2>2, <2>3
<1>2. CASE c # Blank /\ c \in Unreserved
  <2>1. EncodedChar(c) = <<c>>
    BY <1>2 DEF EncodedChar
  <2>2. c \notin {Plus, Percent, Amp, Equals, Mark}
    BY <1>2 DEF Unreserved, Plus, Percent, Amp, Equals, Mark
  <2> QED
    BY <2>1, <2>2 DEF Unescaped
<1>3. CASE c # Blank /\ c \notin Unreserved
  <2> DEFINE h == HexDigit(c \div 16)
             l == HexDigit(c % 16)
  <2>1. EncodedChar(c) = <<Percent, h, l>>
    BY <1>3 DEF EncodedChar
  <2>2. c \div 16 \in 0..15 /\ c % 16 \in 0..15 /\ 16 * (c \div 16) + (c % 16) = c
    BY DEF Char
  <2>3. /\ h \in Char \ {Amp, Equals, Mark} /\ IsXDigit(h) /\ DigitOf(h) = c \div 16
        /\ l \in Char \ {Amp, Equals, Mark} /\ IsXDigit(l) /\ DigitOf(l) = c % 16
    BY <2>2, HexDigits
  <2>4. Percent \in Char \ {Amp, Equals, Mark}
    BY DEF Percent, Char, Amp, Equals, Mark
  <2> HIDE DEF h, l
  <2> QED
    BY <2>1, <2>2, <2>3, <2>4
<1> QED
  BY <1>1, <1>2, <1>3

(* FormEncode, character by character.                                     *)
LEMMA EncodeSteps ==
  ASSUME NEW text \in Seq(Char)
  PROVE  \E F \in [0..Len(text) -> Seq(Char)] :
           /\ F[0] = <<>> /\ F[Len(text)] = FormEncode(text)
           /\ \A n \in 1..Len(text) : F[n] = F[n - 1] \o EncodedChar(text[n])
<1> DEFINE parts == [i \in DOMAIN text |-> EncodedChar(text[i])]
<1>1. Len(text) \in Nat /\ DOMAIN text = 1..Len(text) /\ \A n \in 1..Len(text) : text[n] \in Char
  OBVIOUS
<1>2. \A c \in Char : EncodedChar(c) \in Seq(Char)
  BY EncodedCharIs
<1>3. \A n \in 1..Len(text) : parts[n] = EncodedChar(text[n]) /\ parts[n] \in Seq(Char)
  BY <1>1, <1>2
<1>4. parts \in Seq(Seq(Char)) /\ Len(parts) = Len(text)
  BY <1>1, <1>3
<1>5. FormEncode(text) = FlattenSeq(parts)
  BY DEF FormEncode
<1> HIDE DEF parts
<1>6. PICK F \in [0..Len(parts) -> Seq(Char)] :
        /\ F[0] = <<>>
        /\ \A n \in 1..Len(parts) : F[n] = F[n - 1] \o parts[n]
        /\ FlattenSeq(parts) = F[Len(parts)]
  BY <1>4, Flattened
<1> QED
  BY <1>3, <1>4, <1>5, <1>6

(* An encoded text has no mark that means something in a URL, and is empty *)
(* only if the text is.                                                    *)
LEMMA EncodedText ==
  ASSUME NEW text \in Seq(Char)
  PROVE  /\ FormEncode(text) \in Seq(Char)
         /\ \A i \in 1..Len(FormEncode(text)) : FormEncode(text)[i] \notin {Amp, Equals, Mark}
         /\ FormEncode(text) = <<>> <=> text = <<>>
<1> DEFINE N == Len(text)
           Clear(s) == \A i \in 1..Len(s) : s[i] \notin {Amp, Equals, Mark}
<1>1. N \in Nat /\ \A n \in 1..N : text[n] \in Char
  OBVIOUS
<1> HIDE DEF N
<1>2. PICK F \in [0..N -> Seq(Char)] :
        /\ F[0] = <<>> /\ F[N] = FormEncode(text)
        /\ \A n \in 1..N : F[n] = F[n - 1] \o EncodedChar(text[n])
  BY EncodeSteps DEF N
<1> DEFINE X == {k \in 0..N : Clear(F[k]) /\ Len(F[k]) >= k}
<1>3. 0 \in X
  BY <1>1, <1>2
<1>4. ASSUME NEW k \in 0..N-1, k \in X
      PROVE  k + 1 \in X
  <2> DEFINE e == EncodedChar(text[k + 1])
             s == F[k]
  <2>1. k \in Nat /\ k + 1 \in 1..N /\ k + 1 \in 0..N /\ k \in 0..N /\ (k + 1) - 1 = k
    BY <1>1
  <2>2. text[k + 1] \in Char
    BY <1>1, <2>1
  <2>3. e \in Seq(Char \ {Amp, Equals, Mark}) /\ Len(e) \in {1, 3}
    BY <2>2, EncodedCharIs
  <2>4. F[k + 1] = s \o e
    BY <1>2, <2>1, Zenon
  <2>5. s \in Seq(Char) /\ Clear(s) /\ Len(s) >= k
    BY <1>4, <2>1
  <2> HIDE DEF e, s
  <2>6. e \in Seq(Char) /\ Clear(e)
    BY <2>3
  <2>7. /\ Len(s) \in Nat /\ Len(e) \in Nat /\ Len(s \o e) = Len(s) + Len(e)
        /\ \A i \in 1..Len(s) : (s \o e)[i] = s[i]
        /\ \A i \in 1..Len(e) : (s \o e)[Len(s) + i] = e[i]
    BY <2>5, <2>6, ConcatParts
  <2>8. \A n \in 1..Len(s)+Len(e) : n \in 1..Len(s) \/ \E i \in 1..Len(e) : n = Len(s) + i
    BY <2>7, Positions
  <2>9. Clear(s \o e)
    BY <2>5, <2>6, <2>7, <2>8
  <2>10. Len(s \o e) >= k + 1
    <3> DEFINE l == Len(s)
               a == Len(e)
               u == Len(s \o e)
    <3>1. l \in Nat /\ a \in {1, 3} /\ l >= k /\ u = l + a
      BY <2>3, <2>5, <2>7
    <3> HIDE DEF l, a, u
    <3>2. u >= k + 1
      BY <2>1, <3>1
    <3> QED
      BY <3>2 DEF u
  <2> QED
    BY <2>1, <2>4, <2>9, <2>10
<1> HIDE DEF X
<1>5. N \in X
  <2>1. N \in 0..N
    BY <1>1
  <2> QED
    BY <1>1, <1>3, <1>4, <2>1, Induction
<1>6. Clear(F[N]) /\ Len(F[N]) >= N /\ F[N] \in Seq(Char)
  BY <1>1, <1>5 DEF X
<1>7. N = 0 <=> text = <<>>
  BY DEF N
<1>8. N # 0 => F[N] # <<>>
  BY <1>1, <1>6
<1> QED
  BY <1>2, <1>6, <1>7, <1>8

-----------------------------------------------------------------------------
(* The decoding.                                                           *)
Decoder == [text : Seq(Nat), skip : 0..2]
Start   == [text |-> <<>>, skip |-> 0]

(* What a step makes of the parts of a decoder.                            *)
LEMMA DecodedParts ==
  ASSUME NEW str \in Seq(Char), NEW n \in 1..Len(str), NEW t \in Seq(Nat), NEW k \in 0..2
  PROVE  LET done == [text |-> t, skip |-> k]
         IN  /\ k > 0 => Decoded(done, str, n) = [text |-> t, skip |-> k - 1]
             /\ k = 0 /\ IsEscape(str, n) =>
                  /\ 16 * DigitOf(str[n + 1]) + DigitOf(str[n + 2]) \in Nat
                  /\ Decoded(done, str, n) =
                       [text |-> Append(t, 16 * DigitOf(str[n + 1]) + DigitOf(str[n + 2])), skip |-> 2]
             /\ k = 0 /\ ~IsEscape(str, n) =>
                  /\ Unescaped(str[n]) \in Nat
                  /\ Decoded(done, str, n) = [text |-> Append(t, Unescaped(str[n])), skip |-> 0]
<1> DEFINE done == [text |-> t, skip |-> k]
<1>1. done.text = t /\ done.skip = k
  OBVIOUS
<1>2. k > 0 => Decoded(done, str, n) = [text |-> t, skip |-> k - 1]
  BY DEF Decoded
<1>3. ASSUME k = 0, IsEscape(str, n)
      PROVE  16 * DigitOf(str[n + 1]) + DigitOf(str[n + 2]) \in Nat
  <2>1. ASSUME NEW c, IsXDigit(c) PROVE DigitOf(c) \in Nat
    <3>1. ASSUME NEW x \in 48..57 PROVE DigitOf(x) \in Nat
      <4>1. x \notin 65..70 /\ x \in 48..57
        OBVIOUS
      <4>2. DigitOf(x) = x - 48
        BY <4>1, Zenon DEF DigitOf
      <4> QED
        BY <4>2
    <3>2. \A x \in 65..70 : DigitOf(x) \in Nat
      BY DEF DigitOf
    <3>3. ASSUME NEW x \in 97..102 PROVE DigitOf(x) \in Nat
      <4>1. x \notin 65..70 /\ x \notin 48..57
        OBVIOUS
      <4>2. DigitOf(x) = x - 87
        BY <4>1, Zenon DEF DigitOf
      <4> QED
        BY <4>2
    <3> QED
      BY <2>1, <3>1, <3>2, <3>3 DEF IsXDigit
  <2>2. DigitOf(str[n + 1]) \in Nat /\ DigitOf(str[n + 2]) \in Nat
    BY <1>3, <2>1 DEF IsEscape
  <2> QED
    BY <2>2
<1>4. Unescaped(str[n]) \in Nat
  <2>1. str[n] \in Nat
    <3>1. str[n] \in Char
      OBVIOUS
    <3>2. \A c \in Char : c \in Nat
      BY DEF Char
    <3> QED
      BY <3>1, <3>2
  <2> QED
    BY <2>1 DEF Unescaped, Blank
<1>5. k = 0 /\ IsEscape(str, n) =>
        Decoded(done, str, n) =
          [text |-> Append(t, 16 * DigitOf(str[n + 1]) + DigitOf(str[n + 2])), skip |-> 2]
  BY DEF Decoded
<1>6. k = 0 /\ ~IsEscape(str, n) =>
        Decoded(done, str, n) = [text |-> Append(t, Unescaped(str[n])), skip |-> 0]
  BY DEF Decoded
<1> QED
  BY <1>2, <1>3, <1>4, <1>5, <1>6

LEMMA IsDecoder ==
  ASSUME NEW s \in Seq(Nat), NEW k \in 0..2
  PROVE  [text |-> s, skip |-> k] \in Decoder
BY DEF Decoder

(* A decoder stays one.                                                    *)
LEMMA DecodedType ==
  ASSUME NEW str \in Seq(Char), NEW n \in 1..Len(str), NEW done \in Decoder
  PROVE  Decoded(done, str, n) \in Decoder
<1> DEFINE t == done.text
           k == done.skip
           d == Decoded([text |-> t, skip |-> k], str, n)
           e == 16 * DigitOf(str[n + 1]) + DigitOf(str[n + 2])
           u == Unescaped(str[n])
<1>1. t \in Seq(Nat) /\ k \in 0..2 /\ done = [text |-> t, skip |-> k]
  BY DEF Decoder
<1> HIDE DEF t, k
<1>2. /\ k > 0 => d = [text |-> t, skip |-> k - 1]
      /\ k = 0 /\ IsEscape(str, n) => e \in Nat /\ d = [text |-> Append(t, e), skip |-> 2]
      /\ k = 0 /\ ~IsEscape(str, n) => u \in Nat /\ d = [text |-> Append(t, u), skip |-> 0]
  BY <1>1, DecodedParts
<1> HIDE DEF d, e, u
<1>3. d \in Decoder
  <2>1. CASE k > 0
    <3>1. k - 1 \in 0..2
      BY <1>1, <2>1
    <3>2. [text |-> t, skip |-> k - 1] \in Decoder
      BY <1>1, <3>1, IsDecoder
    <3> QED
      BY <1>2, <2>1, <3>2
  <2>2. CASE k = 0 /\ IsEscape(str, n)
    <3>1. Append(t, e) \in Seq(Nat) /\ 2 \in 0..2
      BY <1>1, <1>2, <2>2
    <3>2. [text |-> Append(t, e), skip |-> 2] \in Decoder
      BY <3>1, IsDecoder
    <3> QED
      BY <1>2, <2>2, <3>2
  <2>3. CASE k = 0 /\ ~IsEscape(str, n)
    <3>1. Append(t, u) \in Seq(Nat) /\ 0 \in 0..2
      BY <1>1, <1>2, <2>3
    <3>2. [text |-> Append(t, u), skip |-> 0] \in Decoder
      BY <3>1, IsDecoder
    <3> QED
      BY <1>2, <2>3, <3>2
  <2> QED
    BY <1>1, <2>1, <2>2, <2>3
<1> QED
  BY <1>1, <1>3 DEF d

(* urldecode, character by character.                                      *)
LEMMA DecodeSteps ==
  ASSUME NEW str \in Seq(Char)
  PROVE  \E D \in [0..Len(str) -> Decoder] :
           /\ D[0] = Start
           /\ \A n \in 1..Len(str) : D[n] = Decoded(D[n - 1], str, n)
           /\ urldecode(str) = D[Len(str)].text
<1> DEFINE N == Len(str)
           step == [p \in Decoder \X (1..N) |-> Decoded(p[1], str, p[2])]
           G == CHOOSE f : f = [n \in 0..N |->
                  IF n = 0 THEN [text |-> <<>>, skip |-> 0] ELSE Decoded(f[n - 1], str, n)]
<1>1. N \in Nat
  OBVIOUS
<1>2. urldecode(str) = G[N].text
  BY DEF urldecode
<1>3. \A d \in Decoder, n \in 1..N : Decoded(d, str, n) \in Decoder
  BY DecodedType
<1> HIDE DEF N
<1>4. step \in [Decoder \X (1..N) -> Decoder]
  BY <1>3
<1>5. Start \in Decoder
  BY DEF Decoder, Start
<1>6. PICK f \in [0..N -> Decoder] : Recursive(f, N, Start, step)
  <2> HIDE DEF step
  <2> QED
    BY <1>1, <1>4, <1>5, RecursionExists
<1>7. f = [n \in 0..N |-> IF n = 0 THEN [text |-> <<>>, skip |-> 0] ELSE Decoded(f[n - 1], str, n)]
  <2>1. ASSUME NEW n \in 1..N
        PROVE  f[n] = Decoded(f[n - 1], str, n)
    <3>1. n - 1 \in 0..N /\ f[n - 1] \in Decoder
      BY <1>1
    <3>2. f[n] = step[<<f[n - 1], n>>]
      BY <1>6 DEF Recursive
    <3> QED
      BY <3>1, <3>2
  <2>2. f[0] = [text |-> <<>>, skip |-> 0]
    BY <1>6 DEF Recursive, Start
  <2> QED
    BY <1>1, <2>1, <2>2
<1> HIDE DEF step
<1>8. G = [n \in 0..N |-> IF n = 0 THEN [text |-> <<>>, skip |-> 0] ELSE Decoded(G[n - 1], str, n)]
  BY <1>7
<1> HIDE DEF G
<1>9. 0 \in 0..N /\ \A n \in 1..N : n \in 0..N /\ n # 0
  BY <1>1
<1>10. G[0] = Start /\ \A n \in 1..N : G[n] = Decoded(G[n - 1], str, n)
  <2>1. G[0] = Start
    BY <1>8, <1>9, Zenon DEF Start
  <2>2. ASSUME NEW n \in 1..N
        PROVE  G[n] = Decoded(G[n - 1], str, n)
    BY <1>8, <1>9, Zenon
  <2> QED
    BY <2>1, <2>2
<1> DEFINE X == {n \in 0..N : G[n] \in Decoder}
<1>11. 0 \in X
  BY <1>5, <1>9, <1>10
<1>12. ASSUME NEW k \in 0..N-1, k \in X
       PROVE  k + 1 \in X
  <2>1. k + 1 \in 1..N /\ (k + 1) - 1 = k /\ k + 1 \in 0..N
    BY <1>1
  <2>2. G[k + 1] = Decoded(G[k], str, k + 1)
    BY <1>10, <2>1, Zenon
  <2>3. G[k] \in Decoder
    BY <1>12
  <2>4. G[k + 1] \in Decoder
    BY <1>3, <2>1, <2>2, <2>3
  <2> QED
    BY <2>1, <2>4
<1> HIDE DEF X
<1>13. \A n \in 0..N : n \in X
  BY <1>1, <1>11, <1>12, Induction
<1>14. G \in [0..N -> Decoder]
  BY <1>8, <1>13 DEF X
<1> QED
  BY <1>2, <1>10, <1>14 DEF N

(* An encoded character is decoded, wherever it is.                        *)
LEMMA DecodesChar ==
  ASSUME NEW str \in Seq(Char), NEW D \in [0..Len(str) -> Decoder],
         \A n \in 1..Len(str) : D[n] = Decoded(D[n - 1], str, n),
         NEW c \in Char, NEW p \in Nat, NEW t \in Seq(Nat),
         p + Len(EncodedChar(c)) <= Len(str),
         \A i \in 1..Len(EncodedChar(c)) : str[p + i] = EncodedChar(c)[i],
         D[p] = [text |-> t, skip |-> 0]
  PROVE  D[p + Len(EncodedChar(c))] = [text |-> Append(t, c), skip |-> 0]
<1> DEFINE e == EncodedChar(c)
           N == Len(str)
<1>1. N \in Nat
  OBVIOUS
<1>2. \/ Len(e) = 1 /\ e[1] # Percent /\ Unescaped(e[1]) = c
      \/ /\ Len(e) = 3 /\ e[1] = Percent
         /\ IsXDigit(e[2]) /\ IsXDigit(e[3])
         /\ 16 * DigitOf(e[2]) + DigitOf(e[3]) = c
  BY EncodedCharIs
<1>3. p + Len(e) <= N /\ \A i \in 1..Len(e) : str[p + i] = e[i]
  OBVIOUS
<1>4. Append(t, c) \in Seq(Nat)
  <2>1. c \in Nat
    BY DEF Char
  <2> QED
    BY <2>1
<1>5. \A n \in 1..N : D[n] = Decoded(D[n - 1], str, n)
  OBVIOUS
<1> HIDE DEF e, N
<1>6. CASE Len(e) = 1 /\ e[1] # Percent /\ Unescaped(e[1]) = c
  <2>1. p + 1 \in 1..N /\ (p + 1) - 1 = p /\ p + 1 \in 1..Len(str) /\ 0 \in 0..2 /\ ~(0 > 0)
    <3>1. p + 1 <= N
      BY <1>3, <1>6
    <3>2. p + 1 \in 1..N
      BY <1>1, <3>1
    <3> QED
      BY <3>2 DEF N
  <2>2. str[p + 1] = e[1]
    BY <1>3, <1>6
  <2>3. ~IsEscape(str, p + 1)
    BY <1>6, <2>2 DEF IsEscape
  <2>4. Decoded([text |-> t, skip |-> 0], str, p + 1)
          = [text |-> Append(t, Unescaped(str[p + 1])), skip |-> 0]
    BY <2>1, <2>3, DecodedParts
  <2>5. D[p + 1] = Decoded(D[p], str, p + 1)
    BY <1>5, <2>1, Zenon
  <2>6. D[p + 1] = [text |-> Append(t, c), skip |-> 0]
    BY <1>6, <2>2, <2>4, <2>5, Zenon
  <2> QED
    BY <1>6, <2>6 DEF e
<1>7. CASE /\ Len(e) = 3 /\ e[1] = Percent
           /\ IsXDigit(e[2]) /\ IsXDigit(e[3])
           /\ 16 * DigitOf(e[2]) + DigitOf(e[3]) = c
  <2>1. /\ p + 1 \in 1..N /\ (p + 1) - 1 = p /\ p + 2 \in 1..N /\ (p + 2) - 1 = p + 1
        /\ p + 3 \in 1..N /\ (p + 3) - 1 = p + 2
        /\ (p + 1) + 1 = p + 2 /\ (p + 1) + 2 = p + 3 /\ p + 3 <= N
    <3>1. p + 3 <= N
      BY <1>3, <1>7
    <3> QED
      BY <1>1, <3>1
  <2>2. str[p + 1] = e[1] /\ str[p + 2] = e[2] /\ str[p + 3] = e[3]
    BY <1>3, <1>7
  <2>3. /\ IsEscape(str, p + 1)
        /\ 16 * DigitOf(str[(p + 1) + 1]) + DigitOf(str[(p + 1) + 2]) = c
    <3>1. IsXDigit(str[(p + 1) + 1]) /\ IsXDigit(str[(p + 1) + 2])
      BY <1>7, <2>1, <2>2, Zenon
    <3>2. (p + 1) + 2 <= Len(str) /\ str[p + 1] = Percent
      BY <1>7, <2>1, <2>2 DEF N
    <3>3. 16 * DigitOf(str[(p + 1) + 1]) + DigitOf(str[(p + 1) + 2]) = c
      BY <1>7, <2>1, <2>2, Zenon
    <3> QED
      BY <3>1, <3>2, <3>3 DEF IsEscape
  <2> DEFINE u == Append(t, c)
  <2>4. u \in Seq(Nat)
    BY <1>4
  <2>5. Decoded([text |-> t, skip |-> 0], str, p + 1) = [text |-> u, skip |-> 2]
    <3>1. 0 \in 0..2 /\ p + 1 \in 1..Len(str)
      BY <2>1 DEF N
    <3>2. Decoded([text |-> t, skip |-> 0], str, p + 1)
            = [text |-> Append(t, 16 * DigitOf(str[(p + 1) + 1]) + DigitOf(str[(p + 1) + 2])),
               skip |-> 2]
      BY <2>3, <3>1, DecodedParts
    <3> QED
      BY <2>3, <3>2, Zenon
  <2> HIDE DEF u
  <2>6. Decoded([text |-> u, skip |-> 2], str, p + 2) = [text |-> u, skip |-> 1]
    <3>1. 2 \in 0..2 /\ p + 2 \in 1..Len(str) /\ 2 > 0 /\ 2 - 1 = 1
      BY <2>1 DEF N
    <3>2. Decoded([text |-> u, skip |-> 2], str, p + 2) = [text |-> u, skip |-> 2 - 1]
      BY <2>4, <3>1, DecodedParts
    <3> QED
      BY <3>1, <3>2, Zenon
  <2>7. Decoded([text |-> u, skip |-> 1], str, p + 3) = [text |-> u, skip |-> 0]
    <3>1. 1 \in 0..2 /\ p + 3 \in 1..Len(str) /\ 1 > 0 /\ 1 - 1 = 0
      BY <2>1 DEF N
    <3>2. Decoded([text |-> u, skip |-> 1], str, p + 3) = [text |-> u, skip |-> 1 - 1]
      BY <2>4, <3>1, DecodedParts
    <3> QED
      BY <3>1, <3>2, Zenon
  <2>8. /\ D[p + 1] = Decoded(D[p], str, p + 1)
        /\ D[p + 2] = Decoded(D[p + 1], str, p + 2)
        /\ D[p + 3] = Decoded(D[p + 2], str, p + 3)
    BY <1>5, <2>1, Zenon
  <2>9. D[p + 3] = [text |-> u, skip |-> 0]
    BY <2>5, <2>6, <2>7, <2>8, Zenon
  <2> QED
    BY <1>7, <2>9 DEF e, u
<1> QED
  BY <1>2, <1>6, <1>7

(* What the browser has encoded is decoded to what it was.                 *)
LEMMA DecodesEncoded ==
  ASSUME NEW text \in Seq(Char)
  PROVE  urldecode(FormEncode(text)) = text
<1> DEFINE N == Len(text)
           s == FormEncode(text)
           A == [n \in 1..N |-> EncodedChar(text[n])]
<1>1. N \in Nat /\ \A n \in 1..N : text[n] \in Char
  OBVIOUS
<1>2. s \in Seq(Char)
  BY EncodedText
<1>3. SubSeq(text, 1, N) = text /\ SubSeq(text, 1, 0) = <<>>
  BY SubSeqFull, SubSeqEmpty
<1>4. \A k \in 0..N-1 : /\ SubSeq(text, 1, k) \in Seq(Char)
                        /\ Append(SubSeq(text, 1, k), text[k + 1]) = SubSeq(text, 1, k + 1)
  BY NextPrefix
<1>5. PICK F \in [0..N -> Seq(Char)] :
        /\ F[0] = <<>> /\ F[N] = s
        /\ \A n \in 1..N : F[n] = F[n - 1] \o EncodedChar(text[n])
  BY EncodeSteps
<1>6. PICK D \in [0..Len(s) -> Decoder] :
        /\ D[0] = Start
        /\ \A n \in 1..Len(s) : D[n] = Decoded(D[n - 1], s, n)
        /\ urldecode(s) = D[Len(s)].text
  <2> HIDE DEF s
  <2> QED
    BY <1>2, DecodeSteps
<1> HIDE DEF N
<1>7. A \in [1..N -> Seq(Char)] /\ \A n \in 1..N : A[n] = EncodedChar(text[n])
  BY <1>1, EncodedCharIs
<1> HIDE DEF s, A
<1>8. \A n \in 1..N : /\ Len(F[n - 1]) \in Nat /\ Len(F[n]) = Len(F[n - 1]) + Len(A[n])
                      /\ Len(F[n]) <= Len(s)
                      /\ \A i \in 1..Len(A[n]) : s[Len(F[n - 1]) + i] = A[n][i]
  <2>1. Sums(F, A, N)
    BY <1>5, <1>7 DEF Sums
  <2>2. HasParts(F, A, N)
    BY <1>1, <1>7, <2>1, PartsOfSum
  <2> QED
    BY <1>5, <2>2 DEF HasParts
<1> DEFINE X == {k \in 0..N : D[Len(F[k])] = [text |-> SubSeq(text, 1, k), skip |-> 0]}
<1>9. 0 \in X
  <2>1. Len(F[0]) = 0 /\ 0 \in 0..N
    BY <1>1, <1>5
  <2> QED
    BY <1>3, <1>6, <2>1 DEF Start
<1>10. ASSUME NEW k \in 0..N-1, k \in X
       PROVE  k + 1 \in X
  <2> DEFINE c == text[k + 1]
             p == Len(F[k])
             t == SubSeq(text, 1, k)
             e == EncodedChar(c)
  <2>1. k + 1 \in 1..N /\ k + 1 \in 0..N /\ (k + 1) - 1 = k
    BY <1>1
  <2>2. c \in Char
    BY <1>1, <2>1
  <2>3. /\ p \in Nat /\ Len(F[k + 1]) = p + Len(e) /\ Len(F[k + 1]) <= Len(s)
        /\ \A i \in 1..Len(e) : s[p + i] = e[i]
    <3>1. A[k + 1] = e
      BY <1>7, <2>1
    <3> HIDE DEF e
    <3> QED
      BY <1>8, <2>1, <3>1, Zenon
  <2>4. t \in Seq(Nat) /\ Append(t, c) = SubSeq(text, 1, k + 1)
    <3>1. t \in Seq(Char) /\ Append(t, c) = SubSeq(text, 1, k + 1)
      BY <1>4
    <3> HIDE DEF t
    <3>2. Char \subseteq Nat
      BY DEF Char
    <3>3. t \in Seq(Nat)
      BY <3>1, <3>2, SeqMonotonic
    <3> QED
      BY <3>1, <3>3
  <2>5. D[p] = [text |-> t, skip |-> 0]
    BY <1>10
  <2>6. p + Len(e) <= Len(s)
    BY <2>3
  <2> HIDE DEF c, p, t
  <2>7. D[p + Len(e)] = [text |-> Append(t, c), skip |-> 0]
    BY <1>2, <1>6, <2>2, <2>3, <2>4, <2>5, <2>6, DecodesChar
  <2> HIDE DEF e
  <2>8. D[Len(F[k + 1])] = [text |-> SubSeq(text, 1, k + 1), skip |-> 0]
    BY <2>3, <2>4, <2>7
  <2> QED
    BY <2>1, <2>8
<1> HIDE DEF X
<1>11. N \in X
  <2>1. N \in 0..N
    BY <1>1
  <2> QED
    BY <1>1, <1>9, <1>10, <2>1, Induction
<1>12. D[Len(s)] = [text |-> text, skip |-> 0]
  BY <1>3, <1>5, <1>11 DEF X
<1> QED
  BY <1>6, <1>12 DEF s

(* A text without + and % is decoded to itself.                            *)
LEMMA DecodesPlain ==
  ASSUME NEW s \in Seq(Char), IsPlain(s)
  PROVE  urldecode(s) = s
<1> DEFINE N == Len(s)
<1>1. N \in Nat /\ \A n \in 1..N : s[n] \in Char /\ s[n] \notin {Plus, Percent}
  BY DEF IsPlain
<1>2. SubSeq(s, 1, N) = s /\ SubSeq(s, 1, 0) = <<>>
  BY SubSeqFull, SubSeqEmpty
<1>3. \A k \in 0..N-1 : /\ SubSeq(s, 1, k) \in Seq(Char)
                        /\ Append(SubSeq(s, 1, k), s[k + 1]) = SubSeq(s, 1, k + 1)
  BY NextPrefix
<1>4. PICK D \in [0..N -> Decoder] :
        /\ D[0] = Start
        /\ \A n \in 1..N : D[n] = Decoded(D[n - 1], s, n)
        /\ urldecode(s) = D[N].text
  BY DecodeSteps
<1> DEFINE X == {k \in 0..N : D[k] = [text |-> SubSeq(s, 1, k), skip |-> 0]}
<1>5. 0 \in X
  <2>1. 0 \in 0..N
    BY <1>1
  <2>2. D[0] = [text |-> SubSeq(s, 1, 0), skip |-> 0]
    BY <1>2, <1>4 DEF Start
  <2> QED
    BY <2>1, <2>2
<1>6. ASSUME NEW k \in 0..N-1, k \in X
      PROVE  k + 1 \in X
  <2> DEFINE t == SubSeq(s, 1, k)
  <2>1. k + 1 \in 1..N /\ k + 1 \in 0..N /\ (k + 1) - 1 = k /\ k + 1 \in 1..Len(s)
    BY <1>1
  <2>2. t \in Seq(Char) /\ Append(t, s[k + 1]) = SubSeq(s, 1, k + 1)
    BY <1>3
  <2>3. D[k] = [text |-> t, skip |-> 0]
    BY <1>6
  <2> HIDE DEF t
  <2>4. t \in Seq(Nat)
    <3>1. Char \subseteq Nat
      BY DEF Char
    <3> QED
      BY <2>2, <3>1, SeqMonotonic
  <2>5. ~IsEscape(s, k + 1) /\ Unescaped(s[k + 1]) = s[k + 1]
    BY <1>1, <2>1 DEF IsEscape, Unescaped
  <2>6. Decoded([text |-> t, skip |-> 0], s, k + 1)
          = [text |-> Append(t, Unescaped(s[k + 1])), skip |-> 0]
    <3>1. 0 \in 0..2
      OBVIOUS
    <3> QED
      BY <2>1, <2>4, <2>5, <3>1, DecodedParts
  <2>7. D[k + 1] = Decoded(D[k], s, k + 1)
    BY <1>4, <2>1, Zenon
  <2>8. D[k + 1] = [text |-> SubSeq(s, 1, k + 1), skip |-> 0]
    BY <2>2, <2>3, <2>5, <2>6, <2>7, Zenon
  <2> QED
    BY <2>1, <2>8
<1> HIDE DEF X, N
<1>7. N \in X
  <2>1. N \in 0..N
    BY <1>1
  <2> QED
    BY <1>1, <1>5, <1>6, <2>1, Induction
<1>8. D[N] = [text |-> s, skip |-> 0]
  BY <1>2, <1>7 DEF X
<1> QED
  BY <1>4, <1>8

-----------------------------------------------------------------------------
(* strtok_r.                                                               *)

(* One run becomes two, and the last of one or two becomes longer.         *)
LEMMA MoreRuns ==
  ASSUME NEW x, NEW y, NEW e
  PROVE  /\ Append(<<x>>, y) = <<x, y>>
         /\ [<<x>> EXCEPT ![Len(<<x>>)] = Append(@, e)] = <<Append(x, e)>>
         /\ [<<x, y>> EXCEPT ![Len(<<x, y>>)] = Append(@, e)] = <<x, Append(y, e)>>
<1>1. Append(<<x>>, y) = <<x, y>>
  <2>1. <<x>> \in Seq({x, y}) /\ y \in {x, y}
    OBVIOUS
  <2> DEFINE u == Append(<<x>>, y)
             v == <<x, y>>
  <2>2. u \in Seq({x, y}) /\ Len(u) = 2 /\ u[1] = x /\ u[2] = y
    <3>1. Len(<<x>>) = 1 /\ <<x>>[1] = x /\ 1 \in 1..1
      OBVIOUS
    <3>2. /\ u \in Seq({x, y}) /\ Len(u) = Len(<<x>>) + 1
          /\ \A i \in 1..Len(<<x>>) : u[i] = <<x>>[i]
          /\ u[Len(<<x>>) + 1] = y
      BY <2>1, AppendProperties
    <3> HIDE DEF u
    <3> QED
      BY <3>1, <3>2
  <2>3. v \in Seq({x, y}) /\ Len(v) = 2 /\ v[1] = x /\ v[2] = y
    OBVIOUS
  <2> HIDE DEF u, v
  <2>4. \A i \in 1..2 : u[i] = v[i]
    BY <2>2, <2>3
  <2>5. u = v
    BY <2>2, <2>3, <2>4, SeqEqual
  <2> QED
    BY <2>5 DEF u, v
<1>2. Len(<<x>>) = 1 /\ Len(<<x, y>>) = 2 /\ <<x>>[1] = x /\ <<x, y>>[2] = y
  OBVIOUS
<1>3. \A v : [<<x>> EXCEPT ![1] = v] = <<v>>
  OBVIOUS
<1>4. \A v : [<<x, y>> EXCEPT ![2] = v] = <<x, v>>
  OBVIOUS
<1>5. [<<x>> EXCEPT ![Len(<<x>>)] = Append(@, e)] = <<Append(x, e)>>
  BY <1>2, <1>3, Zenon
<1>6. [<<x, y>> EXCEPT ![Len(<<x, y>>)] = Append(@, e)] = <<x, Append(y, e)>>
  BY <1>2, <1>4, Zenon
<1> QED
  BY <1>1, <1>5, <1>6

(* Runs stay texts.                                                        *)
LEMMA ExtendedType ==
  ASSUME NEW s \in Seq(Char), NEW c, NEW n \in 1..Len(s), NEW runs \in Seq(Seq(Char))
  PROVE  Extended(runs, s, c, n) \in Seq(Seq(Char))
<1> DEFINE e == s[n]
           l == Len(runs)
<1>1. e \in Char /\ l \in Nat
  OBVIOUS
<1>2. <<e>> \in Seq(Char)
  BY <1>1
<1>3. Append(runs, <<e>>) \in Seq(Seq(Char))
  BY <1>2, AppendProperties
<1>4. [runs EXCEPT ![l] = Append(@, e)] \in Seq(Seq(Char))
  <2>1. CASE l = 0
    <3>1. DOMAIN runs = {}
      BY <2>1
    <3>2. [runs EXCEPT ![l] = Append(@, e)] = runs
      BY <3>1
    <3> QED
      BY <3>2
  <2>2. CASE l # 0
    <3>1. l \in 1..Len(runs) /\ runs[l] \in Seq(Char)
      BY <1>1, <2>2, ElementOfSeq
    <3>2. Append(runs[l], e) \in Seq(Char)
      BY <1>1, <3>1, AppendProperties
    <3> HIDE DEF l
    <3> QED
      BY <3>1, <3>2, ExceptSeq
  <2> QED
    BY <2>1, <2>2
<1> QED
  BY <1>3, <1>4 DEF Extended

(* Tokens, character by character.                                         *)
LEMMA TokenSteps ==
  ASSUME NEW s \in Seq(Char), NEW c
  PROVE  \E R \in [0..Len(s) -> Seq(Seq(Char))] :
           /\ R[0] = <<>>
           /\ \A n \in 1..Len(s) : R[n] = Extended(R[n - 1], s, c, n)
           /\ Tokens(s, c) = R[Len(s)]
<1> DEFINE N == Len(s)
           step == [p \in Seq(Seq(Char)) \X (1..N) |-> Extended(p[1], s, c, p[2])]
           G == CHOOSE f : f = [n \in 0..N |-> IF n = 0 THEN <<>> ELSE Extended(f[n - 1], s, c, n)]
<1>1. N \in Nat
  OBVIOUS
<1>2. Tokens(s, c) = G[N]
  BY DEF Tokens
<1>3. \A r \in Seq(Seq(Char)), n \in 1..N : Extended(r, s, c, n) \in Seq(Seq(Char))
  BY ExtendedType
<1> HIDE DEF N
<1>4. step \in [Seq(Seq(Char)) \X (1..N) -> Seq(Seq(Char))]
  BY <1>3
<1>5. <<>> \in Seq(Seq(Char))
  BY EmptySeq
<1>6. PICK f \in [0..N -> Seq(Seq(Char))] : Recursive(f, N, <<>>, step)
  <2> HIDE DEF step
  <2> QED
    BY <1>1, <1>4, <1>5, RecursionExists
<1>7. f = [n \in 0..N |-> IF n = 0 THEN <<>> ELSE Extended(f[n - 1], s, c, n)]
  <2>1. ASSUME NEW n \in 1..N
        PROVE  f[n] = Extended(f[n - 1], s, c, n)
    <3>1. n - 1 \in 0..N /\ f[n - 1] \in Seq(Seq(Char))
      BY <1>1
    <3>2. f[n] = step[<<f[n - 1], n>>]
      BY <1>6 DEF Recursive
    <3> QED
      BY <3>1, <3>2
  <2>2. f[0] = <<>>
    BY <1>6 DEF Recursive
  <2> QED
    BY <1>1, <2>1, <2>2
<1> HIDE DEF step
<1>8. G = [n \in 0..N |-> IF n = 0 THEN <<>> ELSE Extended(G[n - 1], s, c, n)]
  BY <1>7
<1> HIDE DEF G
<1>9. 0 \in 0..N /\ \A n \in 1..N : n \in 0..N /\ n # 0
  BY <1>1
<1>10. G[0] = <<>> /\ \A n \in 1..N : G[n] = Extended(G[n - 1], s, c, n)
  <2>1. G[0] = <<>>
    BY <1>8, <1>9, Zenon
  <2>2. ASSUME NEW n \in 1..N
        PROVE  G[n] = Extended(G[n - 1], s, c, n)
    BY <1>8, <1>9, Zenon
  <2> QED
    BY <2>1, <2>2
<1> DEFINE X == {n \in 0..N : G[n] \in Seq(Seq(Char))}
<1>11. 0 \in X
  BY <1>5, <1>9, <1>10
<1>12. ASSUME NEW k \in 0..N-1, k \in X
       PROVE  k + 1 \in X
  <2>1. k + 1 \in 1..N /\ (k + 1) - 1 = k /\ k + 1 \in 0..N
    BY <1>1
  <2>2. G[k + 1] = Extended(G[k], s, c, k + 1)
    BY <1>10, <2>1, Zenon
  <2>3. G[k] \in Seq(Seq(Char))
    BY <1>12
  <2>4. G[k + 1] \in Seq(Seq(Char))
    BY <1>3, <2>1, <2>2, <2>3
  <2> QED
    BY <2>1, <2>4
<1> HIDE DEF X
<1>13. \A n \in 0..N : n \in X
  BY <1>1, <1>11, <1>12, Induction
<1>14. G \in [0..N -> Seq(Seq(Char))]
  BY <1>8, <1>13 DEF X
<1> QED
  BY <1>2, <1>10, <1>14 DEF N

(* Two runs with one character between them, the second perhaps empty.     *)
LEMMA TwoTokens ==
  ASSUME NEW a \in Seq(Char), NEW b \in Seq(Char), NEW c \in Char, a # <<>>,
         \A i \in 1..Len(a) : a[i] # c, \A i \in 1..Len(b) : b[i] # c
  PROVE  Tokens(a \o <<c>> \o b, c) = IF b = <<>> THEN <<a>> ELSE <<a, b>>
<1> DEFINE k == Len(a)
           l == Len(b)
           s == a \o <<c>> \o b
           N == Len(s)
<1>1. /\ k \in Nat \ {0} /\ l \in Nat /\ s \in Seq(Char) /\ N = k + 1 + l
      /\ \A i \in 1..k : s[i] = a[i]
      /\ s[k + 1] = c
      /\ \A i \in 1..l : s[k + 1 + i] = b[i]
  <2> DEFINE u == a \o <<c>>
  <2>1. <<c>> \in Seq(Char) /\ Len(<<c>>) = 1 /\ <<c>>[1] = c
    OBVIOUS
  <2>2. /\ u \in Seq(Char) /\ Len(u) = k + 1
        /\ \A i \in 1..k : u[i] = a[i]
        /\ u[k + 1] = c
    BY <2>1, ConcatParts
  <2>3. s = u \o b /\ k \in Nat \ {0} /\ l \in Nat
    OBVIOUS
  <2> HIDE DEF u, s, k
  <2>4. /\ u \o b \in Seq(Char) /\ Len(u \o b) = (k + 1) + l
        /\ \A i \in 1..k+1 : (u \o b)[i] = u[i]
        /\ \A i \in 1..l : (u \o b)[k + 1 + i] = b[i]
    <3>1. u \in Seq(Char) /\ b \in Seq(Char)
      BY <2>2
    <3>2. /\ u \o b \in Seq(Char) /\ Len(u \o b) = Len(u) + Len(b)
          /\ \A i \in 1..Len(u) : (u \o b)[i] = u[i]
          /\ \A i \in 1..Len(b) : (u \o b)[Len(u) + i] = b[i]
      BY <3>1, ConcatParts
    <3> QED
      BY <2>2, <3>2
  <2>5. k + 1 \in 1..k+1 /\ \A i \in 1..k : i \in 1..k+1
    BY <2>3
  <2> QED
    BY <2>2, <2>3, <2>4, <2>5
<1>2. /\ \A i \in 1..k : a[i] \in Char /\ a[i] # c
      /\ \A i \in 1..l : b[i] \in Char /\ b[i] # c
  OBVIOUS
<1>3. /\ SubSeq(a, 1, k) = a /\ SubSeq(a, 1, 0) = <<>>
      /\ SubSeq(b, 1, l) = b /\ SubSeq(b, 1, 0) = <<>>
  BY SubSeqFull, SubSeqEmpty
<1>4. /\ \A i \in 0..k-1 : /\ SubSeq(a, 1, i) \in Seq(Char)
                           /\ Append(SubSeq(a, 1, i), a[i + 1]) = SubSeq(a, 1, i + 1)
      /\ \A i \in 0..l-1 : /\ SubSeq(b, 1, i) \in Seq(Char)
                           /\ Append(SubSeq(b, 1, i), b[i + 1]) = SubSeq(b, 1, i + 1)
  BY NextPrefix
<1> HIDE DEF s
<1>5. PICK R \in [0..N -> Seq(Seq(Char))] :
        /\ R[0] = <<>>
        /\ \A n \in 1..N : R[n] = Extended(R[n - 1], s, c, n)
        /\ Tokens(s, c) = R[N]
  BY <1>1, TokenSteps
<1>6. b = <<>> <=> l = 0
  OBVIOUS
<1> HIDE DEF k, l, N
<1> DEFINE X == {i \in 0..k-1 : R[i + 1] = <<SubSeq(a, 1, i + 1)>>}
           Y == {i \in 0..l : R[k + 1 + i] = IF i = 0 THEN <<a>> ELSE <<a, SubSeq(b, 1, i)>>}
<1>7. 0 \in X
  <2>1. 1 \in 1..N /\ 1 - 1 = 0 /\ 1 \in 1..k /\ 0 \in 0..k-1 /\ 0 + 1 = 1
    BY <1>1
  <2>2. R[1] = Extended(<<>>, s, c, 1)
    BY <1>5, <2>1, Zenon
  <2>3. s[1] # c /\ s[1] = a[1]
    BY <1>1, <1>2, <2>1
  <2>4. R[1] = Append(<<>>, <<a[1]>>)
    BY <2>2, <2>3 DEF Extended
  <2>5. SubSeq(a, 1, 1) = Append(<<>>, a[1])
    BY <1>3, <1>4, <2>1, Zenon
  <2>6. R[1] = <<SubSeq(a, 1, 1)>>
    BY <2>4, <2>5
  <2> QED
    BY <2>1, <2>6
<1>8. ASSUME NEW i \in 0..(k-1)-1, i \in X
      PROVE  i + 1 \in X
  <2> DEFINE n == i + 2
             x == SubSeq(a, 1, i + 1)
  <2>1. /\ n \in 1..N /\ n - 1 = i + 1 /\ n \in 1..k /\ i + 1 \in 1..k /\ i + 1 \in 0..k-1
        /\ n # 1 /\ (i + 1) + 1 = n
    BY <1>1
  <2>2. R[i + 1] = <<x>>
    BY <1>8
  <2>3. R[n] = Extended(R[i + 1], s, c, n)
    BY <1>5, <2>1, Zenon
  <2>4. s[n] # c /\ s[n] = a[n] /\ s[n - 1] # c
    BY <1>1, <1>2, <2>1
  <2>5. x \in Seq(Char) /\ Append(x, a[n]) = SubSeq(a, 1, n)
    BY <1>4, <2>1, Zenon
  <2> HIDE DEF n, x
  <2>6. Extended(<<x>>, s, c, n) = <<Append(x, s[n])>>
    <3>1. s[n] # c /\ s[n - 1] # c /\ n # 1 /\ x \in Seq(Char)
      BY <2>1, <2>4, <2>5
    <3> QED
      <4> DEFINE e == s[n]
      <4>1. Extended(<<x>>, s, c, n) = [<<x>> EXCEPT ![Len(<<x>>)] = Append(@, e)]
        BY <3>1, Zenon DEF Extended
      <4> HIDE DEF e
      <4>2. Extended(<<x>>, s, c, n) = <<Append(x, e)>>
        BY <4>1, MoreRuns, Zenon
      <4> QED
        BY <4>2 DEF e
  <2>7. R[n] = <<SubSeq(a, 1, n)>>
    BY <2>2, <2>3, <2>4, <2>5, <2>6, Zenon
  <2> QED
    BY <2>1, <2>7
<1>9. 0 \in Y
  <2> HIDE DEF X
  <2>1. k - 1 \in Nat /\ k - 1 \in 0..k-1 /\ (k - 1) + 1 = k
    BY <1>1
  <2>2. k - 1 \in X
    BY <1>7, <1>8, <2>1, Induction
  <2>3. R[k] = <<a>>
    BY <1>3, <2>1, <2>2, Zenon DEF X
  <2>4. k + 1 \in 1..N /\ (k + 1) - 1 = k /\ 0 \in 0..l /\ k + 1 + 0 = k + 1
    BY <1>1
  <2>5. R[k + 1] = Extended(R[k], s, c, k + 1)
    BY <1>5, <2>4, Zenon
  <2>6. Extended(R[k], s, c, k + 1) = R[k]
    BY <1>1 DEF Extended
  <2> QED
    BY <2>3, <2>4, <2>5, <2>6
<1>10. ASSUME NEW i \in 0..l-1, i \in Y
       PROVE  i + 1 \in Y
  <2> DEFINE n == k + 1 + (i + 1)
             y == SubSeq(b, 1, i)
  <2>1. /\ n \in 1..N /\ n - 1 = k + 1 + i /\ i + 1 \in 1..l /\ i + 1 \in 0..l /\ n # 1
        /\ i + 1 # 0
    BY <1>1
  <2>2. R[n] = Extended(R[k + 1 + i], s, c, n)
    BY <1>5, <2>1, Zenon
  <2>3. s[n] # c /\ s[n] = b[i + 1]
    BY <1>1, <1>2, <2>1
  <2>4. y \in Seq(Char) /\ Append(y, b[i + 1]) = SubSeq(b, 1, i + 1)
    BY <1>4
  <2>5. R[k + 1 + i] = IF i = 0 THEN <<a>> ELSE <<a, y>>
    BY <1>10
  <2> DEFINE z == b[i + 1]
  <2> HIDE DEF n, y, z
  <2>6. CASE i = 0
    <3>1. n - 1 = k + 1 /\ i + 1 = 1
      BY <1>1, <2>1, <2>6
    <3>2. s[n - 1] = c
      BY <1>1, <3>1
    <3>3. y = <<>>
      BY <1>3, <2>6 DEF y
    <3>4. Extended(<<a>>, s, c, n) = Append(<<a>>, <<z>>)
      BY <2>3, <3>2 DEF Extended, z
    <3>5. Append(<<a>>, <<z>>) = <<a, Append(y, z)>>
      <4>1. Append(y, z) = <<z>>
        BY <3>3
      <4>2. Append(<<a>>, <<z>>) = <<a, <<z>>>>
        BY MoreRuns, Zenon
      <4> QED
        BY <4>1, <4>2
    <3>6. R[n] = <<a, SubSeq(b, 1, i + 1)>>
      BY <2>2, <2>4, <2>5, <2>6, <3>4, <3>5 DEF z
    <3> QED
      BY <2>1, <3>6 DEF n
  <2>7. CASE i # 0
    <3>1. n - 1 = k + 1 + i /\ i \in 1..l
      BY <1>1, <2>1, <2>7
    <3>2. s[n - 1] # c
      BY <1>1, <1>2, <3>1
    <3>3. Extended(<<a, y>>, s, c, n) = <<a, Append(y, s[n])>>
      <4>1. s[n] # c /\ s[n - 1] # c /\ n # 1 /\ a \in Seq(Char) /\ y \in Seq(Char)
        BY <2>1, <2>3, <2>4, <3>2
      <4> DEFINE e == s[n]
      <4>2. Extended(<<a, y>>, s, c, n) = [<<a, y>> EXCEPT ![Len(<<a, y>>)] = Append(@, e)]
        BY <4>1, Zenon DEF Extended
      <4> HIDE DEF e
      <4>3. Extended(<<a, y>>, s, c, n) = <<a, Append(y, e)>>
        <5>1. [<<a, y>> EXCEPT ![Len(<<a, y>>)] = Append(@, e)] = <<a, Append(y, e)>>
          BY MoreRuns
        <5> QED
          BY <4>2, <5>1, Zenon
      <4> QED
        BY <4>3 DEF e
    <3>4. R[n] = <<a, SubSeq(b, 1, i + 1)>>
      BY <2>2, <2>3, <2>4, <2>5, <2>7, <3>3
    <3> QED
      BY <2>1, <3>4 DEF n
  <2> QED
    BY <2>6, <2>7
<1> HIDE DEF Y
<1>11. l \in Y
  <2>1. l \in 0..l
    BY <1>1
  <2> QED
    BY <1>1, <1>9, <1>10, <2>1, Induction
<1>12. R[N] = IF l = 0 THEN <<a>> ELSE <<a, SubSeq(b, 1, l)>>
  BY <1>1, <1>11 DEF Y
<1> QED
  BY <1>3, <1>5, <1>6, <1>12 DEF s

-----------------------------------------------------------------------------
(* urlSplit.                                                               *)

(* The first c is where it is.                                             *)
LEMMA SplitAtFirst ==
  ASSUME NEW p \in Seq(Char), NEW r \in Seq(Char), NEW c \in Char,
         \A i \in 1..Len(p) : p[i] # c
  PROVE  Before(p \o <<c>> \o r, c) = p /\ Behind(p \o <<c>> \o r, c) = r
<1> DEFINE k == Len(p)
           u == p \o <<c>>
           s == u \o r
           S == {i \in DOMAIN s : s[i] = c} \cup {Len(s) + 1}
<1>1. u \in Seq(Char) /\ Len(u) = k + 1 /\ k \in Nat /\ (\A i \in 1..k : u[i] = p[i]) /\ u[k + 1] = c
  <2>1. <<c>> \in Seq(Char) /\ Len(<<c>>) = 1 /\ <<c>>[1] = c
    OBVIOUS
  <2> QED
    BY <2>1, ConcatParts
<1>2. \A i \in 1..k : p[i] # c
  OBVIOUS
<1> HIDE DEF u
<1>3. /\ s \in Seq(Char) /\ Len(s) = k + 1 + Len(r) /\ Len(r) \in Nat
      /\ \A i \in 1..k+1 : s[i] = u[i]
  <2>1. u \in Seq(Char) /\ r \in Seq(Char)
    BY <1>1
  <2>2. /\ s \in Seq(Char) /\ Len(s) = Len(u) + Len(r) /\ Len(r) \in Nat
        /\ \A i \in 1..Len(u) : s[i] = u[i]
    BY <2>1, ConcatParts
  <2> HIDE DEF s
  <2> QED
    BY <1>1, <2>2
<1>4. SubSeq(u, 1, k) = p
  <2>1. SubSeq(u, 1, k) = SubSeq(p, 1, k)
    BY <1>1 DEF u
  <2> QED
    BY <2>1, SubSeqFull
<1> HIDE DEF s, k
<1>5. k + 1 \in S /\ S \in SUBSET Nat /\ \A i \in S : k + 1 <= i
  <2>1. DOMAIN s = 1..k+1+Len(r)
    BY <1>1, <1>3
  <2>2. k + 1 \in 1..k+1 /\ \A i \in 1..k : i \in 1..k+1
    BY <1>1
  <2>3. s[k + 1] = c /\ \A i \in 1..k : s[i] # c
    BY <1>1, <1>2, <1>3, <2>2
  <2>4. k + 1 \in S
    BY <1>1, <1>3, <2>1, <2>3
  <2>5. ASSUME NEW i \in S
        PROVE  i \in Nat /\ k + 1 <= i
    <3>1. i \in 1..k+1+Len(r)+1 /\ i \notin 1..k
      BY <1>1, <1>3, <2>1, <2>3
    <3> QED
      BY <1>1, <1>3, <3>1
  <2> QED
    BY <2>4, <2>5
<1> HIDE DEF S
<1>6. Min(S) = k + 1
  <2>1. S # {}
    BY <1>5
  <2>2. Min(S) \in S /\ \A i \in S : Min(S) <= i
    BY <1>5, <2>1, MinIsLeast
  <2>3. Min(S) \in Nat
    BY <1>5, <2>2
  <2> QED
    BY <1>1, <1>5, <2>2, <2>3
<1>7. Before(s, c) = SubSeq(s, 1, k)
  <2>1. (k + 1) - 1 = k
    BY <1>1
  <2> QED
    BY <1>6, <2>1 DEF Before, S
<1>8. SubSeq(s, 1, k) = p
  <2>1. SubSeq(s, 1, k + 1) = u
    BY <1>1, SubSeqOfConcat1 DEF s
  <2> QED
    BY <1>1, <1>3, <1>4
<1>9. Behind(s, c) = SubSeq(s, k + 2, Len(s))
  BY <1>7, <1>8 DEF Behind, k
<1>10. SubSeq(s, k + 2, Len(s)) = r
  BY <1>1, <1>3 DEF s
<1> QED
  BY <1>7, <1>8, <1>9, <1>10 DEF s, u

-----------------------------------------------------------------------------
(* The memory of the settings.                                             *)
Size   == SsidSize + PwdSize
Memory == [1..Size -> Nat]

LEMMA Sizes ==
  /\ SsidSize \in Nat \ {0} /\ PwdSize \in Nat \ {0} /\ Size \in Nat
  /\ Size = SsidSize + PwdSize /\ SsidSize + PwdSize <= 2032
BY TextsAssumption DEF Size, ParmMax

(* A text with its 0, at a place.                                          *)
HasText(mem, at, t) ==
  /\ at + Len(t) <= Size
  /\ \A i \in 1..Len(t) : mem[at + i - 1] = t[i]
  /\ mem[at + Len(t)] = 0

(* It is what is read there,                                               *)
LEMMA ReadsText ==
  ASSUME NEW mem \in Memory, NEW at \in Nat \ {0}, NEW t \in Seq(Char), HasText(mem, at, t)
  PROVE  TextAt(mem, at) = t
<1> DEFINE l == Len(t)
           S == {i \in at..Len(mem) : mem[i] = 0} \cup {Len(mem) + 1}
<1>1. /\ l \in Nat /\ Size \in Nat /\ Len(mem) = Size /\ mem \in Seq(Nat)
      /\ \A i \in 1..l : t[i] # 0
  <2>1. \A i \in 1..l : t[i] \in Char
    OBVIOUS
  <2>2. 0 \notin Char
    BY DEF Char
  <2> QED
    BY <2>1, <2>2, Sizes DEF Memory
<1>2. at + l <= Size /\ (\A i \in 1..l : mem[at + i - 1] = t[i]) /\ mem[at + l] = 0
  BY DEF HasText
<1> HIDE DEF l
<1>3. at + l \in S /\ \A i \in S : i \in Nat /\ at + l <= i
  <2>1. at + l \in at..Len(mem)
    BY <1>1, <1>2
  <2>2. at + l \in S
    BY <1>2, <2>1
  <2>3. ASSUME NEW i \in at..Len(mem), mem[i] = 0
        PROVE  at + l <= i
    <3>1. CASE i < at + l
      <4>1. i - at + 1 \in 1..l /\ at + (i - at + 1) - 1 = i
        BY <1>1, <3>1
      <4>2. mem[i] = t[i - at + 1]
        BY <1>2, <4>1
      <4> QED
        BY <1>1, <2>3, <4>1, <4>2
    <3> QED
      BY <1>1, <3>1
  <2>4. at + l <= Len(mem) + 1 /\ Len(mem) + 1 \in Nat
    BY <1>1, <1>2
  <2>5. \A i \in at..Len(mem) : i \in Nat
    BY <1>1
  <2> QED
    BY <2>2, <2>3, <2>4, <2>5
<1> HIDE DEF S
<1>4. Min(S) = at + l
  <2>1. S \in SUBSET Nat /\ S # {}
    BY <1>3
  <2>2. Min(S) \in S /\ \A i \in S : Min(S) <= i
    BY <2>1, MinIsLeast
  <2>3. Min(S) \in Nat
    BY <2>1, <2>2
  <2> QED
    BY <1>1, <1>3, <2>2, <2>3
<1>5. TextAt(mem, at) = SubSeq(mem, at, at + l - 1)
  <2>1. TextAt(mem, at) = SubSeq(mem, at, Min(S) - 1)
    BY DEF TextAt, S
  <2>2. Min(S) - 1 = at + l - 1
    BY <1>1, <1>4
  <2> QED
    BY <2>1, <2>2, Zenon
<1> DEFINE u == SubSeq(mem, at, at + l - 1)
<1>6. u \in Seq(Nat) /\ Len(u) = l /\ \A i \in 1..l : u[i] = mem[at + i - 1]
  BY <1>1, <1>2
<1>7. t \in Seq(Nat)
  <2>1. Char \subseteq Nat
    BY DEF Char
  <2> QED
    BY <2>1, SeqMonotonic
<1> HIDE DEF u
<1>8. u = t
  <2>1. Len(u) = Len(t) /\ \A i \in 1..Len(u) : u[i] = t[i]
    BY <1>2, <1>6 DEF l
  <2> QED
    BY <1>6, <1>7, <2>1, SeqEqual
<1> QED
  BY <1>5, <1>8 DEF u

(* what strcpy leaves,                                                     *)
LEMMA WritesText ==
  ASSUME NEW mem \in Memory, NEW at \in Nat \ {0}, NEW t \in Seq(Nat), at + Len(t) <= Size
  PROVE  strcpy(mem, at, t) \in Memory /\ HasText(strcpy(mem, at, t), at, t)
<1> DEFINE l == Len(t)
           m == strcpy(mem, at, t)
<1>1. l \in Nat /\ Size \in Nat /\ \A i \in 1..l : t[i] \in Nat
  BY Sizes
<1>2. m = [i \in 1..Size |-> IF i \in at..at+l-1 THEN t[i - at + 1]
                             ELSE IF i = at + l THEN 0 ELSE mem[i]]
  BY DEF strcpy, Memory
<1>3. at + l <= Size
  OBVIOUS
<1> HIDE DEF m, l
<1>4. m \in Memory
  <2>1. ASSUME NEW i \in at..at+l-1
        PROVE  i - at + 1 \in 1..l
    BY <1>1
  <2>2. \A i \in at..at+l-1 : t[i - at + 1] \in Nat
    BY <1>1, <2>1
  <2>3. \A i \in 1..Size : mem[i] \in Nat
    BY DEF Memory
  <2> QED
    BY <1>2, <2>2, <2>3 DEF Memory
<1>5. ASSUME NEW i \in 1..l
      PROVE  m[at + i - 1] = t[i]
  <2> DEFINE n == at + i - 1
  <2>1. n \in 1..Size /\ n \in at..at+l-1 /\ n - at + 1 = i
    BY <1>1, <1>3
  <2> HIDE DEF n
  <2>2. m[n] = t[n - at + 1]
    BY <1>2, <2>1
  <2> QED
    BY <2>1, <2>2 DEF n
<1>6. m[at + l] = 0
  <2>1. at + l \in 1..Size /\ at + l \notin at..at+l-1
    BY <1>1, <1>3
  <2> QED
    BY <1>2, <2>1
<1> QED
  BY <1>3, <1>4, <1>5, <1>6 DEF HasText, m, l

(* and not touched by what is written apart from it.                       *)
LEMMA LeavesText ==
  ASSUME NEW mem \in Memory, NEW at \in Nat \ {0}, NEW t \in Seq(Nat), HasText(mem, at, t),
         NEW to \in Nat \ {0}, NEW u \in Seq(Nat),
         at + Len(t) < to \/ to + Len(u) < at
  PROVE  HasText(strcpy(mem, to, u), at, t)
<1> DEFINE l == Len(t)
           k == Len(u)
           m == strcpy(mem, to, u)
<1>1. l \in Nat /\ k \in Nat /\ Size \in Nat
  BY Sizes
<1>2. m = [i \in 1..Size |-> IF i \in to..to+k-1 THEN u[i - to + 1]
                             ELSE IF i = to + k THEN 0 ELSE mem[i]]
  BY DEF strcpy, Memory
<1>3. /\ at + l <= Size /\ (\A i \in 1..l : mem[at + i - 1] = t[i]) /\ mem[at + l] = 0
      /\ at + l < to \/ to + k < at
  BY DEF HasText
<1> HIDE DEF m, l, k
<1>4. \A n \in at..at+l : m[n] = mem[n]
  <2>1. ASSUME NEW n \in at..at+l
        PROVE  n \in 1..Size /\ n \notin to..to+k-1 /\ n # to + k
    BY <1>1, <1>3
  <2> QED
    BY <1>2, <2>1
<1>5. \A i \in 1..l : at + i - 1 \in at..at+l
  BY <1>1
<1>6. at + l \in at..at+l
  BY <1>1
<1> QED
  BY <1>3, <1>4, <1>5, <1>6 DEF HasText, m, l

(* What is decoded is no longer than what it was decoded from.             *)
LEMMA DecodesShorter ==
  ASSUME NEW s \in Seq(Char)
  PROVE  urldecode(s) \in Seq(Nat) /\ Len(urldecode(s)) <= Len(s)
<1> DEFINE N == Len(s)
<1>1. N \in Nat
  OBVIOUS
<1>2. PICK D \in [0..N -> Decoder] :
        /\ D[0] = Start
        /\ \A n \in 1..N : D[n] = Decoded(D[n - 1], s, n)
        /\ urldecode(s) = D[N].text
  BY DecodeSteps
<1>3. \A k \in 0..N : D[k].text \in Seq(Nat) /\ D[k].skip \in 0..2
  BY DEF Decoder
<1> DEFINE X == {k \in 0..N : Len(D[k].text) <= k}
<1>4. 0 \in X
  <2>1. 0 \in 0..N /\ Len(D[0].text) = 0
    BY <1>1, <1>2 DEF Start
  <2> QED
    BY <2>1
<1>5. ASSUME NEW k \in 0..N-1, k \in X
      PROVE  k + 1 \in X
  <2> DEFINE t == D[k].text
             d == D[k].skip
             e == 16 * DigitOf(s[(k + 1) + 1]) + DigitOf(s[(k + 1) + 2])
             v == Unescaped(s[k + 1])
             x == D[k + 1]
  <2>1. k + 1 \in 1..N /\ k + 1 \in 0..N /\ (k + 1) - 1 = k /\ k + 1 \in 1..Len(s) /\ k \in 0..N
    BY <1>1
  <2>2. t \in Seq(Nat) /\ d \in 0..2 /\ D[k] = [text |-> t, skip |-> d]
    BY <1>3, <2>1 DEF Decoder
  <2>3. Len(t) <= k
    BY <1>5
  <2>4. x = Decoded(D[k], s, k + 1)
    BY <1>2, <2>1, Zenon
  <2> HIDE DEF t, d
  <2>5. /\ d > 0 => x = [text |-> t, skip |-> d - 1]
        /\ d = 0 /\ IsEscape(s, k + 1) => e \in Nat /\ x = [text |-> Append(t, e), skip |-> 2]
        /\ d = 0 /\ ~IsEscape(s, k + 1) => v \in Nat /\ x = [text |-> Append(t, v), skip |-> 0]
    <3> HIDE DEF x
    <3> QED
      BY <2>1, <2>2, <2>4, DecodedParts
  <2> HIDE DEF e, v, x
  <2>6. x.text \in {t} \cup {Append(t, n) : n \in Nat}
    BY <2>2, <2>5
  <2>7. \A n \in Nat : Len(Append(t, n)) = Len(t) + 1
    BY <2>2, AppendProperties
  <2>8. Len(x.text) <= k + 1
    BY <2>1, <2>2, <2>3, <2>6, <2>7
  <2> QED
    BY <2>1, <2>8 DEF x
<1> HIDE DEF X, N
<1>6. N \in X
  <2>1. N \in 0..N
    BY <1>1
  <2> QED
    BY <1>1, <1>4, <1>5, <2>1, Induction
<1> QED
  BY <1>1, <1>2, <1>3, <1>6 DEF X, N

-----------------------------------------------------------------------------
(* urlGetParameter.                                                        *)

(* The names are texts without a mark, and differ.                         *)
IsName(name) == name # <<>> /\ \A i \in 1..Len(name) : name[i] \notin {Amp, Equals}

LEMMA FormNames ==
  /\ Ssid \in Seq(Char) /\ Pwd \in Seq(Char) /\ IsName(Ssid) /\ IsName(Pwd) /\ Ssid # Pwd
  /\ Len(Ssid) = 4 /\ Len(Pwd) = 3
<1>2. 115 \in Char /\ 105 \in Char /\ 100 \in Char /\ 112 \in Char /\ 119 \in Char
  BY DEF Char
<1>3. Ssid \in Seq(Char) /\ Len(Ssid) = 4 /\ Pwd \in Seq(Char) /\ Len(Pwd) = 3
  BY <1>2 DEF Ssid, Pwd
<1>4. IsName(Ssid)
  <2>1. \A i \in 1..4 : Ssid[i] \notin {Amp, Equals}
    BY DEF Ssid, Amp, Equals
  <2>2. Ssid # <<>>
    BY DEF Ssid
  <2> QED
    BY <1>3, <2>1, <2>2 DEF IsName
<1>5. IsName(Pwd)
  <2>1. \A i \in 1..3 : Pwd[i] \notin {Amp, Equals}
    BY DEF Pwd, Amp, Equals
  <2>2. Pwd # <<>>
    BY DEF Pwd
  <2> QED
    BY <1>3, <2>1, <2>2 DEF IsName
<1>6. Ssid # Pwd
  <2>1. Ssid = Pwd => Len(Ssid) = Len(Pwd)
    OBVIOUS
  <2> QED
    BY <1>3, <2>1
<1> QED
  BY <1>3, <1>4, <1>5, <1>6

(* A name with what the browser has encoded behind it.                     *)
Part(name, text) == name \o <<Equals>> \o FormEncode(text)

LEMMA PartOfForm ==
  ASSUME NEW name \in Seq(Char), NEW text \in Seq(Char), IsName(name)
  PROVE  /\ Part(name, text) \in Seq(Char)
         /\ Len(Part(name, text)) = Len(name) + 1 + Len(FormEncode(text))
         /\ Part(name, text) # <<>>
         /\ \A i \in 1..Len(Part(name, text)) : Part(name, text)[i] # Amp
         /\ Tokens(Part(name, text), Equals) =
              IF text = <<>> THEN <<name>> ELSE <<name, FormEncode(text)>>
<1> DEFINE e == FormEncode(text)
           u == name \o <<Equals>>
           p == u \o e
           k == Len(name)
           l == Len(e)
<1>1. e \in Seq(Char) /\ (\A i \in 1..l : e[i] \notin {Amp, Equals, Mark}) /\ (e = <<>> <=> text = <<>>)
  BY EncodedText
<1>2. name # <<>> /\ \A i \in 1..k : name[i] \notin {Amp, Equals}
  BY DEF IsName
<1>3. Equals \in Char /\ Equals # Amp
  BY DEF Equals, Amp, Char
<1>4. p = Part(name, text)
  BY DEF Part
<1> HIDE DEF e
<1>5. /\ u \in Seq(Char) /\ Len(u) = k + 1 /\ k \in Nat
      /\ \A i \in 1..k : u[i] = name[i]
      /\ u[k + 1] = Equals
  <2>1. <<Equals>> \in Seq(Char) /\ Len(<<Equals>>) = 1 /\ <<Equals>>[1] = Equals
    BY <1>3
  <2> QED
    BY <2>1, ConcatParts
<1>6. Tokens(p, Equals) = IF e = <<>> THEN <<name>> ELSE <<name, e>>
  <2>1. (\A i \in 1..Len(name) : name[i] # Equals) /\ (\A i \in 1..Len(e) : e[i] # Equals)
    BY <1>1, <1>2
  <2> QED
    BY <1>1, <1>2, <1>3, <2>1, TwoTokens
<1> HIDE DEF u
<1>7. /\ p \in Seq(Char) /\ Len(p) = k + 1 + l /\ l \in Nat
      /\ \A i \in 1..k+1 : p[i] = u[i]
      /\ \A i \in 1..l : p[k + 1 + i] = e[i]
  <2>1. u \in Seq(Char) /\ e \in Seq(Char)
    BY <1>1, <1>5
  <2>2. /\ p \in Seq(Char) /\ Len(p) = Len(u) + Len(e) /\ Len(e) \in Nat
        /\ \A i \in 1..Len(u) : p[i] = u[i]
        /\ \A i \in 1..Len(e) : p[Len(u) + i] = e[i]
    BY <2>1, ConcatParts
  <2> HIDE DEF p
  <2> QED
    BY <1>5, <2>2
<1> HIDE DEF p, k, l
<1>8. ASSUME NEW i \in 1..k+1+l
      PROVE  p[i] # Amp
  <2>1. CASE i \in 1..k
    BY <1>2, <1>5, <1>7, <2>1
  <2>2. CASE i = k + 1
    BY <1>3, <1>5, <1>7, <2>2
  <2>3. CASE i - (k + 1) \in 1..l
    <3>1. p[k + 1 + (i - (k + 1))] = e[i - (k + 1)]
      BY <1>7, <2>3
    <3>2. k + 1 + (i - (k + 1)) = i
      BY <1>5
    <3> QED
      BY <1>1, <2>3, <3>1, <3>2
  <2>4. i \in 1..k \/ i = k + 1 \/ i - (k + 1) \in 1..l
    BY <1>5, <1>7
  <2> QED
    BY <2>1, <2>2, <2>3, <2>4
<1>9. p # <<>>
  BY <1>5, <1>7
<1> QED
  BY <1>1, <1>4, <1>6, <1>7, <1>8, <1>9 DEF k, l, e

(* A form's two parameters, one behind the other.                          *)
LEMMA FormParts ==
  ASSUME NEW text \in Seq(Char), NEW other \in Seq(Char)
  PROVE  /\ FormParm(Ssid, text, Pwd, other) \in Seq(Char)
         /\ FieldsFit(text, other) => Len(FormParm(Ssid, text, Pwd, other)) <= ParmMax
         /\ Tokens(FormParm(Ssid, text, Pwd, other), Amp) = <<Part(Ssid, text), Part(Pwd, other)>>
<1> DEFINE a == Part(Ssid, text)
           b == Part(Pwd, other)
           u == a \o <<Amp>>
           s == u \o b
           k == Len(FormEncode(text))
           l == Len(FormEncode(other))
<1>1. FormParm(Ssid, text, Pwd, other) = s
  BY DEF FormParm, Part
<1>2. k \in Nat /\ l \in Nat
  <2>1. FormEncode(text) \in Seq(Char) /\ FormEncode(other) \in Seq(Char)
    BY EncodedText
  <2> QED
    BY <2>1
<1>3. FieldsFit(text, other) => k + l <= 2030
  BY <1>2, Sizes DEF FieldsFit
<1>4. /\ a \in Seq(Char) /\ a # <<>> /\ Len(a) = 4 + 1 + k
      /\ \A i \in 1..Len(a) : a[i] # Amp
  <2>1. Ssid \in Seq(Char) /\ IsName(Ssid) /\ Len(Ssid) = 4
    BY FormNames
  <2>2. /\ a \in Seq(Char) /\ Len(a) = Len(Ssid) + 1 + k /\ a # <<>>
        /\ \A i \in 1..Len(a) : a[i] # Amp
    BY <2>1, PartOfForm
  <2> QED
    BY <2>1, <2>2, Zenon
<1>5. /\ b \in Seq(Char) /\ b # <<>> /\ Len(b) = 3 + 1 + l
      /\ \A i \in 1..Len(b) : b[i] # Amp
  <2>1. Pwd \in Seq(Char) /\ IsName(Pwd) /\ Len(Pwd) = 3
    BY FormNames
  <2>2. /\ b \in Seq(Char) /\ Len(b) = Len(Pwd) + 1 + l /\ b # <<>>
        /\ \A i \in 1..Len(b) : b[i] # Amp
    BY <2>1, PartOfForm
  <2> QED
    BY <2>1, <2>2, Zenon
<1> HIDE DEF a, b
<1>6. Amp \in Char
  BY DEF Amp, Char
<1>7. Tokens(s, Amp) = <<a, b>>
  <2>1. Tokens(s, Amp) = IF b = <<>> THEN <<a>> ELSE <<a, b>>
    BY <1>4, <1>5, <1>6, TwoTokens
  <2> HIDE DEF s
  <2> QED
    BY <1>5, <2>1
<1>8. u \in Seq(Char) /\ Len(u) = Len(a) + 1
  <2>1. <<Amp>> \in Seq(Char) /\ Len(<<Amp>>) = 1
    BY <1>6
  <2>2. a \in Seq(Char)
    BY <1>4
  <2> QED
    BY <2>1, <2>2, ConcatParts
<1> HIDE DEF u, k, l
<1>9. s \in Seq(Char) /\ Len(s) = Len(u) + Len(b)
  <2>1. u \in Seq(Char) /\ b \in Seq(Char)
    BY <1>5, <1>8
  <2> QED
    BY <2>1, ConcatParts
<1> HIDE DEF s
<1>10. FieldsFit(text, other) => Len(s) <= ParmMax
  BY <1>2, <1>3, <1>4, <1>5, <1>8, <1>9 DEF ParmMax
<1> QED
  BY <1>1, <1>7, <1>9, <1>10 DEF a, b

(* Each is found under its name, and is there if the field was filled in.  *)
LEMMA FormParameters ==
  ASSUME NEW text \in Seq(Char), NEW other \in Seq(Char), FieldsFit(text, other),
         NEW mem, NEW at
  PROVE  /\ urlGetParameter(FormParm(Ssid, text, Pwd, other), Ssid, mem, at) =
              IF text = <<>> THEN mem ELSE strcpy(mem, at, FormEncode(text))
         /\ urlGetParameter(FormParm(Ssid, text, Pwd, other), Pwd, mem, at) =
              IF other = <<>> THEN mem ELSE strcpy(mem, at, FormEncode(other))
<1> DEFINE str == FormParm(Ssid, text, Pwd, other)
           a == Part(Ssid, text)
           b == Part(Pwd, other)
           e == FormEncode(text)
           f == FormEncode(other)
<1>1. Len(str) <= ParmMax /\ Tokens(str, Amp) = <<a, b>>
  BY FormParts
<1>2. Tokens(a, Equals) = IF text = <<>> THEN <<Ssid>> ELSE <<Ssid, e>>
  BY FormNames, PartOfForm
<1>3. Tokens(b, Equals) = IF other = <<>> THEN <<Pwd>> ELSE <<Pwd, f>>
  BY FormNames, PartOfForm
<1>4. Ssid # Pwd
  BY FormNames
<1> HIDE DEF str, a, b, e, f
<1> DEFINE pairs == [i \in DOMAIN Tokens(str, Amp) |-> Tokens(Tokens(str, Amp)[i], Equals)]
           hits(name) == {i \in DOMAIN pairs : pairs[i][1] = name}
           v == Tokens(a, Equals)
           w == Tokens(b, Equals)
<1>5. /\ v[1] = Ssid /\ (text = <<>> => Len(v) = 1) /\ (text # <<>> => Len(v) = 2 /\ v[2] = e)
      /\ w[1] = Pwd /\ (other = <<>> => Len(w) = 1) /\ (other # <<>> => Len(w) = 2 /\ w[2] = f)
  <2> HIDE DEF v, w
  <2>1. v = IF text = <<>> THEN <<Ssid>> ELSE <<Ssid, e>>
    BY <1>2 DEF v
  <2>2. w = IF other = <<>> THEN <<Pwd>> ELSE <<Pwd, f>>
    BY <1>3 DEF w
  <2> QED
    BY <2>1, <2>2
<1>6. DOMAIN pairs = 1..2 /\ pairs[1] = v /\ pairs[2] = w
  <2> DEFINE T == <<a, b>>
  <2>1. DOMAIN T = 1..2 /\ T[1] = a /\ T[2] = b
    OBVIOUS
  <2> HIDE DEF T
  <2>2. Tokens(str, Amp) = T
    BY <1>1 DEF T
  <2>3. pairs = [i \in 1..2 |-> Tokens(T[i], Equals)]
    BY <2>1, <2>2, Zenon
  <2> HIDE DEF pairs
  <2> QED
    BY <2>1, <2>3
<1>7. ASSUME NEW name
      PROVE  urlGetParameter(str, name, mem, at) =
               IF hits(name) # {} /\ Len(pairs[Min(hits(name))]) > 1
               THEN strcpy(mem, at, pairs[Min(hits(name))][2]) ELSE mem
  BY <1>1 DEF urlGetParameter
<1> HIDE DEF pairs, v, w
<1>8. hits(Ssid) = {1} /\ hits(Pwd) = {2}
  <2>1. pairs[1][1] = Ssid /\ pairs[2][1] = Pwd
    BY <1>5, <1>6
  <2>2. \A i \in 1..2 : i = 1 \/ i = 2
    OBVIOUS
  <2> QED
    BY <1>4, <1>6, <2>1, <2>2
<1>9. Min(hits(Ssid)) = 1 /\ Min(hits(Pwd)) = 2
  BY <1>8, MinOfOne, Zenon
<1> HIDE DEF hits
<1>10. urlGetParameter(str, Ssid, mem, at) = IF text = <<>> THEN mem ELSE strcpy(mem, at, e)
  <2>1. urlGetParameter(str, Ssid, mem, at) = IF Len(v) > 1 THEN strcpy(mem, at, v[2]) ELSE mem
    BY <1>6, <1>7, <1>8, <1>9
  <2> QED
    BY <1>5, <2>1
<1>11. urlGetParameter(str, Pwd, mem, at) = IF other = <<>> THEN mem ELSE strcpy(mem, at, f)
  <2>1. urlGetParameter(str, Pwd, mem, at) = IF Len(w) > 1 THEN strcpy(mem, at, w[2]) ELSE mem
    BY <1>6, <1>7, <1>8, <1>9
  <2> QED
    BY <1>5, <2>1
<1> QED
  BY <1>10, <1>11 DEF str, e, f

-----------------------------------------------------------------------------
(* The two fields.                                                         *)
Fields(mem, ssid, passwd) ==
  /\ mem \in Memory
  /\ ssid \in Seq(Nat) /\ Len(ssid) < SsidSize /\ HasText(mem, sta_ssid, ssid)
  /\ passwd \in Seq(Nat) /\ Len(passwd) < PwdSize /\ HasText(mem, sta_passwd, passwd)

LEMMA Places ==
  /\ sta_ssid \in Nat \ {0} /\ sta_passwd \in Nat \ {0}
  /\ sta_ssid = 1 /\ sta_passwd = SsidSize + 1
BY Sizes DEF sta_ssid, sta_passwd

(* A text of ASCII codes is one of numbers.                                *)
LEMMA CodesAreNumbers == Seq(Char) \subseteq Seq(Nat)
<1>1. Char \subseteq Nat
  BY DEF Char
<1> QED
  BY <1>1, SeqMonotonic

(* A text that fits takes the place of the one in a field, whatever the    *)
(* other field holds.                                                      *)
LEMMA WritesSsid ==
  ASSUME NEW mem, NEW ssid, NEW passwd, Fields(mem, ssid, passwd),
         NEW t \in Seq(Nat), Len(t) < SsidSize
  PROVE  Fields(strcpy(mem, sta_ssid, t), t, passwd)
<1>1. /\ mem \in Memory /\ HasText(mem, sta_passwd, passwd)
      /\ passwd \in Seq(Nat) /\ Len(passwd) < PwdSize
  BY DEF Fields
<1>2. /\ sta_ssid \in Nat \ {0} /\ sta_passwd \in Nat \ {0}
      /\ sta_ssid + Len(t) <= Size /\ sta_ssid + Len(t) < sta_passwd
  <2>1. Len(t) \in Nat
    OBVIOUS
  <2> QED
    BY <2>1, Places, Sizes
<1>3. strcpy(mem, sta_ssid, t) \in Memory /\ HasText(strcpy(mem, sta_ssid, t), sta_ssid, t)
  BY <1>1, <1>2, WritesText
<1>4. HasText(strcpy(mem, sta_ssid, t), sta_passwd, passwd)
  BY <1>1, <1>2, LeavesText
<1> QED
  BY <1>1, <1>3, <1>4 DEF Fields

LEMMA WritesPasswd ==
  ASSUME NEW mem, NEW ssid, NEW passwd, Fields(mem, ssid, passwd),
         NEW t \in Seq(Nat), Len(t) < PwdSize
  PROVE  Fields(strcpy(mem, sta_passwd, t), ssid, t)
<1>1. /\ mem \in Memory /\ HasText(mem, sta_ssid, ssid)
      /\ ssid \in Seq(Nat) /\ Len(ssid) < SsidSize
  BY DEF Fields
<1>2. /\ sta_ssid \in Nat \ {0} /\ sta_passwd \in Nat \ {0}
      /\ sta_passwd + Len(t) <= Size /\ sta_ssid + Len(ssid) < sta_passwd
  <2>1. Len(t) \in Nat /\ Len(ssid) \in Nat
    BY <1>1
  <2> QED
    BY <1>1, <2>1, Places, Sizes
<1>3. strcpy(mem, sta_passwd, t) \in Memory /\ HasText(strcpy(mem, sta_passwd, t), sta_passwd, t)
  BY <1>1, <1>2, WritesText
<1>4. HasText(strcpy(mem, sta_passwd, t), sta_ssid, ssid)
  BY <1>1, <1>2, LeavesText
<1> QED
  BY <1>1, <1>3, <1>4 DEF Fields

(* What the flash has are two such texts.                                  *)
LEMMA StoredFields ==
  ASSUME NEW ssid \in Seq(Nat), NEW passwd \in Seq(Nat), StoredFit(ssid, passwd)
  PROVE  Fields(StoredInfo(ssid, passwd), ssid, passwd)
<1> DEFINE zeros == [i \in 1..SsidSize + PwdSize |-> 0]
           none  == <<>>
<1>1. none \in Seq(Nat) /\ Len(none) = 0
  OBVIOUS
<1>2. zeros \in Memory /\ \A i \in 1..Size : zeros[i] = 0
  BY Sizes DEF Memory
<1>3. StoredInfo(ssid, passwd) = strcpy(strcpy(zeros, sta_ssid, ssid), sta_passwd, passwd)
  BY DEF StoredInfo
<1> HIDE DEF zeros, none
<1>4. Fields(zeros, none, none)
  <2>1. sta_ssid \in 1..Size /\ sta_passwd \in 1..Size
    BY Places, Sizes
  <2>2. sta_ssid + 0 <= Size /\ sta_passwd + 0 <= Size /\ sta_ssid + 0 = sta_ssid /\ sta_passwd + 0 = sta_passwd
    BY <2>1, Places, Sizes
  <2>3. \A at \in {sta_ssid, sta_passwd} : HasText(zeros, at, none)
    BY <1>1, <1>2, <2>1, <2>2 DEF HasText
  <2> QED
    BY <1>1, <1>2, <2>3, Sizes DEF Fields
<1>5. Len(ssid) < SsidSize /\ Len(passwd) < PwdSize
  BY DEF StoredFit
<1>6. Fields(strcpy(zeros, sta_ssid, ssid), ssid, none)
  BY <1>4, <1>5, WritesSsid
<1> QED
  BY <1>3, <1>5, <1>6, WritesPasswd

(* Decoding in place.                                                      *)
LEMMA DecodesThere ==
  ASSUME NEW mem \in Memory, NEW at \in Nat \ {0}, NEW t \in Seq(Char), HasText(mem, at, t)
  PROVE  DecodedAt(mem, at) = strcpy(mem, at, urldecode(t))
BY ReadsText, Zenon DEF DecodedAt

LEMMA DecodesFields ==
  ASSUME NEW mem, NEW ssid \in Seq(Char), NEW passwd \in Seq(Char), Fields(mem, ssid, passwd)
  PROVE  Fields(DecodedAt(DecodedAt(mem, sta_ssid), sta_passwd), urldecode(ssid), urldecode(passwd))
<1> DEFINE s == urldecode(ssid)
           p == urldecode(passwd)
           m == strcpy(mem, sta_ssid, s)
<1>1. s \in Seq(Nat) /\ Len(s) <= Len(ssid) /\ p \in Seq(Nat) /\ Len(p) <= Len(passwd)
  BY DecodesShorter
<1>2. /\ mem \in Memory /\ HasText(mem, sta_ssid, ssid)
      /\ Len(ssid) < SsidSize /\ Len(passwd) < PwdSize
  BY DEF Fields
<1>3. Len(s) < SsidSize /\ Len(p) < PwdSize
  <2>1. Len(ssid) \in Nat /\ Len(passwd) \in Nat /\ Len(s) \in Nat /\ Len(p) \in Nat
    BY <1>1
  <2> HIDE DEF s, p
  <2> QED
    BY <1>1, <1>2, <2>1, Sizes
<1>4. DecodedAt(mem, sta_ssid) = m
  BY <1>2, Places, DecodesThere
<1> HIDE DEF s, p
<1>5. Fields(m, s, passwd)
  BY <1>1, <1>3, WritesSsid
<1>6. m \in Memory /\ HasText(m, sta_passwd, passwd)
  BY <1>5 DEF Fields
<1> HIDE DEF m
<1>7. DecodedAt(m, sta_passwd) = strcpy(m, sta_passwd, p)
  BY <1>6, Places, DecodesThere DEF p
<1>8. Fields(strcpy(m, sta_passwd, p), s, p)
  BY <1>1, <1>3, <1>5, WritesPasswd
<1> QED
  BY <1>4, <1>7, <1>8, Zenon DEF s, p

(* The fields in memory, from the flash through the form to the flash.     *)
LEMMA FieldsSaved ==
  ASSUME NEW text \in Seq(Char), NEW other \in Seq(Char),
         NEW ssid \in Seq(Char), NEW passwd \in Seq(Char),
         FieldsFit(text, other), StoredFit(ssid, passwd)
  PROVE  Fields(Saved(FormParm(Ssid, text, Pwd, other), StoredInfo(ssid, passwd)),
                urldecode(IF text = <<>> THEN ssid ELSE FormEncode(text)),
                urldecode(IF other = <<>> THEN passwd ELSE FormEncode(other)))
<1> DEFINE parm == FormParm(Ssid, text, Pwd, other)
           x  == IF text = <<>> THEN ssid ELSE FormEncode(text)
           y  == IF other = <<>> THEN passwd ELSE FormEncode(other)
           m0 == StoredInfo(ssid, passwd)
           m1 == urlGetParameter(parm, Ssid, m0, sta_ssid)
           m2 == urlGetParameter(parm, Pwd, m1, sta_passwd)
<1>1. FormEncode(text) \in Seq(Char) /\ FormEncode(other) \in Seq(Char)
  BY EncodedText
<1>2. Len(FormEncode(text)) < SsidSize /\ Len(FormEncode(other)) < PwdSize
  BY DEF FieldsFit
<1>3. x \in Seq(Char) /\ y \in Seq(Char)
  BY <1>1
<1>4. Fields(m0, ssid, passwd)
  BY CodesAreNumbers, StoredFields
<1>5. /\ m1 = IF text = <<>> THEN m0 ELSE strcpy(m0, sta_ssid, FormEncode(text))
      /\ m2 = IF other = <<>> THEN m1 ELSE strcpy(m1, sta_passwd, FormEncode(other))
  <2> HIDE DEF m0
  <2>1. m1 = IF text = <<>> THEN m0 ELSE strcpy(m0, sta_ssid, FormEncode(text))
    BY FormParameters
  <2> HIDE DEF m1
  <2>2. m2 = IF other = <<>> THEN m1 ELSE strcpy(m1, sta_passwd, FormEncode(other))
    BY FormParameters
  <2> QED
    BY <2>1, <2>2
<1>6. Saved(parm, m0) = DecodedAt(DecodedAt(m2, sta_ssid), sta_passwd)
  BY DEF Saved
<1> HIDE DEF m0, m1, m2, parm
<1>7. Fields(m1, x, passwd)
  <2>1. CASE text = <<>>
    BY <1>4, <1>5, <2>1
  <2>2. CASE text # <<>>
    <3>1. FormEncode(text) \in Seq(Nat)
      BY <1>1, CodesAreNumbers
    <3>2. Fields(strcpy(m0, sta_ssid, FormEncode(text)), FormEncode(text), passwd)
      BY <1>2, <1>4, <3>1, WritesSsid
    <3> QED
      BY <1>5, <2>2, <3>2
  <2> QED
    BY <2>1, <2>2
<1> HIDE DEF x
<1>8. Fields(m2, x, y)
  <2>1. CASE other = <<>>
    BY <1>5, <1>7, <2>1
  <2>2. CASE other # <<>>
    <3>1. FormEncode(other) \in Seq(Nat)
      BY <1>1, CodesAreNumbers
    <3>2. Fields(strcpy(m1, sta_passwd, FormEncode(other)), x, FormEncode(other))
      BY <1>2, <1>7, <3>1, WritesPasswd
    <3> QED
      BY <1>5, <2>2, <3>2
  <2> QED
    BY <2>1, <2>2
<1> HIDE DEF y
<1>9. Fields(DecodedAt(DecodedAt(m2, sta_ssid), sta_passwd), urldecode(x), urldecode(y))
  BY <1>3, <1>8, DecodesFields
<1> QED
  BY <1>6, <1>9 DEF parm, m0, x, y

(* What a field has in the end is what is read from it.                    *)
LEMMA FieldsRead ==
  ASSUME NEW mem, NEW ssid, NEW passwd, Fields(mem, ssid, passwd)
  PROVE  /\ ssid \in Seq(Char) => TextAt(mem, sta_ssid) = ssid
         /\ passwd \in Seq(Char) => TextAt(mem, sta_passwd) = passwd
<1>1. /\ mem \in Memory /\ HasText(mem, sta_ssid, ssid) /\ HasText(mem, sta_passwd, passwd)
      /\ sta_ssid \in Nat \ {0} /\ sta_passwd \in Nat \ {0}
  BY Places DEF Fields
<1> QED
  BY <1>1, ReadsText

(* The page's name and the parameters come apart at the mark.              *)
LEMMA SplitsForm ==
  ASSUME NEW parm \in Seq(Char)
  PROVE  urlSplit(FormUrl(Save, parm)).file = Save /\ urlSplit(FormUrl(Save, parm)).parm = parm
<1>1. Save \in Seq(Char) /\ \A i \in 1..Len(Save) : Save[i] # Mark
  <2>1. 47 \in Char /\ 115 \in Char
    BY DEF Char
  <2>2. Save \in Seq(Char) /\ Len(Save) = 2 /\ Save[1] = 47 /\ Save[2] = 115
    BY <2>1 DEF Save
  <2> QED
    BY <2>2 DEF Mark
<1>2. Mark \in Char
  BY DEF Mark, Char
<1>3. /\ Before(Save \o <<Mark>> \o parm, Mark) = Save
      /\ Behind(Save \o <<Mark>> \o parm, Mark) = parm
  BY <1>1, <1>2, SplitAtFirst
<1> DEFINE u == FormUrl(Save, parm)
<1>4. Before(u, Mark) = Save /\ Behind(u, Mark) = parm
  BY <1>3 DEF FormUrl
<1> HIDE DEF u
<1>5. urlSplit(u) = [file |-> Before(u, Mark), parm |-> Behind(u, Mark)]
  BY DEF urlSplit
<1> QED
  BY <1>4, <1>5 DEF u

(* For every text that is typed into either field, and every text stored   *)
(* before, of the lengths that the arrays take: the form is saved as typed.*)
THEOREM EveryFormSaved ==
  ASSUME NEW text \in Seq(Char), NEW other \in Seq(Char),
         NEW ssid \in Seq(Char), NEW passwd \in Seq(Char)
  PROVE  SavesAsTyped(text, other, ssid, passwd)
<1> DEFINE parm == FormParm(Ssid, text, Pwd, other)
           url  == urlSplit(FormUrl(Save, parm))
           info == Saved(url.parm, StoredInfo(ssid, passwd))
           Becomes(at, new, stored) == IF new # <<>> THEN TextAt(info, at) = new
                                       ELSE IsPlain(stored) => TextAt(info, at) = stored
<1>1. parm \in Seq(Char)
  BY FormParts
<1>2. url.file = Save /\ url.parm = parm
  <2> HIDE DEF parm
  <2> QED
    BY <1>1, SplitsForm
<1>3. ASSUME FieldsFit(text, other), StoredFit(ssid, passwd)
      PROVE  Becomes(sta_ssid, text, ssid) /\ Becomes(sta_passwd, other, passwd)
  <2> DEFINE x == urldecode(IF text = <<>> THEN ssid ELSE FormEncode(text))
             y == urldecode(IF other = <<>> THEN passwd ELSE FormEncode(other))
  <2>1. Fields(info, x, y)
    <3>1. Fields(Saved(parm, StoredInfo(ssid, passwd)), x, y)
      BY <1>3, FieldsSaved
    <3> HIDE DEF parm, url, x, y
    <3> QED
      BY <1>2, <3>1
  <2>2. /\ text # <<>> => x = text
        /\ text = <<>> /\ IsPlain(ssid) => x = ssid
    BY DecodesEncoded, DecodesPlain
  <2>3. /\ other # <<>> => y = other
        /\ other = <<>> /\ IsPlain(passwd) => y = passwd
    BY DecodesEncoded, DecodesPlain
  <2> HIDE DEF info, x, y
  <2>4. /\ x \in Seq(Char) => TextAt(info, sta_ssid) = x
        /\ y \in Seq(Char) => TextAt(info, sta_passwd) = y
    BY <2>1, FieldsRead
  <2>5. Becomes(sta_ssid, text, ssid)
    BY <2>2, <2>4
  <2>6. Becomes(sta_passwd, other, passwd)
    BY <2>3, <2>4
  <2> QED
    BY <2>5, <2>6
<1> QED
  BY <1>2, <1>3 DEF SavesAsTyped

(* What is typed into a form is what the settings have in the end: of the  *)
(* texts of any length that the instance's sets have, for arrays of any    *)
(* length.                                                                 *)
THEOREM FormsSavedAsTyped == Spec => []SavedAsTyped
<1>1. SavedAsTyped
  <2>1. /\ \A t \in Typed : t \in Seq(Char)
        /\ \A t \in TypedToo : t \in Seq(Char)
        /\ \A t \in Stored : t \in Seq(Char)
    BY TextsAssumption
  <2>2. ASSUME NEW text \in Typed, NEW other \in TypedToo, NEW ssid \in Stored, NEW passwd \in Stored
        PROVE  SavesAsTyped(text, other, ssid, passwd)
    BY <2>1, EveryFormSaved
  <2> QED
    BY <2>2 DEF SavedAsTyped
<1> QED
  BY <1>1, PTL
=============================================================================
