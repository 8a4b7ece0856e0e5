----------------------------- MODULE WebServer -----------------------------
(***************************************************************************)
(* The configuration pages' server (app/user/webPageAP.c, http_serv.c): the*)
(* connections it accepts and refuses, the one buffer in which it puts     *)
(* requests together, and the one list of the chunks still to be sent.     *)
(* A device without a JSON serves a page of its own instead (JsonErrAP.c), *)
(* with callbacks of the same make.  What the pages do to the settings is  *)
(* in Settings, what they do to a typed field in UrlText.                  *)
(*                                                                         *)
(* A request is <<page, ckd>>, the number on the form it comes from with   *)
(* it.  Its text is three pieces: what begins with GET, up to within the   *)
(* URL; the rest of the URL; and the empty line, behind other headers.     *)
(***************************************************************************)
EXTENDS Integers, Sequences, SequencesExt, FiniteSets

CONSTANTS
  Conns,        \* connections at a time
  NoConn,       \* NULL
  Requests,     \* what browsers ask for
  Cuts,         \* <<request, n>>: may come in two, cut behind its piece n
  Ckds,         \* numbers for the index page, from 1; the code has 1..1000
  PageChunks,   \* chunks of 500 bytes in a page
  CacheSize,    \* the size of cacheBuf, in pieces
  RestartTicks  \* the 1000 ms of trRestart

ASSUME WebAssumption ==
  /\ NoConn \notin Conns /\ Cuts \subseteq Requests \X (1..2)
  /\ CacheSize \in Nat /\ CacheSize > 3 /\ PageChunks \in Nat \ {0}
  /\ 0 \notin Ckds
ASSUME TickAssumption == RestartTicks \in Nat \ {0}

Text(r) == <<<<"GET", r>>, <<"URL", r>>, <<"END", <<"", 0>>>>>>

Missing == <<"missing", 0>>
NoRequest == <<"", 0>>

(* httpServResponeOK: the header, and the content in chunks; a page, or a  *)
(* short text.  httpServResponeJumpUrl and _NoFound make one chunk.        *)
Page(name)  == [i \in 1..(PageChunks + 1) |-> <<name, i>>]
Short(name) == <<<<name, 1>>, <<name, 2>>>>
Jump        == <<<<"jump", 1>>>>
NotFound    == <<<<"404", 1>>>>
Garbage     == <<"garbage", 0>>

-----------------------------------------------------------------------------
VARIABLES
  conn,                       \* each connection, see Closed
  web_pEspConn,
  cacheBuf, cacheLen,         \* cacheBuf as far as it has been written to
  sendDataList,
  index_page_ckd,
  is_frist_config_page,
  is_disconnect_cb_restart,
  g_webAPDisconResetFactory,  \* and g_jsonErrDisconResetFactory
  armed,                      \* g_trRestartTimer: the ticks left, 0 if it is not armed
  jsonErr                     \* JsonErrAP.c serves, since the last start

flags == <<index_page_ckd, is_frist_config_page, is_disconnect_cb_restart,
           g_webAPDisconResetFactory>>
cache == <<cacheBuf, cacheLen>>
vars  == <<conn, web_pEspConn, cache, sendDataList, flags, armed, jsonErr>>

(* A connection.  own and the fields after it are history.  own: it has    *)
(* been the only one open all the time, and its request has come in one    *)
(* piece and found no part of another in the cache.  As long as it is own, *)
(* the request, the chunks given to espconn_send, and whether the server   *)
(* has ended the connection are noted.                                     *)
Closed == [st |-> "none", asked |-> FALSE, rest |-> <<>>, busy |-> FALSE,
           own |-> FALSE, want |-> NoRequest, sent |-> <<>>, ended |-> FALSE]

NotOwn(r) == [r EXCEPT !.own = FALSE, !.want = NoRequest, !.sent = <<>>, !.ended = FALSE]

Init ==
  /\ conn = [c \in Conns |-> Closed] /\ web_pEspConn = NoConn
  /\ cacheBuf = <<>> /\ cacheLen = 0 /\ sendDataList = <<>>
  /\ index_page_ckd = 0 /\ is_frist_config_page = TRUE
  /\ is_disconnect_cb_restart = FALSE /\ g_webAPDisconResetFactory = FALSE
  /\ armed = 0 /\ jsonErr \in BOOLEAN

Open(c) == conn[c].st = "open"

-----------------------------------------------------------------------------
(* Faulty: the callbacks are registered for the accepted connection only.  *)
web_listenReturn(c) ==
  /\ conn[c].st = "none"
  /\ \/ /\ web_pEspConn # NoConn
        /\ UNCHANGED vars
     \/ /\ web_pEspConn = NoConn
        /\ conn' = [d \in Conns |->
                      IF d = c THEN [Closed EXCEPT !.st = "open", !.own = \A e \in Conns : ~Open(e)]
                      ELSE NotOwn(conn[d])]
        /\ web_pEspConn' = c
        /\ UNCHANGED <<cache, sendDataList, flags, armed, jsonErr>>

(* web_listen, for a new connection c.  One that is refused has the        *)
(* callbacks all the same, and web_pEspConn is c in any case.              *)
web_listen(c) ==
  /\ conn[c].st = "none"
  /\ \/ /\ web_pEspConn # NoConn
        /\ conn' = [conn EXCEPT ![c] = [Closed EXCEPT !.st = "closing"]]
     \/ /\ web_pEspConn = NoConn
        /\ conn' = [d \in Conns |->
                      IF d = c THEN [Closed EXCEPT !.st = "open", !.own = \A e \in Conns : ~Open(e)]
                      ELSE NotOwn(conn[d])]
  /\ web_pEspConn' = c
  /\ UNCHANGED <<cache, sendDataList, flags, armed, jsonErr>>

-----------------------------------------------------------------------------
(* Faulty: the buffer is filled to the last byte.                          *)
FitsAll(len) == len <= CacheSize

Fits(len) == len < CacheSize

Holds(buf, kind) == \E i \in DOMAIN buf : buf[i][1] = kind

(* What is asked for by the first GET in the buffer.                       *)
Requested(buf) ==
  LET first == Min({i \in DOMAIN buf : buf[i][1] = "GET"})
      r     == buf[first][2]
  IN  IF first + 1 \in DOMAIN buf /\ buf[first + 1] = <<"URL", r>> THEN r ELSE Missing

(* httpServReslovURL: the cache after it, and the requests it has found,   *)
(* one or none.  The search goes through all that the buffer holds, what   *)
(* earlier requests have left behind cacheLen included.                    *)
httpServReslovURL(seg) ==
  LET len == cacheLen + Len(seg)
      buf == SubSeq(cacheBuf, 1, cacheLen) \o seg \o SubSeq(cacheBuf, len + 1, Len(cacheBuf))
  IN  CASE ~Fits(len) -> [buf |-> cacheBuf, len |-> 0, urls |-> {}]
        [] Fits(len) /\ ~Holds(buf, "GET") -> [buf |-> buf, len |-> 0, urls |-> {}]
        [] Fits(len) /\ Holds(buf, "GET") /\ ~Holds(buf, "END") ->
             [buf |-> buf, len |-> len, urls |-> {}]
        [] OTHER -> [buf |-> buf, len |-> 0, urls |-> {Requested(buf)}]

(* The history of what is sent stops where it is longer than any answer.   *)
Send(r, chunk) ==
  [r EXCEPT !.busy = TRUE,
            !.sent = IF r.own /\ Len(@) <= PageChunks + 1 THEN Append(@, chunk) ELSE @]

(* espconn_disconnect                                                      *)
End(r) ==
  [r EXCEPT !.st = "closing", !.asked = FALSE, !.rest = <<>>, !.busy = FALSE, !.ended = r.own]

(* Faulty: what is left of the response before is not thrown away.         *)
ResponseKept(chunks) == sendDataList \o chunks

Response(chunks) == chunks

(* espconn_send of the first chunk, once a response has been made.         *)
Respond(c, r, chunks) ==
  /\ sendDataList' = Response(chunks)
  /\ conn' = [conn EXCEPT ![c] = Send(r, sendDataList'[1])]

(* The pages of web_recv_cb, for a request u on c; r is the connection.    *)
(* Each may find no memory for a page, and then answers nothing.           *)
index_htm(c, r, u) ==
  /\ u[1] = "index"
  /\ \/ /\ Respond(c, r, Page("index")) /\ index_page_ckd' \in Ckds
     \/ /\ conn' = [conn EXCEPT ![c] = r] /\ UNCHANGED <<sendDataList, index_page_ckd>>
  /\ UNCHANGED <<is_frist_config_page, is_disconnect_cb_restart, g_webAPDisconResetFactory>>

save_htm(c, r, u) ==
  /\ u[1] = "save"
  /\ \/ /\ u[2] # index_page_ckd
        /\ Respond(c, r, Jump) /\ UNCHANGED is_disconnect_cb_restart
     \/ /\ u[2] = index_page_ckd
        /\ \/ Respond(c, r, Page("save")) /\ is_disconnect_cb_restart' = TRUE
           \/ Respond(c, r, Short("refused")) /\ UNCHANGED is_disconnect_cb_restart
           \/ conn' = [conn EXCEPT ![c] = r] /\ UNCHANGED <<sendDataList, is_disconnect_cb_restart>>
  /\ UNCHANGED <<index_page_ckd, is_frist_config_page, g_webAPDisconResetFactory>>

config_htm(c, r, u) ==
  /\ \/ /\ u[1] = "cfg"
        /\ Respond(c, r, Jump)
        /\ g_webAPDisconResetFactory' = (g_webAPDisconResetFactory \/ ~is_frist_config_page)
        /\ UNCHANGED is_frist_config_page
     \/ /\ u[1] = "config" \/ (u[1] = "cfg" /\ ~is_frist_config_page)
        /\ \/ Respond(c, r, Page("config")) /\ is_frist_config_page' = FALSE
           \/ conn' = [conn EXCEPT ![c] = r] /\ UNCHANGED <<sendDataList, is_frist_config_page>>
        /\ UNCHANGED g_webAPDisconResetFactory
  /\ UNCHANGED <<index_page_ckd, is_disconnect_cb_restart>>

(* The .json pages.  save-sta.json restarts whatever the flash says.       *)
json(c, r, u) ==
  /\ u[1] \in {"isdev", "save-sta"}
  /\ Respond(c, r, Short(u[1]))
  /\ is_disconnect_cb_restart' = (is_disconnect_cb_restart \/ u[1] = "save-sta")
  /\ UNCHANGED <<index_page_ckd, is_frist_config_page, g_webAPDisconResetFactory>>

(* The page of jsonErrAP_recv_cb, under any of its names; asked with a JSON*)
(* it stores it, and shows the page again if the flash does not take it.   *)
jsonErr_htm(c, r, u) ==
  /\ \/ /\ u[1] = "cfg"
        /\ Respond(c, r, Jump) /\ g_webAPDisconResetFactory' = TRUE
     \/ /\ u[1] \in {"index", "config", "cfg"}
        /\ Respond(c, r, Page("config")) /\ UNCHANGED g_webAPDisconResetFactory
  /\ UNCHANGED <<index_page_ckd, is_frist_config_page, is_disconnect_cb_restart>>

favicon_ico(c, r, u) ==
  /\ u[1] = "favicon"
  /\ conn' = [conn EXCEPT ![c] = End(r)]
  /\ UNCHANGED <<sendDataList, flags>>

(* The response is made, and not sent.                                     *)
NoFound(c, r, u) ==
  /\ u[1] = "missing" \/ (jsonErr /\ u[1] \in {"save", "isdev", "save-sta"})
  /\ sendDataList' = Response(NotFound)
  /\ conn' = [conn EXCEPT ![c] = r]
  /\ UNCHANGED flags

(* web_recv_cb, for the segment seg on c; r is c with what history notes.  *)
web_recv_cb(c, seg, r) ==
  LET f == httpServReslovURL(seg)
  IN  /\ cacheBuf' = f.buf /\ cacheLen' = f.len
      /\ \/ /\ f.urls = {}
            /\ conn' = [conn EXCEPT ![c] = r]
            /\ UNCHANGED <<sendDataList, flags>>
         \/ \E u \in f.urls :
              \/ /\ ~jsonErr
                 /\ \/ index_htm(c, r, u) \/ save_htm(c, r, u) \/ config_htm(c, r, u)
                    \/ json(c, r, u)
              \/ jsonErr /\ jsonErr_htm(c, r, u)
              \/ favicon_ico(c, r, u) \/ NoFound(c, r, u)
      /\ UNCHANGED <<web_pEspConn, armed, jsonErr>>

(* A browser sends a request, which may come in two segments.              *)
Ask(c) ==
  /\ Open(c) /\ ~conn[c].asked
  /\ \E q \in Requests, n \in 1..3 :
       LET r == [conn[c] EXCEPT !.asked = TRUE, !.rest = SubSeq(Text(q), n + 1, 3)]
       IN  /\ n = 3 \/ <<q, n>> \in Cuts
           /\ web_recv_cb(c, SubSeq(Text(q), 1, n),
                          IF r.own /\ n = 3 /\ cacheLen = 0 THEN [r EXCEPT !.want = q] ELSE NotOwn(r))

AskRest(c) ==
  /\ Open(c) /\ conn[c].rest # <<>>
  /\ web_recv_cb(c, conn[c].rest, [conn[c] EXCEPT !.rest = <<>>])

-----------------------------------------------------------------------------
(* web_send_cb, with httpServCurrentResumeData, which returns nothing at   *)
(* all when the list is empty: the caller finds NULL or something else.    *)
web_send_cb(c) ==
  LET r    == [conn[c] EXCEPT !.busy = FALSE]
      next == IF sendDataList = <<>> THEN <<>> ELSE Tail(sendDataList)
  IN  /\ Open(c) /\ conn[c].busy
      /\ sendDataList' = next
      /\ \/ /\ next # <<>>
            /\ conn' = [conn EXCEPT ![c] = Send(r, Head(next))]
         \/ /\ next = <<>>
            /\ conn' = [conn EXCEPT ![c] = End(r)]
         \/ /\ sendDataList = <<>>
            /\ conn' = [conn EXCEPT ![c] = Send(r, Garbage)]
      /\ UNCHANGED <<web_pEspConn, cache, flags, armed, jsonErr>>

(* Faulty: the device restarts only when all has been sent.                *)
web_discon_cbSent(c) ==
  /\ conn[c].st = "closing"
  /\ conn' = [conn EXCEPT ![c] = Closed]
  /\ armed' = IF is_disconnect_cb_restart /\ sendDataList = <<>> THEN RestartTicks ELSE armed
  /\ g_webAPDisconResetFactory' = FALSE
  /\ web_pEspConn' = NoConn
  /\ UNCHANGED <<cache, sendDataList, index_page_ckd, is_frist_config_page,
                 is_disconnect_cb_restart, jsonErr>>

(* web_discon_cb, for whichever connection it comes.  trRestart disarms the*)
(* timer and arms it anew each time.                                       *)
web_discon_cb(c) ==
  /\ conn[c].st = "closing"
  /\ conn' = [conn EXCEPT ![c] = Closed]
  /\ armed' = IF is_disconnect_cb_restart THEN RestartTicks ELSE armed
  /\ g_webAPDisconResetFactory' = FALSE
  /\ web_pEspConn' = NoConn
  /\ UNCHANGED <<cache, sendDataList, index_page_ckd, is_frist_config_page,
                 is_disconnect_cb_restart, jsonErr>>

(* web_recon_cb does nothing: only the connection is gone.                 *)
web_recon_cb(c) ==
  /\ conn[c].st # "none"
  /\ conn' = [conn EXCEPT ![c] = Closed]
  /\ UNCHANGED <<web_pEspConn, cache, sendDataList, flags, armed, jsonErr>>

(* The SDK ends a connection on which nothing happens.                     *)
Timeout(c) ==
  /\ Open(c) /\ ~conn[c].busy
  /\ conn' = [conn EXCEPT ![c] = [Closed EXCEPT !.st = "closing"]]
  /\ UNCHANGED <<web_pEspConn, cache, sendDataList, flags, armed, jsonErr>>

(* A tick of the timer; with the last one trRestartHandler, and the next   *)
(* time that pages are served, these or those of JsonErrAP.c.              *)
trRestartHandler ==
  \/ /\ armed > 1
     /\ armed' = armed - 1
     /\ UNCHANGED <<conn, web_pEspConn, cache, sendDataList, flags, jsonErr>>
  \/ /\ armed = 1
     /\ conn' = [c \in Conns |-> Closed] /\ web_pEspConn' = NoConn
     /\ cacheBuf' = <<>> /\ cacheLen' = 0 /\ sendDataList' = <<>>
     /\ index_page_ckd' = 0 /\ is_frist_config_page' = TRUE
     /\ is_disconnect_cb_restart' = FALSE /\ g_webAPDisconResetFactory' = FALSE
     /\ armed' = 0 /\ jsonErr' \in BOOLEAN

Next ==
  \/ \E c \in Conns : web_listen(c)
  \/ \E c \in Conns : Ask(c)
  \/ \E c \in Conns : AskRest(c)
  \/ \E c \in Conns : web_send_cb(c)
  \/ \E c \in Conns : web_discon_cb(c)
  \/ \E c \in Conns : web_recon_cb(c)
  \/ \E c \in Conns : Timeout(c)
  \/ trRestartHandler

(* Browsers come again and again, sent chunks are acknowledged, idle       *)
(* connections end, timers fire, and of the connections that are being     *)
(* closed not every one breaks first.                                      *)
Fairness ==
  /\ WF_vars(\E c \in Conns : web_listen(c))
  /\ \A c \in Conns : WF_vars(web_send_cb(c)) /\ WF_vars(Timeout(c))
  /\ SF_vars(\E c \in Conns : web_discon_cb(c))
  /\ WF_vars(trRestartHandler)

Spec == Init /\ [][Next]_vars /\ Fairness

-----------------------------------------------------------------------------
TypeOK ==
  /\ DOMAIN conn = Conns
  /\ \A c \in Conns :
       /\ conn[c].st \in {"none", "open", "closing"}
       /\ conn[c].want \in Requests \cup {NoRequest} /\ Len(conn[c].rest) < 3
       /\ conn[c].busy => Open(c)
  /\ web_pEspConn \in Conns \cup {NoConn}
  /\ Len(cacheBuf) < CacheSize /\ cacheLen \in 0..Len(cacheBuf)
  /\ index_page_ckd \in Ckds \cup {0}
  /\ armed \in 0..RestartTicks
  /\ {is_frist_config_page, is_disconnect_cb_restart, g_webAPDisconResetFactory,
      jsonErr} \subseteq BOOLEAN

(* What a browser may get to read.                                         *)
Answers(q) ==
  CASE q[1] = "config"                              -> {Page("config")}
    [] q[1] = "cfg"                                 -> {Page("config"), Jump}
    [] q[1] = "index"                               -> {Page(IF jsonErr THEN "config" ELSE "index")}
    [] ~jsonErr /\ q[1] = "save"                    -> {Page("save"), Short("refused"), Jump}
    [] ~jsonErr /\ q[1] \in {"isdev", "save-sta"}   -> {Short(q[1])}
    [] OTHER                                        -> {<<>>}

(* A connection that is the only one open gets an answer to its own request*)
(* and nothing else, and all of it if the server ends the connection;      *)
(* whatever earlier connections have left in the list of chunks (broken in *)
(* the midst of a page, "not found", which is never sent) and in the cache.*)
AnswersItsOwn ==
  \A c \in Conns :
    conn[c].own /\ (conn[c].sent # <<>> \/ conn[c].ended) =>
      \E a \in Answers(conn[c].want) :
        IsPrefix(conn[c].sent, a) /\ (conn[c].ended => conn[c].sent = a)

(* The pages can be reached again: a connection that ends in an error stays*)
(* in web_pEspConn, but not for good.                                      *)
NotLockedOut == []<>(web_pEspConn = NoConn)

(* A connection ends, and the restart that was due is put off.             *)
Postpone == armed > 0 /\ is_disconnect_cb_restart /\ \E c \in Conns : web_discon_cb(c)

(* The restart that makes saved settings effective comes, though the       *)
(* connection they were saved on may end in an error.  Every connection    *)
(* that ends begins the second before it anew, refused ones too: it comes  *)
(* once they no longer end within a second of each other.                  *)
SavedTakesEffect ==
  <>[][~Postpone]_vars => (is_disconnect_cb_restart ~> ~is_disconnect_cb_restart)
=============================================================================
