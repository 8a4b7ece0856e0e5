---------------------------- MODULE MCCommands ----------------------------
(* An instance of Commands: segments of one to five packets.  The reply to *)
(* a search has a remaining length of 128, the first that takes two bytes, *)
(* and the longest segment does not fit into the buffer.                   *)
EXTENDS Commands

Command(flag, parm) ==
  [kind |-> "command", flag |-> flag, parm |-> parm, crc |-> TRUE, lower |-> FALSE,
   qos |-> 0, id |-> 0]

On     == Command(Kg(49), <<1>>)
Off    == [Command(Kg(49), <<0>>) EXCEPT !.lower = TRUE]
One    == [Command(Kg(50), <<0, 1>>) EXCEPT !.crc = FALSE]
Other  == [Command(Kg(50), <<1, 0>>) EXCEPT !.qos = 1, !.id = 256]
Pulse  == [Command(Tk(49), <<232, 3, 0, 0>>) EXCEPT !.qos = 2, !.id = 65535]
Pulse2 == Command(Tk(50), <<0, 232, 3, 0, 0>>)
Ask    == Command(Tk(48), <<>>)
Ask2   == Command(Kg(48), <<>>)

Search == [kind |-> "search"]
Text(t) == [kind |-> "text", text |-> t]
Ping(type) == [kind |-> "ping", type |-> type]
PubRel == [kind |-> "ack", type |-> PUBREL, id |-> 258]

SomeSegments ==
  {<<Other>>, <<Text(<<>>)>>, <<Text(SearchText)>>, <<Pulse>>, <<On, Ask>>, <<Search, One>>,
   <<Ping(PINGRESP), Off>>, <<Pulse2, Ping(PINGREQ), Off>>, <<Off, Ask2, PubRel, On>>,
   <<On, Pulse, One, Other>>, <<On, Pulse, One, Other, Pulse2>>}

Topic == <<107>>
Reply == [i \in 1..121 |-> 65]
=============================================================================
