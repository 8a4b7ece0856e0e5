------------------------------ MODULE ByteFifo ------------------------------
(***************************************************************************)
(* What the byte ring of the MQTT client promises (app/mqtt/ringbuf.c): a  *)
(* first-in first-out queue of at most Size bytes whose operations report  *)
(* whether they could be carried out.                                      *)
(***************************************************************************)
EXTENDS Integers, Sequences

CONSTANTS Bytes,   \* the values of a U8, or the few of them that matter
          Size     \* the size given to RINGBUF_Init

VARIABLES content, ret, got

Init == content = <<>> /\ ret = 0 /\ got \in Bytes

Put(c) == /\ \/ Len(content) < Size /\ content' = Append(content, c) /\ ret' = 0
             \/ Len(content) = Size /\ ret' = -1 /\ UNCHANGED content
          /\ UNCHANGED got

Get == \/ /\ content # <<>>
          /\ got' = Head(content) /\ content' = Tail(content) /\ ret' = 0
       \/ /\ content = <<>>
          /\ ret' = -1 /\ UNCHANGED <<content, got>>

Next == Get \/ \E c \in Bytes : Put(c)

Spec == Init /\ [][Next]_<<content, ret, got>>
=============================================================================
