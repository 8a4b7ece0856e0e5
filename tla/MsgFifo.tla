------------------------------- MODULE MsgFifo -------------------------------
(***************************************************************************)
(* What the outbound queue of the MQTT client promises to MQTT_Task: a     *)
(* first-in first-out queue of whole messages.  A message leaves it because*)
(* it is sent, or because it is among the oldest when a new one needs room.*)
(***************************************************************************)
EXTENDS QueueRules

VARIABLES fifo,     \* the messages in the queue, oldest first
          taken     \* the message MQTT_Task has taken last

Init == fifo = <<>> /\ taken = <<>>

(* MQTT_Publish, MQTT_Subscribe                                            *)
Enqueue(m) == fifo' \in PutDroppingOldest(fifo, m) /\ UNCHANGED taken

(* mqtt_tcpclient_recv                                                     *)
Answer(m) == fifo' \in PutIfRoom(fifo, m) /\ UNCHANGED taken

(* MQTT_Task                                                               *)
Dequeue == fifo # <<>> /\ fifo' = Tail(fifo) /\ taken' = Head(fifo)

Next == \/ \E m \in Messages : Enqueue(m) \/ Answer(m)
        \/ Dequeue

Spec == Init /\ [][Next]_<<fifo, taken>>
=============================================================================
