----------------------------- MODULE QueueRules -----------------------------
(***************************************************************************)
(* How the outbound queue of the MQTT client changes (app/mqtt/queue.c as  *)
(* its callers in mqtt.c use it), told of whole messages: how many of them *)
(* fit depends on their lengths, so it is left open how many are dropped to*)
(* make room, never which.                                                 *)
(***************************************************************************)
EXTENDS Naturals, Sequences

CONSTANTS Messages,     \* the messages that can be queued
          Capacity      \* at most so many of them fit at once

(* q without its k oldest messages.                                        *)
Without(q, k) == SubSeq(q, k + 1, Len(q))

(* MQTT_Publish, MQTT_Subscribe: drop the oldest messages until m fits.  If*)
(* m does not fit in the empty queue either, everything is lost.           *)
PutDroppingOldest(q, m) ==
  {Append(Without(q, k), m) : k \in {j \in 0..Len(q) : Len(q) - j < Capacity}} \cup {<<>>}

(* The receive handler's answers: nothing is dropped, the answer is lost   *)
(* if it does not fit.                                                     *)
PutIfRoom(q, m) == {q} \cup {s \in {Append(q, m)} : Len(s) <= Capacity}
=============================================================================
