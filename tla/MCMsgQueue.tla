----------------------------- MODULE MCMsgQueue -----------------------------
EXTENDS MsgQueue

(* Frames of 3, 5 and 7 bytes: a plain message, one with an escaped byte   *)
(* and a byte that looks like an escaped one, and one with the other two.  *)
SomeMessages == {<<65>>, <<127, 94>>, <<125, 48, 126>>}
=============================================================================
