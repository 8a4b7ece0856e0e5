------------------------------- MODULE RingBuf -------------------------------
(***************************************************************************)
(* The byte ring of app/mqtt/ringbuf.c: RINGBUF_Put and RINGBUF_Get on a   *)
(* buffer with a read pointer, a write pointer and a count of the filled   *)
(* slots.  The pointers are offsets from p_o.                              *)
(***************************************************************************)
EXTENDS Integers, Sequences

CONSTANTS Bytes, Size

(* RINGBUF_Init refuses a size below 2; the buffer comes from os_zalloc.   *)
ASSUME SizeAssumption == Size \in Nat /\ Size >= 2
ASSUME BytesAssumption == 0 \in Bytes

VARIABLES buf, p_r, p_w, fill_cnt,
          ret,     \* the result of the last operation
          got      \* the caller's variable that RINGBUF_Get fills

vars == <<buf, p_r, p_w, fill_cnt, ret, got>>

Slots == 0..(Size - 1)

TypeOK ==
  /\ buf \in [Slots -> Bytes]
  /\ p_r \in Slots /\ p_w \in Slots
  /\ fill_cnt \in 0..Size
  /\ ret \in {0, -1}
  /\ got \in Bytes

Init ==
  /\ buf = [i \in Slots |-> 0]
  /\ p_r = 0 /\ p_w = 0 /\ fill_cnt = 0
  /\ ret = 0 /\ got \in Bytes

(* The pointer after p, back at p_o past the end of the buffer.            *)
Advance(p) == IF p + 1 >= Size THEN 0 ELSE p + 1

(* Faulty: the write pointer turns back one slot too late.                 *)
PutLateWrap(c) ==
  IF fill_cnt >= Size
  THEN ret' = -1 /\ UNCHANGED <<buf, p_r, p_w, fill_cnt, got>>
  ELSE /\ fill_cnt' = fill_cnt + 1
       /\ buf' = [buf EXCEPT ![p_w] = c]
       /\ p_w' = IF p_w + 1 > Size THEN 0 ELSE p_w + 1
       /\ ret' = 0
       /\ UNCHANGED <<p_r, got>>

Put(c) ==
  IF fill_cnt >= Size
  THEN ret' = -1 /\ UNCHANGED <<buf, p_r, p_w, fill_cnt, got>>
  ELSE /\ fill_cnt' = fill_cnt + 1
       /\ buf' = [buf EXCEPT ![p_w] = c]
       /\ p_w' = Advance(p_w)
       /\ ret' = 0
       /\ UNCHANGED <<p_r, got>>

(* Faulty: the read pointer moves before the byte is read.                 *)
GetPreIncrement ==
  IF fill_cnt <= 0
  THEN ret' = -1 /\ UNCHANGED <<buf, p_r, p_w, fill_cnt, got>>
  ELSE /\ fill_cnt' = fill_cnt - 1
       /\ p_r' = Advance(p_r)
       /\ got' = buf[p_r']
       /\ ret' = 0
       /\ UNCHANGED <<buf, p_w>>

Get ==
  IF fill_cnt <= 0
  THEN ret' = -1 /\ UNCHANGED <<buf, p_r, p_w, fill_cnt, got>>
  ELSE /\ fill_cnt' = fill_cnt - 1
       /\ got' = buf[p_r]
       /\ p_r' = Advance(p_r)
       /\ ret' = 0
       /\ UNCHANGED <<buf, p_w>>

Next == Get \/ \E c \in Bytes : Put(c)

Spec == Init /\ [][Next]_vars

-----------------------------------------------------------------------------
(* The slot i steps after the read pointer.                                *)
Slot(i) == IF p_r + i < Size THEN p_r + i ELSE p_r + i - Size

(* What the ring holds, oldest byte first.                                 *)
Content == [i \in 1..fill_cnt |-> buf[Slot(i - 1)]]

Fifo == INSTANCE ByteFifo WITH content <- Content

(* The ring is a queue of Size bytes: it loses, repeats and reorders none, *)
(* wherever the two pointers have wrapped, it accepts a byte exactly while *)
(* there is room, and gives one back exactly while it holds one.           *)
IsFifo == Fifo!Spec
=============================================================================
