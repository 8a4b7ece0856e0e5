--------------------------- MODULE RingBuf_proofs ---------------------------
(***************************************************************************)
(* The ring of ringbuf.c is a bounded queue of bytes, for every size.      *)
(***************************************************************************)
EXTENDS RingBuf, SequenceTheorems, TLAPS

(* The strengthening: neither RINGBUF_Put nor RINGBUF_Get looks at the     *)
(* other's pointer, so that they never run over each other rests on the    *)
(* distance between the pointers being the count.                          *)
PointersAgree == p_w = Slot(fill_cnt)

IInv == TypeOK /\ PointersAgree

LEMMA InitIInv == Init => IInv
BY SizeAssumption, BytesAssumption
   DEF Init, IInv, TypeOK, PointersAgree, Slots, Slot

LEMMA PutIInv ==
  ASSUME IInv, NEW c \in Bytes, Put(c)
  PROVE  IInv'
<1> USE SizeAssumption DEF IInv, TypeOK, PointersAgree, Slots, Slot, Put, Advance
<1>1. CASE fill_cnt >= Size
  BY <1>1
<1>2. CASE fill_cnt < Size
  <2>1. buf' \in [Slots -> Bytes]
    BY <1>2
  <2>2. p_w' \in Slots /\ p_r' = p_r /\ fill_cnt' = fill_cnt + 1
    BY <1>2
  <2>3. p_w' = Slot(fill_cnt)'
    BY <1>2
  <2> QED
    BY <1>2, <2>1, <2>2, <2>3
<1> QED
  BY <1>1, <1>2

LEMMA GetIInv == IInv /\ Get => IInv'
BY SizeAssumption DEF IInv, TypeOK, PointersAgree, Slots, Slot, Get, Advance

LEMMA StepIInv == IInv /\ [Next]_vars => IInv'
<1> SUFFICES ASSUME IInv, [Next]_vars PROVE IInv'
  OBVIOUS
<1>1. CASE UNCHANGED vars
  BY <1>1 DEF vars, IInv, TypeOK, PointersAgree, Slot
<1> QED
  BY <1>1, PutIInv, GetIInv DEF Next

(* The pointers stay inside the buffer, and the count never leaves 0..Size.*)
THEOREM TypeCorrect == Spec => []TypeOK
<1>1. IInv => TypeOK
  BY DEF IInv
<1> QED
  BY <1>1, InitIInv, StepIInv, PTL DEF Spec

(* The write pointer is always fill_cnt slots ahead of the read pointer.   *)
THEOREM DistanceIsCount == Spec => []PointersAgree
<1>1. IInv => PointersAgree
  BY DEF IInv
<1> QED
  BY <1>1, InitIInv, StepIInv, PTL DEF Spec

-----------------------------------------------------------------------------
(* The refinement, one operation at a time.                                *)

LEMMA SlotRange ==
  ASSUME TypeOK, NEW i \in 0..(Size - 1)
  PROVE  Slot(i) \in Slots
BY SizeAssumption DEF TypeOK, Slot, Slots

LEMMA ContentType == TypeOK => Content \in Seq(Bytes) /\ Len(Content) = fill_cnt
<1> SUFFICES ASSUME TypeOK PROVE Content \in Seq(Bytes) /\ Len(Content) = fill_cnt
  OBVIOUS
<1>1. fill_cnt \in Nat
  BY SizeAssumption DEF TypeOK
<1>2. \A i \in 1..fill_cnt : buf[Slot(i - 1)] \in Bytes
  <2> TAKE i \in 1..fill_cnt
  <2>1. i - 1 \in 0..(Size - 1)
    BY SizeAssumption DEF TypeOK
  <2> QED
    BY <2>1, SlotRange DEF TypeOK
<1> QED
  BY <1>1, <1>2 DEF Content

LEMMA ContentTypeNext == TypeOK' => (Content \in Seq(Bytes) /\ Len(Content) = fill_cnt)'
BY ContentType, PTL

LEMMA PutImplements ==
  ASSUME IInv, NEW c \in Bytes, Put(c)
  PROVE  Fifo!Put(c)
<1>1. Content \in Seq(Bytes) /\ Len(Content) = fill_cnt /\ fill_cnt \in 0..Size
  BY ContentType DEF IInv, TypeOK
<1>2. CASE fill_cnt >= Size
  <2>1. ret' = -1 /\ UNCHANGED <<buf, p_r, fill_cnt, got>>
    BY <1>2 DEF Put
  <2>2. Content' = Content
    BY <2>1 DEF Content, Slot
  <2>3. Len(Content) = Size
    BY <1>1, <1>2, SizeAssumption
  <2> QED
    BY <2>1, <2>2, <2>3 DEF Fifo!Put
<1>3. CASE fill_cnt < Size
  <2>1. /\ ret' = 0 /\ UNCHANGED <<p_r, got>>
        /\ fill_cnt' = fill_cnt + 1 /\ buf' = [buf EXCEPT ![p_w] = c]
    BY <1>1, <1>3, SizeAssumption DEF Put
  <2>2. Content' = [i \in 1..(fill_cnt + 1) |-> buf'[Slot(i - 1)]]
    BY <2>1 DEF Content, Slot
  <2>3. \A i \in 1..fill_cnt : buf'[Slot(i - 1)] = buf[Slot(i - 1)]
    <3> TAKE i \in 1..fill_cnt
    <3>1. Slot(i - 1) # p_w /\ Slot(i - 1) \in Slots
      BY <1>1, <1>3, SizeAssumption DEF IInv, TypeOK, PointersAgree, Slot, Slots
    <3> QED
      BY <2>1, <3>1 DEF IInv, TypeOK
  <2>4. buf'[Slot(fill_cnt)] = c
    BY <2>1 DEF IInv, TypeOK, PointersAgree
  <2>5. Content' = Append(Content, c)
    <3> DEFINE a == Append(Content, c)
    <3>1. /\ a \in Seq(Bytes) /\ Len(a) = fill_cnt + 1 /\ a[fill_cnt + 1] = c
          /\ \A i \in 1..fill_cnt : a[i] = Content[i]
      BY <1>1, AppendProperties
    <3>2. Content' \in Seq(Bytes) /\ Len(Content') = fill_cnt + 1
      BY <2>1, PutIInv, ContentTypeNext DEF IInv
    <3> HIDE DEF a
    <3>3. \A i \in 1..(fill_cnt + 1) : Content'[i] = a[i]
      <4> TAKE i \in 1..(fill_cnt + 1)
      <4>1. CASE i = fill_cnt + 1
        BY <1>1, <2>2, <2>4, <3>1, <4>1
      <4>2. CASE i \in 1..fill_cnt
        <5>1. Content'[i] = buf[Slot(i - 1)]
          BY <2>2, <2>3, <4>2
        <5> QED
          BY <3>1, <4>2, <5>1 DEF Content
      <4> QED
        BY <1>1, <4>1, <4>2, SizeAssumption
    <3>4. Content' = a
      BY <3>1, <3>2, <3>3, SeqEqual
    <3> QED
      BY <3>4 DEF a
  <2> QED
    BY <1>1, <1>3, <2>1, <2>5 DEF Fifo!Put
<1> QED
  BY <1>1, <1>2, <1>3, SizeAssumption

LEMMA GetImplements == IInv /\ Get => Fifo!Get
<1> SUFFICES ASSUME IInv, Get PROVE Fifo!Get
  OBVIOUS
<1>1. Content \in Seq(Bytes) /\ Len(Content) = fill_cnt /\ fill_cnt \in 0..Size
  BY ContentType DEF IInv, TypeOK
<1>2. CASE fill_cnt = 0
  <2>1. ret' = -1 /\ UNCHANGED <<buf, p_r, fill_cnt, got>>
    BY <1>2 DEF Get
  <2>2. Content' = Content
    BY <2>1 DEF Content, Slot
  <2>3. Content = <<>>
    BY <1>1, <1>2
  <2> QED
    BY <2>1, <2>2, <2>3 DEF Fifo!Get
<1>3. CASE fill_cnt > 0
  <2>1. /\ ret' = 0 /\ got' = buf[p_r] /\ p_r' = Advance(p_r)
        /\ fill_cnt' = fill_cnt - 1 /\ buf' = buf
    BY <1>1, <1>3, SizeAssumption DEF Get
  <2>2. Content # <<>> /\ Head(Content) = buf[p_r]
    BY <1>1, <1>3, SizeAssumption DEF Content, Slot, IInv, TypeOK, Slots
  <2>3. \A i \in 1..(fill_cnt - 1) : Slot(i - 1)' = Slot(i)
    BY <1>1, <2>1, SizeAssumption DEF Slot, Advance, IInv, TypeOK, Slots
  <2>4. Content' = Tail(Content)
    <3> DEFINE t == Tail(Content)
    <3>1. /\ t \in Seq(Bytes) /\ Len(t) = fill_cnt - 1
          /\ \A i \in 1..(fill_cnt - 1) : t[i] = Content[i + 1]
      BY <1>1, <2>2, HeadTailProperties
    <3>2. Content' \in Seq(Bytes) /\ Len(Content') = fill_cnt - 1
      BY <2>1, GetIInv, ContentTypeNext DEF IInv
    <3> HIDE DEF t
    <3>3. \A i \in 1..(fill_cnt - 1) : Content'[i] = t[i]
      <4> TAKE i \in 1..(fill_cnt - 1)
      <4>1. Content'[i] = buf[Slot(i - 1)']
        BY <2>1 DEF Content
      <4>2. Content[i + 1] = buf[Slot(i)]
        BY <1>1, SizeAssumption DEF Content
      <4> QED
        BY <2>3, <3>1, <4>1, <4>2
    <3>4. Content' = t
      BY <3>1, <3>2, <3>3, SeqEqual
    <3> QED
      BY <3>4 DEF t
  <2> QED
    BY <2>1, <2>2, <2>4 DEF Fifo!Get
<1> QED
  BY <1>1, <1>2, <1>3, SizeAssumption

(* The ring implements the bounded queue of bytes, its return codes and the*)
(* byte it hands out included.                                             *)
THEOREM RingImplementsFifo == Spec => IsFifo
<1>1. Init => Fifo!Init
  <2> SUFFICES ASSUME Init PROVE Fifo!Init
    OBVIOUS
  <2>1. Content = <<>>
    <3>1. TypeOK
      BY InitIInv DEF IInv
    <3> QED
      BY <3>1, ContentType DEF Init
  <2> QED
    BY <2>1 DEF Init, Fifo!Init
<1>2. IInv /\ [Next]_vars => [Fifo!Next]_<<Content, ret, got>>
  <2> SUFFICES ASSUME IInv, [Next]_vars PROVE [Fifo!Next]_<<Content, ret, got>>
    OBVIOUS
  <2>1. CASE UNCHANGED vars
    BY <2>1 DEF vars, Content, Slot
  <2>2. CASE Get
    BY <2>2, GetImplements DEF Fifo!Next
  <2>3. ASSUME NEW c \in Bytes, Put(c) PROVE [Fifo!Next]_<<Content, ret, got>>
    BY <2>3, PutImplements DEF Fifo!Next
  <2> QED
    BY <2>1, <2>2, <2>3 DEF Next
<1> QED
  BY <1>1, <1>2, InitIInv, StepIInv, PTL DEF Spec, IsFifo, Fifo!Spec
=============================================================================
