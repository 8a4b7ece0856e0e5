-------------------------- MODULE MsgQueue_proofs --------------------------
(***************************************************************************)
(* The queue of framed messages, for every set of messages and every size: *)
(* the ring is always sound (Inv), and its whole messages are the queue of *)
(* MsgFifo.  What is recursive here is defined over the bytes of a message *)
(* or of the ring, and the proofs go along them.                           *)
(***************************************************************************)
EXTENDS MsgQueue, RecursionLemmas

-----------------------------------------------------------------------------
(* The frames.                                                             *)
Byte == 0..255

(* A byte is escaped by one or two bytes, neither of them a mark.          *)
LEMMA EscapedBytes ==
  ASSUME NEW b \in Byte
  PROVE  /\ Escaped(b) \in Seq(Byte)
         /\ Len(Escaped(b)) \in 1..2
         /\ \A i \in 1..Len(Escaped(b)) : Escaped(b)[i] \notin {Begin, End}
<1>1. CASE b \in {Escape, Begin, End}
  <2>1. Escaped(b) = <<125, Flip(b)>>
    BY <1>1 DEF Escaped, Escape
  <2>2. Flip(b) \in 93..95
    BY <1>1 DEF Flip, Escape, Begin, End
  <2> QED
    BY <2>1, <2>2 DEF Byte, Begin, End
<1>2. CASE b \notin {Escape, Begin, End}
  <2>1. Escaped(b) = <<b>>
    BY <1>2 DEF Escaped
  <2> QED
    BY <1>2, <2>1
<1> QED
  BY <1>1, <1>2

(* What the messages are, in the terms of the lemmas below.                *)
LEMMA MessageBytes ==
  ASSUME NEW m \in Messages
  PROVE  /\ m \in Seq(Byte) /\ Len(m) \in Nat \ {0} /\ Len(m) <= BufSize
         /\ \A n \in 1..Len(m) : m[n] \in Byte
<1>1. m \in Seq(Byte) /\ Len(m) \in 1..BufSize
  BY MessagesAssumption DEF Byte
<1>2. Len(m) \in Nat \ {0} /\ Len(m) <= BufSize
  BY <1>1, SizesAssumption
<1> QED
  BY <1>1, <1>2, ElementOfSeq

(* The recursive definition of FrameTo, step by step.                      *)
LEMMA FrameToStep ==
  ASSUME NEW m \in Messages
  PROVE  /\ FrameTo(m) \in [0..Len(m) -> Seq(Byte)]
         /\ FrameTo(m)[0] = <<Begin>>
         /\ \A n \in 0..Len(m)-1 : FrameTo(m)[n + 1] = FrameTo(m)[n] \o Escaped(m[n + 1])
<1> DEFINE step == [p \in Seq(Byte) \X (1..Len(m)) |-> p[1] \o Escaped(m[p[2]])]
<1>1. Len(m) \in Nat /\ \A n \in 1..Len(m) : m[n] \in Byte
  BY MessageBytes
<1>2. step \in [Seq(Byte) \X (1..Len(m)) -> Seq(Byte)]
  BY <1>1, EscapedBytes, ConcatProperties
<1>3. <<Begin>> \in Seq(Byte)
  BY DEF Begin, Byte
<1>4. PICK f \in [0..Len(m) -> Seq(Byte)] : Recursive(f, Len(m), <<Begin>>, step)
  <2> HIDE DEF step
  <2> QED
    BY <1>1, <1>2, <1>3, RecursionExists
<1>5. f = [n \in 0..Len(m) |-> IF n = 0 THEN <<Begin>> ELSE f[n - 1] \o Escaped(m[n])]
  <2>1. ASSUME NEW n \in 1..Len(m)
        PROVE  f[n] = f[n - 1] \o Escaped(m[n])
    <3>1. n - 1 \in 0..Len(m) /\ f[n - 1] \in Seq(Byte)
      BY <1>1
    <3>2. f[n] = step[<<f[n - 1], n>>]
      BY <1>4 DEF Recursive
    <3> QED
      BY <3>1, <3>2
  <2> QED
    BY <1>1, <1>4, <2>1 DEF Recursive
<1>6. FrameTo(m) = [n \in 0..Len(m) |->
                      IF n = 0 THEN <<Begin>> ELSE FrameTo(m)[n - 1] \o Escaped(m[n])]
  BY <1>5 DEF FrameTo
<1> HIDE DEF step
<1>7. FrameTo(m)[0] = <<Begin>> /\ DOMAIN FrameTo(m) = 0..Len(m)
  BY <1>1, <1>6
<1>8. ASSUME NEW n \in 0..Len(m)-1
      PROVE  FrameTo(m)[n + 1] = FrameTo(m)[n] \o Escaped(m[n + 1])
  <2>1. n + 1 \in 0..Len(m) /\ n + 1 # 0 /\ (n + 1) - 1 = n
    BY <1>1
  <2> QED
    BY <1>6, <2>1, Zenon
<1> DEFINE X == {n \in 0..Len(m) : FrameTo(m)[n] \in Seq(Byte)}
<1>9. 0 \in X
  BY <1>1, <1>3, <1>7
<1>10. ASSUME NEW k \in 0..Len(m)-1, k \in X
       PROVE  k + 1 \in X
  <2>1. k + 1 \in 1..Len(m)
    BY <1>1
  <2>2. Escaped(m[k + 1]) \in Seq(Byte)
    BY <1>1, <2>1, EscapedBytes
  <2>3. FrameTo(m)[k + 1] = FrameTo(m)[k] \o Escaped(m[k + 1])
    BY <1>8
  <2>4. FrameTo(m)[k + 1] \in Seq(Byte)
    BY <1>10, <2>2, <2>3
  <2> QED
    BY <2>1, <2>4
<1> HIDE DEF X
<1>11. \A n \in 0..Len(m) : n \in X
  BY <1>1, <1>9, <1>10, Induction
<1>12. FrameTo(m) \in [0..Len(m) -> Seq(Byte)]
  BY <1>6, <1>11 DEF X
<1> QED
  BY <1>7, <1>8, <1>12

(* Before its End a frame has Begin first and neither mark behind it.      *)
LEMMA FrameToShape ==
  ASSUME NEW m \in Messages, NEW n \in 0..Len(m)
  PROVE  /\ Len(FrameTo(m)[n]) \in Nat /\ Len(FrameTo(m)[n]) > n
         /\ FrameTo(m)[n][1] = Begin
         /\ \A i \in 2..Len(FrameTo(m)[n]) : FrameTo(m)[n][i] \notin {Begin, End}
<1> DEFINE F == FrameTo(m)
           Good(s, k) == /\ Len(s) > k /\ s[1] = Begin
                         /\ \A i \in 2..Len(s) : s[i] \notin {Begin, End}
           X == {k \in 0..Len(m) : Good(F[k], k)}
<1>1. Len(m) \in Nat /\ F \in [0..Len(m) -> Seq(Byte)]
  BY MessageBytes, FrameToStep
<1>2. 0 \in X
  <2>1. F[0] = <<Begin>>
    BY FrameToStep
  <2>2. Good(<<Begin>>, 0)
    OBVIOUS
  <2> QED
    BY <1>1, <2>1, <2>2
<1>3. ASSUME NEW k \in 0..Len(m)-1, k \in X
      PROVE  k + 1 \in X
  <2> DEFINE e == Escaped(m[k + 1])
  <2>1. k + 1 \in 1..Len(m)
    BY <1>1
  <2>2. F[k + 1] = F[k] \o e
    BY FrameToStep
  <2>3. /\ e \in Seq(Byte) /\ Len(e) \in 1..2
        /\ \A i \in 1..Len(e) : e[i] \notin {Begin, End}
    BY <2>1, MessageBytes, EscapedBytes
  <2>4. F[k] \in Seq(Byte) /\ Good(F[k], k)
    BY <1>1, <1>3
  <2> HIDE DEF e, F
  <2>5. Len(F[k]) \in Nat /\ Len(F[k] \o e) = Len(F[k]) + Len(e)
    BY <2>3, <2>4
  <2>6. \A i \in 1..Len(F[k]) + Len(e) :
          (F[k] \o e)[i] = IF i <= Len(F[k]) THEN F[k][i] ELSE e[i - Len(F[k])]
    BY <2>3, <2>4, ConcatProperties
  <2>7. Good(F[k] \o e, k + 1)
    <3>1. ASSUME NEW i \in 2..Len(F[k] \o e)
          PROVE  (F[k] \o e)[i] \notin {Begin, End}
      <4>1. CASE i <= Len(F[k])
        BY <2>4, <2>5, <2>6, <2>3, <4>1
      <4>2. CASE i > Len(F[k])
        <5>1. i - Len(F[k]) \in 1..Len(e) /\ i \in 1..Len(F[k]) + Len(e)
          BY <2>3, <2>5, <4>2
        <5> QED
          BY <2>3, <2>5, <2>6, <4>2, <5>1
      <4> QED
        BY <2>5, <4>1, <4>2
    <3>2. (F[k] \o e)[1] = Begin
      BY <2>3, <2>4, <2>5, <2>6
    <3>3. Len(F[k] \o e) > k + 1
      <4>1. Len(F[k]) > k
        BY <2>4
      <4>2. k \in Nat
        BY <1>1
      <4> QED
        BY <2>3, <2>5, <4>1, <4>2
    <3> QED
      BY <3>1, <3>2, <3>3
  <2>8. k + 1 \in 0..Len(m) /\ Good(F[k + 1], k + 1)
    BY <2>1, <2>2, <2>7
  <2> HIDE DEF Good
  <2> QED
    BY <2>8
<1> HIDE DEF X
<1>4. n \in X
  BY <1>1, <1>2, <1>3, Induction
<1> QED
  BY <1>1, <1>4 DEF X

(* What is put up to a byte stays as it is.                                *)
LEMMA FrameToGrows ==
  ASSUME NEW m \in Messages, NEW k \in 0..Len(m)
  PROVE  /\ Len(FrameTo(m)[k]) <= Len(FrameTo(m)[Len(m)])
         /\ \A i \in 1..Len(FrameTo(m)[k]) : FrameTo(m)[Len(m)][i] = FrameTo(m)[k][i]
<1> DEFINE F == FrameTo(m)
           Extends(t, s) == Len(s) <= Len(t) /\ \A i \in 1..Len(s) : t[i] = s[i]
           X == {n \in 0..Len(m) : n >= k => Extends(F[n], F[k])}
<1>1. Len(m) \in Nat /\ F \in [0..Len(m) -> Seq(Byte)]
  BY MessageBytes, FrameToStep
<1>2. 0 \in X
  BY <1>1
<1>3. ASSUME NEW n \in 0..Len(m)-1, n \in X
      PROVE  n + 1 \in X
  <2> DEFINE e == Escaped(m[n + 1])
  <2>1. n + 1 \in 1..Len(m) /\ n \in 0..Len(m)
    BY <1>1
  <2>2. F[n + 1] = F[n] \o e
    BY FrameToStep
  <2>3. F[n] \in Seq(Byte) /\ F[k] \in Seq(Byte)
    BY <1>1, <2>1
  <2>4. e \in Seq(Byte)
    BY <2>1, MessageBytes, EscapedBytes
  <2> HIDE DEF e, F
  <2>5. CASE n + 1 = k
    BY <2>1, <2>3, <2>5
  <2>6. CASE n >= k
    <3>1. Extends(F[n], F[k])
      BY <1>3, <2>6
    <3>2. Extends(F[n] \o e, F[k])
      BY <2>3, <2>4, <3>1
    <3>3. n + 1 \in 0..Len(m) /\ Extends(F[n + 1], F[k])
      BY <2>1, <2>2, <3>2
    <3> HIDE DEF Extends
    <3> QED
      BY <3>3
  <2> QED
    BY <2>1, <2>5, <2>6
<1> HIDE DEF X, F
<1>4. Len(m) \in 0..Len(m)
  BY <1>1
<1>5. Len(m) \in X
  BY <1>1, <1>2, <1>3, <1>4, Induction
<1> QED
  BY <1>1, <1>4, <1>5 DEF X, F

(* A frame has Begin first and only there, and End last and only there.    *)
LEMMA FrameShape ==
  ASSUME NEW m \in Messages
  PROVE  /\ Frame[m] \in Seq(Byte)
         /\ Len(Frame[m]) = Len(FrameTo(m)[Len(m)]) + 1
         /\ Len(Frame[m]) \in Nat /\ Len(Frame[m]) >= 3
         /\ Frame[m][1] = Begin
         /\ Frame[m][Len(Frame[m])] = End
         /\ \A i \in 2..Len(Frame[m]) : Frame[m][i] # Begin
         /\ \A i \in 1..Len(Frame[m]) - 1 : /\ Frame[m][i] # End
                                           /\ Frame[m][i] = FrameTo(m)[Len(m)][i]
<1> DEFINE s == FrameTo(m)[Len(m)]
<1>1. Len(m) \in Nat \ {0} /\ Len(m) \in 0..Len(m) /\ s \in Seq(Byte)
  <2>1. Len(m) \in Nat \ {0} /\ FrameTo(m) \in [0..Len(m) -> Seq(Byte)]
    BY MessageBytes, FrameToStep
  <2> QED
    BY <2>1
<1>2. /\ Len(s) \in Nat /\ Len(s) > Len(m) /\ s[1] = Begin
      /\ \A i \in 2..Len(s) : s[i] \notin {Begin, End}
  BY <1>1, FrameToShape
<1>3. Frame[m] = Append(s, End)
  BY DEF Frame
<1>4. End \in Byte /\ Begin # End
  BY DEF Byte, Begin, End
<1> HIDE DEF s
<1>5. /\ Frame[m] \in Seq(Byte)
      /\ Len(Frame[m]) = Len(s) + 1
      /\ \A i \in 1..Len(s) : Frame[m][i] = s[i]
      /\ Frame[m][Len(s) + 1] = End
  BY <1>1, <1>3, <1>4, AppendProperties
<1>6. \A i \in 2..Len(Frame[m]) : Frame[m][i] # Begin
  BY <1>2, <1>4, <1>5
<1>7. \A i \in 1..Len(Frame[m]) - 1 : Frame[m][i] # End /\ Frame[m][i] = s[i]
  BY <1>2, <1>4, <1>5
<1> QED
  BY <1>1, <1>2, <1>5, <1>6, <1>7 DEF s

-----------------------------------------------------------------------------
(* The parser.                                                             *)
Parser == [data : Seq(Byte), isEsc : BOOLEAN, isBegin : BOOLEAN]

(* Flipping the bit twice gives the byte back.                             *)
LEMMA FlipByte ==
  /\ \A b \in Byte : Flip(b) \in Byte
  /\ \A b \in {Escape, Begin, End} : Flip(Flip(b)) = b /\ Flip(b) \notin {Escape, Begin, End}
BY DEF Byte, Flip, Escape, Begin, End

(* What the parser makes of a byte, case by case.                          *)
LEMMA ParseByteCases ==
  ASSUME NEW p \in Parser, NEW v
  PROVE  /\ v = Escape =>
              ParseByte(p, v) = [data |-> p.data, isEsc |-> TRUE, isBegin |-> p.isBegin]
         /\ v = Begin =>
              ParseByte(p, v) = [data |-> <<>>, isEsc |-> FALSE, isBegin |-> TRUE]
         /\ v \notin {Escape, Begin} /\ ~p.isBegin => ParseByte(p, v) = p
         /\ v \notin {Escape, Begin} /\ p.isBegin =>
              ParseByte(p, v) =
                [data |-> IF Len(p.data) < BufSize
                          THEN Append(p.data, IF p.isEsc THEN Flip(v) ELSE v) ELSE p.data,
                 isEsc |-> FALSE, isBegin |-> p.isBegin]
<1>1. CASE v = Escape
  <2>1. ParseByte(p, v) = [p EXCEPT !.isEsc = TRUE] /\ v # Begin
    BY <1>1 DEF ParseByte, Escape, Begin
  <2> QED
    BY <1>1, <2>1 DEF Parser
<1>2. CASE v = Begin
  BY <1>2 DEF ParseByte, Begin, Escape
<1>3. CASE v \notin {Escape, Begin}
  <2>1. ParseByte(p, v) =
          IF ~p.isBegin THEN p
          ELSE [p EXCEPT !.isEsc = FALSE,
                         !.data = IF Len(@) < BufSize
                                  THEN Append(@, IF p.isEsc THEN Flip(v) ELSE v) ELSE @]
    BY <1>3 DEF ParseByte
  <2> QED
    BY <1>3, <2>1 DEF Parser
<1> QED
  BY <1>1, <1>2, <1>3

LEMMA ParseByteType ==
  ASSUME NEW p \in Parser, NEW v \in Byte
  PROVE  ParseByte(p, v) \in Parser
<1>1. p.data \in Seq(Byte) /\ p.isBegin \in BOOLEAN /\ Flip(v) \in Byte
  BY FlipByte DEF Parser
<1>2. Append(p.data, v) \in Seq(Byte) /\ Append(p.data, Flip(v)) \in Seq(Byte)
  BY <1>1
<1>3. CASE v = Escape
  <2>1. ParseByte(p, v) = [data |-> p.data, isEsc |-> TRUE, isBegin |-> p.isBegin]
    BY <1>3, ParseByteCases
  <2> QED
    BY <1>1, <2>1 DEF Parser
<1>4. CASE v = Begin
  <2>1. ParseByte(p, v) = [data |-> <<>>, isEsc |-> FALSE, isBegin |-> TRUE]
    BY <1>4, ParseByteCases
  <2> QED
    BY <2>1 DEF Parser
<1>5. CASE v \notin {Escape, Begin} /\ ~p.isBegin
  BY <1>5, ParseByteCases
<1>6. CASE v \notin {Escape, Begin} /\ p.isBegin
  <2> DEFINE d == IF Len(p.data) < BufSize
                  THEN Append(p.data, IF p.isEsc THEN Flip(v) ELSE v) ELSE p.data
  <2>1. ParseByte(p, v) = [data |-> d, isEsc |-> FALSE, isBegin |-> p.isBegin]
    BY <1>6, ParseByteCases
  <2>2. d \in Seq(Byte)
    BY <1>1, <1>2
  <2> HIDE DEF d
  <2> QED
    BY <1>1, <2>1, <2>2 DEF Parser
<1> QED
  BY <1>3, <1>4, <1>5, <1>6

(* The recursive definition of ParserAt, step by step.                     *)
LEMMA ParserAtStep ==
  ASSUME NEW r \in Seq(Byte), NEW begun \in BOOLEAN
  PROVE  /\ ParserAt(r, begun) \in [0..Len(r) -> Parser]
         /\ \A n \in 0..Len(r)-1 :
              ParserAt(r, begun)[n + 1] = ParseByte(ParserAt(r, begun)[n], r[n + 1])
<1> DEFINE p0 == [data |-> <<>>, isEsc |-> FALSE, isBegin |-> begun]
           step == [x \in Parser \X (1..Len(r)) |-> ParseByte(x[1], r[x[2]])]
           P == ParserAt(r, begun)
<1>1. Len(r) \in Nat /\ \A n \in 1..Len(r) : r[n] \in Byte
  OBVIOUS
<1>2. step \in [Parser \X (1..Len(r)) -> Parser]
  BY <1>1, ParseByteType
<1>3. p0 \in Parser
  BY DEF Parser
<1>4. PICK f \in [0..Len(r) -> Parser] : Recursive(f, Len(r), p0, step)
  <2> HIDE DEF step, p0
  <2> QED
    BY <1>1, <1>2, <1>3, RecursionExists
<1>5. f = [n \in 0..Len(r) |-> IF n = 0 THEN p0 ELSE ParseByte(f[n - 1], r[n])]
  <2>1. ASSUME NEW n \in 1..Len(r)
        PROVE  f[n] = ParseByte(f[n - 1], r[n])
    <3>1. n - 1 \in 0..Len(r) /\ f[n - 1] \in Parser
      BY <1>1
    <3>2. f[n] = step[<<f[n - 1], n>>]
      BY <1>4 DEF Recursive
    <3> QED
      BY <3>1, <3>2
  <2> HIDE DEF p0
  <2> QED
    BY <1>1, <1>4, <2>1 DEF Recursive
<1>6. P = [n \in 0..Len(r) |-> IF n = 0 THEN p0 ELSE ParseByte(P[n - 1], r[n])]
  BY <1>5 DEF ParserAt
<1> HIDE DEF step, p0, P
<1>7. P[0] = p0 /\ DOMAIN P = 0..Len(r)
  BY <1>1, <1>6
<1>8. ASSUME NEW n \in 0..Len(r)-1
      PROVE  P[n + 1] = ParseByte(P[n], r[n + 1])
  <2>1. n + 1 \in 0..Len(r) /\ n + 1 # 0 /\ (n + 1) - 1 = n
    BY <1>1
  <2> QED
    BY <1>6, <2>1, Zenon
<1> DEFINE X == {n \in 0..Len(r) : P[n] \in Parser}
<1>9. 0 \in X
  BY <1>1, <1>3, <1>7
<1>10. ASSUME NEW k \in 0..Len(r)-1, k \in X
       PROVE  k + 1 \in X
  <2>1. k + 1 \in 1..Len(r)
    BY <1>1
  <2>2. P[k + 1] \in Parser
    BY <1>1, <1>8, <1>10, <2>1, ParseByteType
  <2> QED
    BY <2>1, <2>2
<1> HIDE DEF X
<1>11. \A n \in 0..Len(r) : n \in X
  BY <1>1, <1>9, <1>10, Induction
<1>12. P \in [0..Len(r) -> Parser]
  BY <1>6, <1>11 DEF X
<1> QED
  BY <1>8, <1>12 DEF P

(* Where a frame ends, byte by byte.                                       *)
LEMMA EndingAtBytes ==
  ASSUME NEW r \in Seq(Byte), NEW e \in 1..Len(r), NEW m \in Messages
  PROVE  m \in EndingAt(r, e) <=>
           /\ Len(Frame[m]) <= e
           /\ \A i \in 1..Len(Frame[m]) : r[e - Len(Frame[m]) + i] = Frame[m][i]
<1> DEFINE n == Len(Frame[m])
           s == SubSeq(r, e - n + 1, e)
<1>1. Frame[m] \in Seq(Byte) /\ n \in Nat /\ n >= 3
  BY FrameShape
<1>2. m \in EndingAt(r, e) <=> n <= e /\ s = Frame[m]
  BY DEF EndingAt
<1>3. ASSUME n <= e
      PROVE  s = Frame[m] <=> \A i \in 1..n : r[e - n + i] = Frame[m][i]
  <2>1. e - n + 1 \in Int /\ e \in Int /\ \A i \in (e - n + 1)..e : r[i] \in Byte
    BY <1>1, <1>3
  <2>2. /\ s \in Seq(Byte)
        /\ Len(s) = IF e - n + 1 <= e THEN e - (e - n + 1) + 1 ELSE 0
        /\ \A i \in 1..e - (e - n + 1) + 1 : s[i] = r[e - n + 1 + i - 1]
    <3> HIDE DEF n
    <3> QED
      BY <2>1, SubSeqProperties
  <2> HIDE DEF s, n
  <2>3. Len(s) = n /\ \A i \in 1..n : s[i] = r[e - n + i]
    BY <1>1, <2>2
  <2> QED
    BY <1>1, <2>2, <2>3, SeqEqual DEF n
<1> QED
  BY <1>2, <1>3

(* What the parser has read when a frame ends is the message, whatever     *)
(* precedes the frame and however it was initialised.                      *)
LEMMA ParsesFrame ==
  ASSUME NEW r \in Seq(Byte), NEW e \in 1..Len(r), NEW m \in EndingAt(r, e),
         NEW begun \in BOOLEAN
  PROVE  ParserAt(r, begun)[e - 1].data = m
<1> DEFINE P == ParserAt(r, begun)
           F == FrameTo(m)
           s == e - Len(Frame[m])
           Read(n) == [data |-> SubSeq(m, 1, n), isEsc |-> FALSE, isBegin |-> TRUE]
           X == {n \in 0..Len(m) : P[s + Len(F[n])] = Read(n)}
<1>1. m \in Messages
  BY DEF EndingAt
<1>2. /\ m \in Seq(Byte) /\ Len(m) \in Nat /\ Len(m) <= BufSize /\ BufSize \in Nat
      /\ \A n \in 1..Len(m) : m[n] \in Byte
  BY <1>1, MessageBytes, SizesAssumption
<1>3. /\ Len(Frame[m]) <= e
      /\ \A i \in 1..Len(Frame[m]) : r[s + i] = Frame[m][i]
  BY <1>1, EndingAtBytes
<1>4. /\ Len(Frame[m]) = Len(F[Len(m)]) + 1 /\ Len(Frame[m]) \in Nat
      /\ \A i \in 1..Len(Frame[m]) - 1 : Frame[m][i] = F[Len(m)][i]
  BY <1>1, FrameShape
<1>5. ASSUME NEW n \in 0..Len(m)
      PROVE  /\ F[n] \in Seq(Byte) /\ Len(F[n]) \in Nat /\ Len(F[n]) >= 1
             /\ F[n][1] = Begin
             /\ Len(F[n]) <= Len(F[Len(m)])
             /\ \A i \in 1..Len(F[n]) : F[Len(m)][i] = F[n][i]
  <2>1. F[n] \in Seq(Byte)
    BY <1>1, FrameToStep
  <2>2. Len(F[n]) \in Nat /\ Len(F[n]) > n /\ F[n][1] = Begin
    BY <1>1, FrameToShape
  <2>3. Len(F[n]) >= 1
    BY <1>2, <2>2
  <2> QED
    BY <1>1, <2>1, <2>2, <2>3, FrameToGrows
<1>6. ASSUME NEW n \in 0..Len(m), NEW i \in 1..Len(F[n])
      PROVE  r[s + i] = F[n][i]
  <2>1. i \in 1..Len(Frame[m]) - 1 /\ i \in 1..Len(Frame[m])
    BY <1>2, <1>4, <1>5
  <2> QED
    BY <1>3, <1>4, <1>5, <2>1
<1>7. s \in Nat /\ e = s + Len(Frame[m]) /\ e <= Len(r) /\ Len(r) \in Nat
  <2>1. e \in Nat /\ Len(r) \in Nat /\ e <= Len(r)
    OBVIOUS
  <2>2. \A a, b \in Nat : b <= a => a - b \in Nat /\ a = (a - b) + b
    OBVIOUS
  <2>3. Len(Frame[m]) \in Nat /\ Len(Frame[m]) <= e
    BY <1>3, <1>4
  <2> QED
    BY <2>1, <2>2, <2>3
<1>8. \A i \in 0..Len(r)-1 : P[i + 1] = ParseByte(P[i], r[i + 1]) /\ P[i] \in Parser
  BY <1>7, ParserAtStep
<1> HIDE DEF s, P, F
<1>9. 0 \in X
  <2>1. 0 \in 0..Len(m)
    BY <1>2
  <2>2. F[0] = <<Begin>>
    BY <1>1, FrameToStep DEF F
  <2>3. Len(F[0]) = 1 /\ F[0][1] = Begin
    BY <2>2
  <2>4. r[s + 1] = Begin
    BY <1>6, <2>1, <2>3
  <2>5. s \in 0..Len(r)-1
    BY <1>4, <1>5, <1>7, <2>1
  <2>6. P[s + 1] = ParseByte(P[s], r[s + 1]) /\ P[s] \in Parser
    BY <1>8, <2>5
  <2>7. P[s + 1] = [data |-> <<>>, isEsc |-> FALSE, isBegin |-> TRUE]
    BY <2>4, <2>6, ParseByteCases
  <2>8. SubSeq(m, 1, 0) = <<>>
    BY SubSeqEmpty
  <2>9. P[s + Len(F[0])] = Read(0)
    BY <2>3, <2>7, <2>8
  <2> HIDE DEF Read
  <2> QED
    BY <2>1, <2>9
<1>10. ASSUME NEW k \in 0..Len(m)-1, k \in X
       PROVE  k + 1 \in X
  <2> DEFINE b == m[k + 1]
             a == s + Len(F[k])
  <2>1. k \in 0..Len(m) /\ k + 1 \in 0..Len(m) /\ k + 1 \in 1..Len(m) /\ k \in Nat
    BY <1>2
  <2>2. P[a] = Read(k)
    BY <1>10
  <2>3. F[k + 1] = F[k] \o Escaped(b)
    BY <1>1, FrameToStep DEF F
  <2>4. b \in Byte /\ Escaped(b) \in Seq(Byte) /\ Len(Escaped(b)) \in 1..2
    BY <1>2, <2>1, EscapedBytes
  <2>5. SubSeq(m, 1, k) \in Seq(Byte) /\ Len(SubSeq(m, 1, k)) = k
    BY <1>2, <2>1, SubSeqProperties
  <2>6. Append(SubSeq(m, 1, k), b) = SubSeq(m, 1, k + 1)
    <3>1. SubSeq(m, 1, k + 1) = SubSeq(m, 1, k) \o <<b>>
      <4>1. 1 \in 1..Len(m) /\ k + 1 \in 1..Len(m) /\ (k + 1) - 1 = k
        BY <1>2, <2>1
      <4> QED
        BY <1>2, <4>1, SubSeqRecursiveSecond
    <3>2. Append(SubSeq(m, 1, k), b) = SubSeq(m, 1, k) \o <<b>>
      BY <2>4, <2>5, AppendIsConcat
    <3> QED
      BY <3>1, <3>2
  <2> DEFINE x == F[k]
             y == F[k + 1]
             z == Escaped(b)
  <2>7. x \in Seq(Byte) /\ z \in Seq(Byte) /\ y = x \o z /\ Len(z) \in 1..2
    BY <1>5, <2>1, <2>3, <2>4
  <2>8. Len(y) <= Len(F[Len(m)]) /\ Len(y) \in Nat /\ a = s + Len(x)
    BY <1>5, <2>1
  <2>9. \A j \in 1..Len(y) : r[s + j] = y[j]
    BY <1>6, <2>1
  <2> HIDE DEF a, b, x, y, z
  <2>10. /\ Len(x) \in Nat /\ Len(z) \in Nat /\ Len(y) = Len(x) + Len(z)
         /\ \A i \in 1..Len(z) : y[Len(x) + i] = z[i]
    BY <2>7, ConcatParts
  <2>11. a \in Nat /\ a + Len(z) = s + Len(y)
    BY <1>7, <2>8, <2>10
  <2>12. ASSUME NEW i \in 1..Len(z)
         PROVE  r[a + i] = z[i] /\ a + i - 1 \in 0..Len(r)-1
    <3>1. Len(x) + i \in 1..Len(y) /\ a + i = s + (Len(x) + i)
      BY <1>7, <2>8, <2>10
    <3>2. a + i <= Len(r) /\ i \in Nat /\ i >= 1
      BY <1>4, <1>7, <2>8, <2>10, <3>1
    <3> QED
      BY <1>7, <2>9, <2>10, <2>11, <3>1, <3>2
  <2>13. a \in Nat /\ a + Len(Escaped(b)) = s + Len(F[k + 1])
    BY <2>11 DEF y, z
  <2>14. \A i \in 1..Len(Escaped(b)) : r[a + i] = Escaped(b)[i] /\ a + i - 1 \in 0..Len(r)-1
    BY <2>12 DEF z
  <2>15. /\ Read(k).data = SubSeq(m, 1, k) /\ Read(k).isBegin = TRUE
        /\ Read(k).isEsc = FALSE /\ Read(k) \in Parser
    BY <2>5 DEF Parser
  <2>16. Len(SubSeq(m, 1, k)) < BufSize
    BY <1>2, <2>1, <2>5
  <2>17. Read(k + 1) = [data |-> Append(SubSeq(m, 1, k), b), isEsc |-> FALSE, isBegin |-> TRUE]
    BY <2>6
  <2>18. CASE b \notin {Escape, Begin, End}
    <3>1. Escaped(b) = <<b>>
      BY <2>18 DEF Escaped
    <3>2. r[a + 1] = b /\ a \in 0..Len(r)-1 /\ a + 1 = s + Len(F[k + 1])
      BY <2>13, <2>14, <3>1
    <3>3. P[a + 1] = ParseByte(Read(k), b)
      BY <1>8, <2>2, <3>2
    <3>4. P[a + 1] = Read(k + 1)
      BY <2>15, <2>16, <2>17, <2>18, <3>3, ParseByteCases
    <3> HIDE DEF Read
    <3> QED
      BY <2>1, <3>2, <3>4
  <2>19. CASE b \in {Escape, Begin, End}
    <3> DEFINE mid == [data |-> SubSeq(m, 1, k), isEsc |-> TRUE, isBegin |-> TRUE]
    <3>1. Escaped(b) = <<Escape, Flip(b)>>
      BY <2>19 DEF Escaped
    <3>2. /\ r[a + 1] = Escape /\ r[a + 2] = Flip(b)
          /\ a \in 0..Len(r)-1 /\ a + 1 \in 0..Len(r)-1 /\ a + 2 = s + Len(F[k + 1])
      <4>1. 1 \in 1..Len(Escaped(b)) /\ 2 \in 1..Len(Escaped(b)) /\ Len(Escaped(b)) = 2
        BY <3>1
      <4>2. /\ r[a + 1] = Escape /\ r[a + 2] = Flip(b)
            /\ a + 1 - 1 \in 0..Len(r)-1 /\ a + 2 - 1 \in 0..Len(r)-1
        BY <2>14, <3>1, <4>1
      <4> QED
        BY <2>13, <4>1, <4>2
    <3>3. P[a + 1] = ParseByte(Read(k), Escape)
      BY <1>8, <2>2, <3>2
    <3>4. P[a + 1] = mid /\ mid \in Parser
      BY <2>5, <2>15, <3>3, ParseByteCases DEF Parser
    <3>5. P[a + 2] = ParseByte(mid, Flip(b))
      <4>1. P[(a + 1) + 1] = ParseByte(P[a + 1], r[(a + 1) + 1])
        BY <1>8, <3>2
      <4>2. (a + 1) + 1 = a + 2
        BY <2>13
      <4> QED
        BY <3>2, <3>4, <4>1, <4>2
    <3>6. Flip(b) \notin {Escape, Begin} /\ Flip(Flip(b)) = b
      BY <2>19, FlipByte
    <3>7. P[a + 2] = Read(k + 1)
      <4>1. mid.data = SubSeq(m, 1, k) /\ mid.isEsc = TRUE /\ mid.isBegin = TRUE
        OBVIOUS
      <4> HIDE DEF mid, Read
      <4>2. ParseByte(mid, Flip(b)) =
              [data |-> Append(mid.data, Flip(Flip(b))), isEsc |-> FALSE, isBegin |-> mid.isBegin]
        BY <2>16, <3>4, <3>6, <4>1, ParseByteCases
      <4> QED
        BY <2>17, <3>5, <3>6, <4>1, <4>2
    <3> HIDE DEF Read, mid
    <3> QED
      BY <2>1, <3>2, <3>7
  <2> QED
    BY <2>18, <2>19
<1> HIDE DEF X
<1>11. Len(m) \in 0..Len(m)
  BY <1>2
<1>12. Len(m) \in X
  BY <1>2, <1>9, <1>10, <1>11, Induction
<1>13. P[e - 1] = Read(Len(m))
  BY <1>4, <1>7, <1>12 DEF X
<1>14. SubSeq(m, 1, Len(m)) = m
  BY <1>2, SubSeqFull
<1> QED
  BY <1>13, <1>14 DEF P

-----------------------------------------------------------------------------
(* The ring, taken apart and put together.                                 *)

(* The Ends of a concatenation are those of either part.                   *)
LEMMA ConcatEnds ==
  ASSUME NEW s \in Seq(Byte), NEW t \in Seq(Byte)
  PROVE  Ends(s \o t) = Ends(s) \cup {Len(s) + i : i \in Ends(t)}
<1> DEFINE u == s \o t
           k == Len(s)
           l == Len(t)
<1>1. /\ u \in Seq(Byte) /\ k \in Nat /\ l \in Nat /\ Len(u) = k + l
      /\ \A i \in 1..k : u[i] = s[i]
      /\ \A i \in 1..l : u[k + i] = t[i]
  BY ConcatParts
<1>2. DOMAIN s = 1..k /\ DOMAIN t = 1..l
  OBVIOUS
<1> HIDE DEF u, k, l
<1>3. DOMAIN u = 1..k+l
  BY <1>1
<1>4. ASSUME NEW n \in Ends(u)
      PROVE  n \in Ends(s) \/ \E i \in Ends(t) : n = k + i
  <2>1. n \in 1..k+l /\ u[n] = End
    BY <1>3 DEF Ends
  <2>2. CASE n \in 1..k
    BY <1>1, <1>2, <2>1, <2>2 DEF Ends
  <2>3. ASSUME NEW i \in 1..l, n = k + i
        PROVE  i \in Ends(t)
    BY <1>1, <1>2, <2>1, <2>3 DEF Ends
  <2> QED
    BY <1>1, <2>1, <2>2, <2>3, Positions
<1>5. ASSUME NEW n \in Ends(s)
      PROVE  n \in Ends(u)
  <2>1. n \in 1..k /\ s[n] = End
    BY <1>2 DEF Ends
  <2>2. n \in 1..k+l
    BY <1>1, <2>1
  <2> QED
    BY <1>1, <1>3, <2>1, <2>2 DEF Ends
<1>6. ASSUME NEW i \in Ends(t)
      PROVE  k + i \in Ends(u)
  <2>1. i \in 1..l /\ t[i] = End
    BY <1>2 DEF Ends
  <2>2. k + i \in 1..k+l
    BY <1>1, <2>1
  <2> QED
    BY <1>1, <1>3, <2>1, <2>2 DEF Ends
<1> QED
  BY <1>4, <1>5, <1>6 DEF u, k

(* Where a frame lies that ends at e.                                      *)
LEMMA FramePlace ==
  ASSUME NEW n \in Nat, NEW e \in 1..n, NEW l \in Nat, l <= e, NEW i \in 1..l
  PROVE  e - l + i \in 1..n
OBVIOUS

(* A frame that ends in the first part of a concatenation ends there.      *)
LEMMA EndingInFirst ==
  ASSUME NEW s \in Seq(Byte), NEW t \in Seq(Byte), NEW e \in 1..Len(s)
  PROVE  e \in 1..Len(s \o t) /\ EndingAt(s \o t, e) = EndingAt(s, e)
<1> DEFINE u == s \o t
<1>1. /\ u \in Seq(Byte) /\ Len(s) \in Nat /\ Len(t) \in Nat /\ Len(u) = Len(s) + Len(t)
      /\ \A i \in 1..Len(s) : u[i] = s[i]
  BY ConcatParts
<1> HIDE DEF u
<1>2. e \in 1..Len(u)
  BY <1>1
<1>3. ASSUME NEW m \in Messages
      PROVE  m \in EndingAt(u, e) <=> m \in EndingAt(s, e)
  <2> DEFINE l == Len(Frame[m])
  <2>1. l \in Nat
    BY FrameShape
  <2>2. m \in EndingAt(u, e) <=> l <= e /\ \A i \in 1..l : u[e - l + i] = Frame[m][i]
    BY <1>1, <1>2, EndingAtBytes
  <2>3. m \in EndingAt(s, e) <=> l <= e /\ \A i \in 1..l : s[e - l + i] = Frame[m][i]
    BY EndingAtBytes
  <2> HIDE DEF l
  <2>4. ASSUME l <= e, NEW i \in 1..l
        PROVE  u[e - l + i] = s[e - l + i]
    BY <1>1, <2>1, <2>4, FramePlace
  <2> QED
    BY <2>2, <2>3, <2>4
<1> QED
  BY <1>2, <1>3 DEF EndingAt, u

LEMMA Shift ==
  ASSUME NEW k \in Nat, NEW e \in Nat, NEW l \in Nat, NEW i \in Nat
  PROVE  (k + e) - l + i = k + (e - l + i)
OBVIOUS

(* One that ends in the second part ends there too, and nowhere further    *)
(* on if the first part ends with an End.                                  *)
LEMMA EndingInSecond ==
  ASSUME NEW s \in Seq(Byte), NEW t \in Seq(Byte), NEW e \in 1..Len(t)
  PROVE  /\ Len(s) + e \in 1..Len(s \o t)
         /\ EndingAt(t, e) \subseteq EndingAt(s \o t, Len(s) + e)
         /\ (s = <<>> \/ s[Len(s)] = End) =>
              EndingAt(s \o t, Len(s) + e) = EndingAt(t, e)
<1> DEFINE u == s \o t
           k == Len(s)
<1>1. /\ u \in Seq(Byte) /\ k \in Nat /\ Len(t) \in Nat /\ Len(u) = k + Len(t)
      /\ \A i \in 1..k : u[i] = s[i]
      /\ \A i \in 1..Len(t) : u[k + i] = t[i]
  BY ConcatParts
<1>2. s = <<>> => k = 0
  OBVIOUS
<1> HIDE DEF u
<1>3. k + e \in 1..Len(u)
  BY <1>1
<1>4. ASSUME NEW m \in Messages
      PROVE  /\ m \in EndingAt(t, e) => m \in EndingAt(u, k + e)
             /\ (s = <<>> \/ s[k] = End) /\ m \in EndingAt(u, k + e) => m \in EndingAt(t, e)
  <2> DEFINE f == Frame[m]
             l == Len(f)
  <2>1. l \in Nat /\ l >= 3 /\ \A i \in 1..l - 1 : f[i] # End
    BY FrameShape
  <2>2. m \in EndingAt(u, k + e) <=>
          l <= k + e /\ \A i \in 1..l : u[(k + e) - l + i] = f[i]
    <3> HIDE DEF k
    <3>1. /\ u \in Seq(Byte) /\ k + e \in 1..Len(u)
          /\ \A a \in 1..Len(u) :
               m \in EndingAt(u, a) <=>
                 Len(Frame[m]) <= a /\ \A i \in 1..Len(Frame[m]) : u[a - Len(Frame[m]) + i] = Frame[m][i]
      BY <1>1, <1>3, EndingAtBytes
    <3> QED
      BY <3>1
  <2>3. m \in EndingAt(t, e) <=> l <= e /\ \A i \in 1..l : t[e - l + i] = f[i]
    BY EndingAtBytes
  <2> HIDE DEF l, f, k
  <2>4. ASSUME l <= e, NEW i \in 1..l
        PROVE  u[(k + e) - l + i] = t[e - l + i]
    <3>1. e - l + i \in 1..Len(t)
      BY <1>1, <2>1, <2>4, FramePlace
    <3>2. (k + e) - l + i = k + (e - l + i)
      BY <1>1, <2>1, Shift
    <3> QED
      BY <1>1, <3>1, <3>2
  <2>5. m \in EndingAt(t, e) => m \in EndingAt(u, k + e)
    <3>1. l <= e => l <= k + e
      BY <1>1, <2>1
    <3> QED
      BY <2>2, <2>3, <2>4, <3>1
  <2>6. ASSUME s = <<>> \/ s[k] = End, m \in EndingAt(u, k + e)
        PROVE  l <= e
    <3> SUFFICES ASSUME l > e
                 PROVE  FALSE
      BY <1>1, <2>1
    <3>1. l - e \in 1..l - 1 /\ (k + e) - l + (l - e) = k
      BY <1>1, <2>1, <2>2, <2>6
    <3>2. u[k] = f[l - e] /\ f[l - e] # End
      BY <2>1, <2>2, <2>6, <3>1
    <3>3. k # 0
      <4>1. l <= k + e
        BY <2>2, <2>6
      <4> QED
        BY <1>1, <2>1, <4>1
    <3>4. k \in 1..k
      BY <1>1, <3>3
    <3>5. u[k] = s[k] /\ s # <<>>
      BY <1>1, <1>2, <3>3, <3>4
    <3> QED
      BY <2>6, <3>2, <3>5
  <2> QED
    BY <2>2, <2>3, <2>4, <2>5, <2>6
<1> QED
  BY <1>3, <1>4 DEF EndingAt, u, k

(* At most one message ends at a byte.                                     *)
LEMMA EndingUnique ==
  ASSUME NEW r \in Seq(Byte), NEW e \in 1..Len(r),
         NEW m \in EndingAt(r, e), NEW x \in EndingAt(r, e)
  PROVE  m = x
<1>1. ParserAt(r, TRUE)[e - 1].data = m
  BY ParsesFrame
<1>2. ParserAt(r, TRUE)[e - 1].data = x
  BY ParsesFrame
<1> QED
  BY <1>1, <1>2

-----------------------------------------------------------------------------
(* The whole messages of a ring.                                           *)

(* At the front and behind every End a frame begins; every End ends one.   *)
(* What follows the last End may be a frame that was cut short.            *)
Sound(r) ==
  /\ r \in Seq(Byte)
  /\ r # <<>> => r[1] = Begin
  /\ \A e \in Ends(r) : EndingAt(r, e) # {} /\ (e < Len(r) => r[e + 1] = Begin)

Chosen(r, n) == CHOOSE m \in EndingAt(r, n) : TRUE

(* So the CHOOSE of WholeTo has no choice.                                 *)
LEMMA ChosenIs ==
  ASSUME NEW r \in Seq(Byte), NEW e \in 1..Len(r), NEW m \in EndingAt(r, e)
  PROVE  Chosen(r, e) = m
<1>1. Chosen(r, e) \in EndingAt(r, e)
  BY DEF Chosen
<1> QED
  BY <1>1, EndingUnique

LEMMA SoundEnds ==
  ASSUME NEW r, Sound(r)
  PROVE  /\ r \in Seq(Byte) /\ Len(r) \in Nat /\ Ends(r) \in SUBSET Nat
         /\ \A e \in 1..Len(r) : r[e] = End <=> e \in Ends(r)
         /\ \A e \in Ends(r) : /\ e \in 1..Len(r) /\ r[e] = End
                               /\ Chosen(r, e) \in EndingAt(r, e)
                               /\ Chosen(r, e) \in Messages
<1>1. r \in Seq(Byte) /\ Len(r) \in Nat /\ DOMAIN r = 1..Len(r)
  BY DEF Sound
<1>2. ASSUME NEW e \in Ends(r)
      PROVE  Chosen(r, e) \in EndingAt(r, e)
  BY <1>2 DEF Sound, Chosen
<1>3. Ends(r) \in SUBSET Nat
  BY <1>1 DEF Ends
<1> QED
  BY <1>1, <1>2, <1>3 DEF Ends, EndingAt

(* The recursive definition of WholeTo, step by step.                      *)
LEMMA WholeToStep ==
  ASSUME NEW r, Sound(r)
  PROVE  /\ WholeTo(r) \in [0..Len(r) -> Seq(Messages)]
         /\ WholeTo(r)[0] = <<>>
         /\ \A n \in 0..Len(r)-1 :
              WholeTo(r)[n + 1] = IF n + 1 \in Ends(r) THEN Append(WholeTo(r)[n], Chosen(r, n + 1))
                                  ELSE WholeTo(r)[n]
<1> DEFINE step == [x \in Seq(Messages) \X (1..Len(r)) |->
                      IF r[x[2]] = End THEN Append(x[1], Chosen(r, x[2])) ELSE x[1]]
           W == WholeTo(r)
<1>1. /\ Len(r) \in Nat
      /\ \A n \in 1..Len(r) : r[n] = End <=> n \in Ends(r)
      /\ \A n \in Ends(r) : Chosen(r, n) \in Messages
  BY SoundEnds
<1>2. step \in [Seq(Messages) \X (1..Len(r)) -> Seq(Messages)]
  BY <1>1, AppendProperties
<1>3. <<>> \in Seq(Messages)
  OBVIOUS
<1>4. PICK f \in [0..Len(r) -> Seq(Messages)] : Recursive(f, Len(r), <<>>, step)
  <2> HIDE DEF step
  <2> QED
    BY <1>1, <1>2, <1>3, RecursionExists
<1>5. f = [n \in 0..Len(r) |-> IF n = 0 THEN <<>>
                               ELSE IF r[n] = End THEN Append(f[n - 1], Chosen(r, n))
                               ELSE f[n - 1]]
  <2>1. ASSUME NEW n \in 1..Len(r)
        PROVE  f[n] = IF r[n] = End THEN Append(f[n - 1], Chosen(r, n)) ELSE f[n - 1]
    <3>1. n - 1 \in 0..Len(r) /\ f[n - 1] \in Seq(Messages)
      BY <1>1
    <3>2. f[n] = step[<<f[n - 1], n>>]
      BY <1>4 DEF Recursive
    <3> QED
      BY <3>1, <3>2
  <2>2. f[0] = <<>> /\ f \in [0..Len(r) -> Seq(Messages)]
    BY <1>4 DEF Recursive
  <2>3. ASSUME NEW n \in 0..Len(r)
        PROVE  f[n] = IF n = 0 THEN <<>>
                      ELSE IF r[n] = End THEN Append(f[n - 1], Chosen(r, n)) ELSE f[n - 1]
    <3>1. n = 0 \/ n \in 1..Len(r)
      BY <1>1
    <3> QED
      BY <2>1, <2>2, <3>1, Zenon
  <2> QED
    BY <2>2, <2>3
<1>6. W = [n \in 0..Len(r) |-> IF n = 0 THEN <<>>
                               ELSE IF r[n] = End THEN Append(W[n - 1], Chosen(r, n))
                               ELSE W[n - 1]]
  BY <1>5 DEF WholeTo, Chosen
<1> HIDE DEF step, W
<1>7. W[0] = <<>> /\ DOMAIN W = 0..Len(r)
  BY <1>1, <1>6
<1>8. ASSUME NEW n \in 0..Len(r)-1
      PROVE  W[n + 1] = IF n + 1 \in Ends(r) THEN Append(W[n], Chosen(r, n + 1)) ELSE W[n]
  <2>1. n + 1 \in 0..Len(r) /\ n + 1 # 0 /\ (n + 1) - 1 = n
    BY <1>1
  <2>2. r[n + 1] = End <=> n + 1 \in Ends(r)
    BY <1>1
  <2> QED
    BY <1>6, <2>1, <2>2, Zenon
<1> DEFINE X == {n \in 0..Len(r) : W[n] \in Seq(Messages)}
<1>9. 0 \in X
  BY <1>1, <1>7
<1>10. ASSUME NEW k \in 0..Len(r)-1, k \in X
       PROVE  k + 1 \in X
  <2>1. k + 1 \in 0..Len(r)
    BY <1>1
  <2>2. W[k] \in Seq(Messages)
    BY <1>10
  <2>3. k + 1 \in Ends(r) => Append(W[k], Chosen(r, k + 1)) \in Seq(Messages)
    BY <1>1, <2>2, AppendProperties
  <2>4. W[k + 1] \in Seq(Messages)
    BY <1>8, <2>2, <2>3
  <2> QED
    BY <2>1, <2>4
<1> HIDE DEF X
<1>11. \A n \in 0..Len(r) : n \in X
  BY <1>1, <1>9, <1>10, Induction
<1>12. W \in [0..Len(r) -> Seq(Messages)]
  BY <1>6, <1>11 DEF X
<1> QED
  BY <1>7, <1>8, <1>12 DEF W

LEMMA WholeType ==
  ASSUME NEW r, Sound(r)
  PROVE  Whole(r) \in Seq(Messages) /\ Len(Whole(r)) \in Nat
<1>1. Len(r) \in 0..Len(r)
  BY SoundEnds
<1>2. Whole(r) \in Seq(Messages)
  BY <1>1, WholeToStep DEF Whole
<1> QED
  BY <1>2

(* Without an End there is no message.                                     *)
LEMMA NoEndsNoMessage ==
  ASSUME NEW r, Sound(r), NEW n \in 0..Len(r), \A e \in Ends(r) : e > n
  PROVE  WholeTo(r)[n] = <<>>
<1> DEFINE X == {k \in 0..Len(r) : k <= n => WholeTo(r)[k] = <<>>}
<1>1. Len(r) \in Nat
  BY SoundEnds
<1>2. 0 \in X
  BY <1>1, WholeToStep
<1>3. ASSUME NEW k \in 0..Len(r)-1, k \in X
      PROVE  k + 1 \in X
  <2>1. k + 1 \in 0..Len(r)
    BY <1>1
  <2>2. ASSUME k + 1 <= n
        PROVE  WholeTo(r)[k + 1] = <<>>
    <3>1. k <= n /\ ~(k + 1 > n)
      BY <1>1, <2>2
    <3>2. k + 1 \notin Ends(r)
      BY <3>1
    <3>3. WholeTo(r)[k] = <<>>
      BY <1>3, <3>1
    <3> QED
      BY <3>2, <3>3, WholeToStep
  <2> QED
    BY <2>1, <2>2
<1> HIDE DEF X
<1>4. n \in X
  BY <1>1, <1>2, <1>3, Induction
<1> QED
  BY <1>1, <1>4 DEF X

(* With one at its very end there is one.                                  *)
LEMMA OneEndOneMessage ==
  ASSUME NEW r, Sound(r), Ends(r) = {Len(r)}, NEW m \in EndingAt(r, Len(r))
  PROVE  Whole(r) = <<m>>
<1> DEFINE n == Len(r) - 1
<1>1. r \in Seq(Byte) /\ Len(r) \in Nat /\ Len(r) \in 1..Len(r)
  BY SoundEnds
<1>2. n \in 0..Len(r)-1 /\ n \in 0..Len(r) /\ Len(r) > n /\ n + 1 = Len(r)
  BY <1>1
<1> HIDE DEF n
<1>3. WholeTo(r)[n] = <<>>
  BY <1>2, NoEndsNoMessage
<1>4. Chosen(r, Len(r)) = m
  BY <1>1, ChosenIs
<1>5. WholeTo(r)[n + 1] = Append(<<>>, m)
  BY <1>2, <1>3, <1>4, WholeToStep
<1>6. Append(<<>>, m) = <<m>>
  OBVIOUS
<1> QED
  BY <1>2, <1>5, <1>6 DEF Whole

-----------------------------------------------------------------------------
(* Whole messages add up.                                                  *)

(* Put together, what is sound is sound,                                   *)
LEMMA ConcatSound ==
  ASSUME NEW s, Sound(s), NEW t, Sound(t)
  PROVE  Sound(s \o t)
<1> DEFINE u == s \o t
           k == Len(s)
           l == Len(t)
<1>1. s \in Seq(Byte) /\ t \in Seq(Byte)
  BY DEF Sound
<1>2. /\ u \in Seq(Byte) /\ k \in Nat /\ l \in Nat /\ Len(u) = k + l
      /\ \A i \in 1..k : u[i] = s[i]
      /\ \A i \in 1..l : u[k + i] = t[i]
  BY <1>1, ConcatParts
<1>3. Ends(u) = Ends(s) \cup {k + i : i \in Ends(t)}
  BY <1>1, ConcatEnds
<1>4. Ends(s) \subseteq 1..k /\ Ends(t) \subseteq 1..l
  BY SoundEnds
<1>5. (s = <<>> <=> k = 0) /\ (t = <<>> <=> l = 0) /\ (u = <<>> => k + l = 0)
  BY <1>1, <1>2
<1>6. \A e \in 1..k : EndingAt(u, e) = EndingAt(s, e)
  BY <1>1, EndingInFirst
<1>7. \A e \in 1..l : EndingAt(t, e) \subseteq EndingAt(u, k + e)
  BY <1>1, EndingInSecond
<1>8. (k # 0 => s[1] = Begin) /\ (l # 0 => t[1] = Begin)
  BY <1>5 DEF Sound
<1>9. /\ \A e \in Ends(s) : EndingAt(s, e) # {} /\ (e < k => s[e + 1] = Begin)
      /\ \A e \in Ends(t) : EndingAt(t, e) # {} /\ (e < l => t[e + 1] = Begin)
  BY DEF Sound
<1> HIDE DEF u, k, l
<1>10. u # <<>> => u[1] = Begin
  <2>1. CASE k # 0
    <3>1. 1 \in 1..k
      BY <1>2, <2>1
    <3> QED
      BY <1>2, <1>8, <2>1, <3>1
  <2>2. CASE k = 0 /\ l # 0
    <3>1. 1 \in 1..l /\ k + 1 = 1
      BY <1>2, <2>2
    <3>2. u[k + 1] = t[1]
      BY <1>2, <3>1
    <3> QED
      BY <1>8, <2>2, <3>1, <3>2
  <2>3. CASE k = 0 /\ l = 0
    BY <1>2, <2>3
  <2> QED
    BY <2>1, <2>2, <2>3
<1>11. ASSUME NEW e \in Ends(s)
       PROVE  EndingAt(u, e) # {} /\ (e < k + l => u[e + 1] = Begin)
  <2>1. e \in 1..k
    BY <1>4
  <2>2. CASE e < k
    <3>1. e + 1 \in 1..k
      BY <1>2, <2>1, <2>2
    <3> QED
      BY <1>2, <1>6, <1>9, <2>1, <2>2, <3>1
  <2>3. CASE e = k
    <3>1. e < k + l => l # 0 /\ 1 \in 1..l
      BY <1>2, <2>3
    <3>2. e < k + l => u[e + 1] = Begin
      BY <1>2, <1>8, <2>3, <3>1
    <3> QED
      BY <1>6, <1>9, <2>1, <3>2
  <2> QED
    BY <1>2, <2>1, <2>2, <2>3
<1>12. ASSUME NEW e \in Ends(t)
       PROVE  EndingAt(u, k + e) # {} /\ (k + e < k + l => u[k + e + 1] = Begin)
  <2>1. e \in 1..l
    BY <1>4
  <2>2. EndingAt(u, k + e) # {}
    BY <1>7, <1>9, <2>1
  <2>3. ASSUME k + e < k + l
        PROVE  u[k + e + 1] = Begin
    <3>1. e < l /\ e + 1 \in 1..l /\ k + e + 1 = k + (e + 1)
      BY <1>2, <2>1, <2>3
    <3> QED
      BY <1>2, <1>9, <3>1
  <2> QED
    BY <2>2, <2>3
<1>13. \A e \in Ends(u) : EndingAt(u, e) # {} /\ (e < Len(u) => u[e + 1] = Begin)
  BY <1>2, <1>3, <1>11, <1>12
<1> QED
  BY <1>2, <1>10, <1>13 DEF Sound, u

(* and the messages of the one precede those of the other.                 *)
LEMMA ConcatWhole ==
  ASSUME NEW s, Sound(s), NEW t, Sound(t)
  PROVE  Whole(s \o t) = Whole(s) \o Whole(t)
<1> DEFINE u == s \o t
           k == Len(s)
           l == Len(t)
           U == WholeTo(u)
           V == WholeTo(s)
           W == WholeTo(t)
           X == {n \in 0..k : U[n] = V[n]}
           Y == {n \in 0..l : U[k + n] = V[k] \o W[n]}
<1>1. s \in Seq(Byte) /\ t \in Seq(Byte)
  BY DEF Sound
<1>2. u \in Seq(Byte) /\ k \in Nat /\ l \in Nat /\ Len(u) = k + l
  BY <1>1, ConcatParts
<1>3. Ends(u) = Ends(s) \cup {k + i : i \in Ends(t)}
  BY <1>1, ConcatEnds
<1>4. Ends(s) \subseteq 1..k /\ Ends(t) \subseteq 1..l
  BY SoundEnds
<1>5. Sound(u)
  BY ConcatSound
<1>6. \A e \in Ends(s) : Chosen(u, e) = Chosen(s, e)
  <2> SUFFICES ASSUME NEW e \in Ends(s)
               PROVE  Chosen(u, e) = Chosen(s, e)
    OBVIOUS
  <2>1. EndingAt(u, e) = EndingAt(s, e)
    BY <1>1, <1>4, EndingInFirst
  <2> QED
    BY <2>1 DEF Chosen
<1>7. \A e \in Ends(t) : Chosen(u, k + e) = Chosen(t, e)
  <2> SUFFICES ASSUME NEW e \in Ends(t)
               PROVE  Chosen(u, k + e) = Chosen(t, e)
    OBVIOUS
  <2> DEFINE m == Chosen(t, e)
             a == k + e
  <2>1. a \in 1..Len(u) /\ EndingAt(t, e) \subseteq EndingAt(u, a)
    BY <1>1, <1>4, EndingInSecond
  <2>2. m \in EndingAt(t, e)
    BY SoundEnds
  <2> HIDE DEF m, a, u
  <2>3. m \in EndingAt(u, a)
    BY <2>1, <2>2
  <2>4. Chosen(u, a) = m
    BY <1>2, <2>1, <2>3, ChosenIs
  <2> QED
    BY <2>4 DEF m, a
<1>8. /\ U[0] = <<>> /\ \A n \in 0..Len(u)-1 :
           U[n + 1] = IF n + 1 \in Ends(u) THEN Append(U[n], Chosen(u, n + 1)) ELSE U[n]
  <2> HIDE DEF u
  <2> QED
    BY <1>5, WholeToStep
<1>9. /\ V[0] = <<>> /\ V[k] \in Seq(Messages)
      /\ \A n \in 0..k-1 :
           V[n + 1] = IF n + 1 \in Ends(s) THEN Append(V[n], Chosen(s, n + 1)) ELSE V[n]
  <2>1. Whole(s) \in Seq(Messages)
    BY WholeType
  <2> QED
    BY <2>1, WholeToStep DEF Whole
<1>10. /\ W[0] = <<>> /\ \A n \in 0..l : W[n] \in Seq(Messages)
       /\ \A n \in 0..l-1 :
            W[n + 1] = IF n + 1 \in Ends(t) THEN Append(W[n], Chosen(t, n + 1)) ELSE W[n]
  BY WholeToStep
<1>11. \A e \in Ends(t) : Chosen(t, e) \in Messages
  BY SoundEnds
<1> HIDE DEF u, k, l, U, V, W
<1>12. 0 \in X
  BY <1>2, <1>8, <1>9
<1>13. ASSUME NEW n \in 0..k-1, n \in X
       PROVE  n + 1 \in X
  <2>1. n + 1 \in 1..k /\ n + 1 \in 0..k /\ n \in 0..Len(u)-1
    BY <1>2
  <2>2. n + 1 \in Ends(u) <=> n + 1 \in Ends(s)
    <3>1. ASSUME NEW i \in Ends(t)
          PROVE  n + 1 # k + i
      BY <1>2, <1>4, <2>1
    <3> QED
      BY <1>3, <3>1
  <2>3. U[n] = V[n]
    BY <1>13
  <2>4. U[n + 1] = V[n + 1]
    BY <1>6, <1>8, <1>9, <2>1, <2>2, <2>3
  <2> QED
    BY <2>1, <2>4
<1> HIDE DEF X
<1>14. k \in X
  <2>1. \A n \in 0..k : n \in X
    BY <1>2, <1>12, <1>13, Induction
  <2> QED
    BY <1>2, <2>1
<1>15. U[k] = V[k]
  BY <1>14 DEF X
<1>16. 0 \in Y
  <2>1. V[k] \o <<>> = V[k] /\ k + 0 = k /\ 0 \in 0..l
    BY <1>2, <1>9
  <2> QED
    BY <1>10, <1>15, <2>1
<1>17. ASSUME NEW n \in 0..l-1, n \in Y
       PROVE  n + 1 \in Y
  <2> DEFINE a == k + n
  <2>1. /\ n + 1 \in 1..l /\ n + 1 \in 0..l /\ a \in 0..Len(u)-1 /\ n \in 0..l
        /\ a + 1 = k + (n + 1)
    BY <1>2
  <2>2. a + 1 \in Ends(u) <=> n + 1 \in Ends(t)
    <3>1. a + 1 \notin Ends(s)
      BY <1>2, <1>4, <2>1
    <3>2. \A i \in Ends(t) : k + i = k + (n + 1) => i = n + 1
      BY <1>2, <1>4
    <3> QED
      BY <1>3, <2>1, <3>1, <3>2
  <2>3. U[a] = V[k] \o W[n]
    BY <1>17
  <2> HIDE DEF a
  <2>4. CASE n + 1 \in Ends(t)
    <3> DEFINE c == Chosen(t, n + 1)
    <3>1. U[a + 1] = Append(U[a], c)
      <4>1. U[a + 1] = Append(U[a], Chosen(u, a + 1))
        BY <1>8, <2>1, <2>2, <2>4
      <4>2. Chosen(u, a + 1) = c
        BY <1>7, <2>1, <2>4
      <4> QED
        BY <4>1, <4>2
    <3>2. W[n + 1] = Append(W[n], c) /\ c \in Messages
      BY <1>10, <1>11, <2>4
    <3> HIDE DEF c
    <3>3. W[n] \in Seq(Messages) /\ V[k] \in Seq(Messages) /\ c \in Messages
      BY <1>9, <1>10, <2>1, <3>2
    <3>4. Append(V[k] \o W[n], c) = V[k] \o Append(W[n], c)
      <4> DEFINE x == V[k]
                 y == W[n]
      <4>1. x \in Seq(Messages) /\ y \in Seq(Messages) /\ c \in Messages
        BY <3>3
      <4> HIDE DEF x, y
      <4>2. x \o y \in Seq(Messages) /\ <<c>> \in Seq(Messages)
        BY <4>1, ConcatProperties
      <4>3. Append(x \o y, c) = (x \o y) \o <<c>> /\ Append(y, c) = y \o <<c>>
        BY <4>1, <4>2, AppendIsConcat
      <4>4. Append(x \o y, c) = x \o Append(y, c)
        BY <4>1, <4>2, <4>3, ConcatAssociative
      <4> QED
        BY <4>4 DEF x, y
    <3> QED
      BY <2>1, <2>3, <3>1, <3>2, <3>4
  <2>5. CASE n + 1 \notin Ends(t)
    BY <1>8, <1>10, <2>1, <2>2, <2>3, <2>5
  <2> QED
    BY <2>4, <2>5
<1> HIDE DEF Y
<1>18. l \in Y
  <2>1. \A n \in 0..l : n \in Y
    BY <1>2, <1>16, <1>17, Induction
  <2> QED
    BY <1>2, <2>1
<1>19. U[k + l] = V[k] \o W[l]
  BY <1>18 DEF Y
<1> QED
  BY <1>2, <1>19 DEF Whole, U, V, W, u, k, l

(* Taken apart behind an End, both parts are sound.                        *)
LEMMA SplitSound ==
  ASSUME NEW s \in Seq(Byte), NEW t \in Seq(Byte), Sound(s \o t), s # <<>>, s[Len(s)] = End
  PROVE  Sound(s) /\ Sound(t)
<1> DEFINE u == s \o t
           k == Len(s)
           l == Len(t)
<1>1. /\ u \in Seq(Byte) /\ k \in Nat /\ l \in Nat /\ Len(u) = k + l
      /\ \A i \in 1..k : u[i] = s[i]
      /\ \A i \in 1..l : u[k + i] = t[i]
  BY ConcatParts
<1>2. Ends(u) = Ends(s) \cup {k + i : i \in Ends(t)}
  BY ConcatEnds
<1>3. Ends(s) \subseteq 1..k /\ Ends(t) \subseteq 1..l /\ k \in Ends(s) /\ k >= 1
  <2>1. DOMAIN s = 1..k /\ DOMAIN t = 1..l /\ k # 0
    BY <1>1
  <2> QED
    BY <1>1, <2>1 DEF Ends
<1>4. /\ \A e \in 1..k : EndingAt(u, e) = EndingAt(s, e)
      /\ \A e \in 1..l : EndingAt(u, k + e) = EndingAt(t, e)
  BY EndingInFirst, EndingInSecond
<1>5. /\ u # <<>> => u[1] = Begin
      /\ \A e \in Ends(u) : EndingAt(u, e) # {} /\ (e < Len(u) => u[e + 1] = Begin)
  BY DEF Sound
<1>6. u # <<>> /\ (t # <<>> => l # 0)
  BY <1>1, <1>3
<1> HIDE DEF u, k, l
<1>7. s[1] = Begin
  <2>1. 1 \in 1..k
    BY <1>1, <1>3
  <2> QED
    BY <1>1, <1>5, <1>6, <2>1
<1>8. ASSUME NEW e \in Ends(s)
      PROVE  EndingAt(s, e) # {} /\ (e < k => s[e + 1] = Begin)
  <2>1. e \in 1..k /\ e \in Ends(u)
    BY <1>2, <1>3
  <2>2. ASSUME e < k
        PROVE  s[e + 1] = Begin
    <3>1. e + 1 \in 1..k /\ e < Len(u)
      BY <1>1, <2>1, <2>2
    <3> QED
      BY <1>1, <1>5, <2>1, <3>1
  <2> QED
    BY <1>4, <1>5, <2>1, <2>2
<1>9. t # <<>> => t[1] = Begin
  <2> SUFFICES ASSUME l # 0
               PROVE  t[1] = Begin
    BY <1>6
  <2>1. 1 \in 1..l /\ k < Len(u) /\ k \in Ends(u)
    BY <1>1, <1>2, <1>3
  <2> QED
    BY <1>1, <1>5, <2>1
<1>10. ASSUME NEW e \in Ends(t)
       PROVE  EndingAt(t, e) # {} /\ (e < l => t[e + 1] = Begin)
  <2>1. e \in 1..l /\ k + e \in Ends(u)
    BY <1>2, <1>3
  <2>2. ASSUME e < l
        PROVE  t[e + 1] = Begin
    <3>1. e + 1 \in 1..l /\ k + e < Len(u) /\ k + e + 1 = k + (e + 1)
      BY <1>1, <2>1, <2>2
    <3>2. u[k + e + 1] = Begin
      BY <1>5, <2>1, <3>1
    <3> QED
      BY <1>1, <3>1, <3>2
  <2> QED
    BY <1>4, <1>5, <2>1, <2>2
<1> QED
  BY <1>7, <1>8, <1>9, <1>10 DEF Sound, k, l

(* A ring without what is up to one of its Ends.                           *)
LEMMA SplitAt ==
  ASSUME NEW r, Sound(r), NEW e \in Ends(r)
  PROVE  /\ Sound(SubSeq(r, 1, e)) /\ Sound(SubSeq(r, e + 1, Len(r)))
         /\ r = SubSeq(r, 1, e) \o SubSeq(r, e + 1, Len(r))
         /\ Len(SubSeq(r, 1, e)) = e /\ Len(SubSeq(r, e + 1, Len(r))) = Len(r) - e
         /\ e \in 1..Len(r) /\ Len(r) \in Nat
<1> DEFINE s == SubSeq(r, 1, e)
           t == SubSeq(r, e + 1, Len(r))
<1>1. r \in Seq(Byte) /\ Len(r) \in Nat /\ e \in 1..Len(r) /\ r[e] = End
  BY SoundEnds
<1>2. s \in Seq(Byte) /\ Len(s) = e /\ s[e] = r[e]
  BY <1>1
<1>3. t \in Seq(Byte) /\ Len(t) = Len(r) - e
  BY <1>1
<1>4. r = s \o t
  <2>1. 1 \in 1..Len(r)+1 /\ e \in 1-1..Len(r) /\ Len(r) \in e..Len(r)
    BY <1>1
  <2>2. s \o t = SubSeq(r, 1, Len(r))
    BY <1>1, <2>1, ConcatAdjacentSubSeq
  <2> QED
    BY <1>1, <2>2, SubSeqFull
<1>5. s # <<>>
  BY <1>1, <1>2
<1> HIDE DEF s, t
<1>6. Sound(s) /\ Sound(t)
  BY <1>1, <1>2, <1>3, <1>4, <1>5, SplitSound
<1> QED
  BY <1>1, <1>2, <1>3, <1>4, <1>6 DEF s, t

(* A frame that was cut short.                                             *)
Cut(t) == t \in Seq(Byte) /\ Ends(t) = {} /\ (t # <<>> => t[1] = Begin)

(* It has no message, and does no harm.                                    *)
LEMMA CutSound ==
  ASSUME NEW t, Cut(t)
  PROVE  Sound(t) /\ Whole(t) = <<>>
<1>1. Sound(t)
  BY DEF Sound, Cut
<1>2. Len(t) \in 0..Len(t) /\ \A e \in Ends(t) : e > Len(t)
  BY DEF Cut
<1> QED
  BY <1>1, <1>2, NoEndsNoMessage DEF Whole

(* A frame is one message.                                                 *)
LEMMA FrameSound ==
  ASSUME NEW m \in Messages
  PROVE  Sound(Frame[m]) /\ Whole(Frame[m]) = <<m>> /\ Ends(Frame[m]) = {Len(Frame[m])}
<1> DEFINE f == Frame[m]
           l == Len(f)
<1>1. /\ f \in Seq(Byte) /\ l \in Nat /\ l >= 3 /\ f[1] = Begin /\ f[l] = End
      /\ \A i \in 1..l - 1 : f[i] # End
  BY FrameShape
<1>2. Ends(f) = {l}
  <2>1. DOMAIN f = 1..l
    BY <1>1
  <2> HIDE DEF f, l
  <2>2. ASSUME NEW i \in 1..l, f[i] = End
        PROVE  i = l
    <3>1. i < l => i \in 1..l - 1
      BY <1>1
    <3> QED
      BY <1>1, <2>2, <3>1
  <2> QED
    BY <1>1, <2>1, <2>2 DEF Ends
<1>3. m \in EndingAt(f, l)
  <2>1. l \in 1..l /\ l <= l
    BY <1>1
  <2>2. \A i \in 1..l : l - l + i = i
    BY <1>1
  <2> HIDE DEF f
  <2>3. \A e \in 1..Len(f) : m \in EndingAt(f, e) <=>
          Len(Frame[m]) <= e /\ \A i \in 1..Len(Frame[m]) : f[e - Len(Frame[m]) + i] = Frame[m][i]
    BY <1>1, EndingAtBytes
  <2> QED
    BY <2>1, <2>2, <2>3 DEF f
<1> HIDE DEF f, l
<1>4. Sound(f)
  <2>1. \A e \in Ends(f) : EndingAt(f, e) # {} /\ ~(e < l)
    BY <1>1, <1>2, <1>3
  <2> QED
    BY <1>1, <2>1 DEF Sound, l
<1>5. Whole(f) = <<m>>
  BY <1>2, <1>3, <1>4, OneEndOneMessage DEF l
<1> QED
  BY <1>2, <1>4, <1>5 DEF f, l

-----------------------------------------------------------------------------
(* Putting into the ring and taking out of it.                             *)

(* What does not fit is a frame cut short.                                 *)
LEMMA PutsAdds ==
  ASSUME NEW r, Sound(r), Len(r) <= Size, NEW m \in Messages
  PROVE  /\ Puts(r, m).ok \in BOOLEAN
         /\ Puts(r, m).ok <=> Len(r) + Len(Frame[m]) <= Size
         /\ Puts(r, m).ok => Puts(r, m).rb = r \o Frame[m]
         /\ ~Puts(r, m).ok => \E t : /\ Cut(t) /\ Len(t) \in Nat /\ Len(r) + Len(t) = Size
                                     /\ Puts(r, m).rb = r \o t
<1> DEFINE f == Frame[m]
           l == Len(f)
           room == Size - Len(r)
           n == Min({room, l})
           t == SubSeq(f, 1, n)
<1>1. /\ f \in Seq(Byte) /\ l \in Nat /\ l >= 3 /\ f[1] = Begin
      /\ \A i \in 1..l - 1 : f[i] # End
  BY FrameShape
<1>2. room \in Nat /\ Len(r) \in Nat /\ Size \in Nat /\ Len(r) + room = Size
  BY SizesAssumption, SoundEnds
<1>3. n \in {room, l} /\ n <= room /\ n <= l
  <2> HIDE DEF l, room
  <2> QED
    BY <1>1, <1>2, MinIsLeast
<1>4. Puts(r, m).ok = (l <= room) /\ Puts(r, m).rb = r \o t
  BY DEF Puts
<1>5. n \in Nat
  BY <1>1, <1>2, <1>3
<1>6. t \in Seq(Byte) /\ Len(t) = n /\ \A i \in 1..n : t[i] = f[i]
  <2>1. n \in 0..Len(f)
    BY <1>1, <1>3, <1>5
  <2> HIDE DEF n, f
  <2> QED
    BY <1>1, <2>1
<1>7. (l <= room) <=> Len(r) + l <= Size
  BY <1>1, <1>2
<1>8. l <= room => t = f
  <2> SUFFICES ASSUME l <= room
               PROVE  t = f
    OBVIOUS
  <2>1. n = l
    BY <1>1, <1>2, <1>3
  <2> QED
    BY <1>1, <2>1, SubSeqFull
<1>9. ASSUME ~(l <= room)
      PROVE  Cut(t) /\ Len(t) \in Nat /\ Len(r) + Len(t) = Size
  <2>1. n = room /\ n < l
    BY <1>1, <1>2, <1>3, <1>9
  <2> HIDE DEF n, f, t, l, room
  <2>2. \A i \in 1..n : t[i] # End
    <3>1. \A i \in 1..n : i \in 1..l - 1
      BY <1>1, <1>5, <2>1
    <3> QED
      BY <1>1, <1>6, <3>1
  <2>3. Ends(t) = {}
    <3>1. DOMAIN t = 1..n
      BY <1>6
    <3> QED
      BY <2>2, <3>1 DEF Ends
  <2>4. t # <<>> => t[1] = Begin
    <3>1. t # <<>> => 1 \in 1..n
      BY <1>5, <1>6
    <3> QED
      BY <1>1, <1>6, <3>1
  <2> QED
    BY <1>2, <1>5, <1>6, <2>1, <2>3, <2>4 DEF Cut
<1> HIDE DEF n, t, room, l
<1>10. Puts(r, m).ok \in BOOLEAN /\ (Puts(r, m).ok <=> l <= room)
  <2> DEFINE ok == Puts(r, m).ok
             c == l <= room
  <2>1. ok = c
    BY <1>4
  <2>2. c \in BOOLEAN
    OBVIOUS
  <2> HIDE DEF ok, c
  <2>3. ok \in BOOLEAN /\ (ok <=> c)
    BY <2>1, <2>2, Zenon
  <2> QED
    BY <2>3 DEF ok, c
<1> QED
  BY <1>4, <1>7, <1>8, <1>9, <1>10 DEF l

(* QUEUE_Puts adds the message, or leaves the messages as they are.        *)
LEMMA PutsWhole ==
  ASSUME NEW r, Sound(r), Len(r) <= Size, NEW m \in Messages
  PROVE  /\ Sound(Puts(r, m).rb) /\ Len(Puts(r, m).rb) <= Size
         /\ Puts(r, m).ok => Whole(Puts(r, m).rb) = Append(Whole(r), m)
         /\ ~Puts(r, m).ok => /\ Len(Puts(r, m).rb) = Size
                              /\ Ends(Puts(r, m).rb) = Ends(r)
                              /\ Whole(Puts(r, m).rb) = Whole(r)
<1> DEFINE u == Puts(r, m).rb
           ok == Puts(r, m).ok
<1>1. r \in Seq(Byte) /\ Whole(r) \in Seq(Messages)
  BY WholeType DEF Sound
<1>2. CASE ok
  <2>1. u = r \o Frame[m] /\ Len(r) + Len(Frame[m]) <= Size
    BY <1>2, PutsAdds
  <2>2. Sound(Frame[m]) /\ Whole(Frame[m]) = <<m>> /\ Frame[m] \in Seq(Byte)
    BY FrameSound, FrameShape
  <2>3. Len(r \o Frame[m]) = Len(r) + Len(Frame[m])
    BY <1>1, <2>2
  <2>4. Whole(r \o Frame[m]) = Whole(r) \o <<m>>
    BY <2>2, ConcatWhole
  <2>5. Whole(r) \o <<m>> = Append(Whole(r), m)
    BY <1>1, AppendIsConcat
  <2>6. Sound(r \o Frame[m])
    BY <2>2, ConcatSound
  <2> QED
    BY <1>2, <2>1, <2>3, <2>4, <2>5, <2>6
<1>3. CASE ~ok
  <2>1. PICK t : Cut(t) /\ Len(t) \in Nat /\ Len(r) + Len(t) = Size /\ u = r \o t
    BY <1>3, PutsAdds
  <2>2. Sound(t) /\ Whole(t) = <<>> /\ t \in Seq(Byte) /\ Ends(t) = {}
    BY <2>1, CutSound DEF Cut
  <2>3. Len(r \o t) = Len(r) + Len(t)
    BY <1>1, <2>2
  <2>4. Whole(r \o t) = Whole(r) \o <<>>
    BY <2>2, ConcatWhole
  <2>5. Whole(r) \o <<>> = Whole(r)
    BY <1>1, ConcatEmptySeq
  <2>6. Sound(r \o t)
    BY <2>2, ConcatSound
  <2>7. Ends(r \o t) = Ends(r)
    <3>1. Ends(r \o t) = Ends(r) \cup {Len(r) + i : i \in Ends(t)}
      BY <1>1, <2>2, ConcatEnds
    <3> QED
      BY <2>2, <3>1
  <2>8. Len(u) = Size /\ Size <= Size
    BY <2>1, <2>3, SizesAssumption
  <2> HIDE DEF u
  <2> QED
    BY <1>3, <2>1, <2>4, <2>5, <2>6, <2>7, <2>8 DEF u
<1> QED
  BY <1>2, <1>3, PutsAdds

(* QUEUE_Gets empties a ring that has no End.                              *)
LEMMA GetsEmpties ==
  ASSUME NEW r, Ends(r) = {}, NEW begun \in BOOLEAN
  PROVE  Gets(r, begun).rb = <<>> /\ Gets(r, begun).ok = FALSE
BY DEF Gets

(* The message taken off the ring is the oldest, and the others remain.    *)
LEMMA GetsOldest ==
  ASSUME NEW r, Sound(r), Ends(r) # {}, NEW begun \in BOOLEAN
  PROVE  /\ Gets(r, begun).ok = TRUE
         /\ Min(Ends(r)) \in Ends(r) /\ \A e \in Ends(r) : Min(Ends(r)) <= e
         /\ Gets(r, begun).rb = SubSeq(r, Min(Ends(r)) + 1, Len(r))
         /\ Sound(Gets(r, begun).rb)
         /\ Len(Gets(r, begun).rb) = Len(r) - Min(Ends(r))
         /\ Min(Ends(r)) >= 3
         /\ Gets(r, begun).msg \in Messages
         /\ Whole(r) = <<Gets(r, begun).msg>> \o Whole(Gets(r, begun).rb)
<1> DEFINE a == Min(Ends(r))
           s == SubSeq(r, 1, a)
           t == SubSeq(r, a + 1, Len(r))
           m == Gets(r, begun).msg
<1>1. a \in Ends(r) /\ \A e \in Ends(r) : a <= e
  <2>1. Ends(r) \in SUBSET Nat
    BY SoundEnds
  <2> QED
    BY <2>1, MinIsLeast
<1>2. /\ Gets(r, begun).ok = TRUE /\ Gets(r, begun).rb = t
      /\ m = ParserAt(r, begun)[a - 1].data
  BY DEF Gets
<1>3. r \in Seq(Byte) /\ Len(r) \in Nat /\ a \in 1..Len(r) /\ EndingAt(r, a) # {}
  BY <1>1, SoundEnds DEF Sound
<1> HIDE DEF a, m
<1>4. Sound(s) /\ Sound(t) /\ r = s \o t /\ Len(s) = a /\ Len(t) = Len(r) - a
  BY <1>1, SplitAt
<1> HIDE DEF s, t
<1>5. m \in EndingAt(r, a)
  <2>1. PICK x \in EndingAt(r, a) : TRUE
    BY <1>3
  <2>2. ParserAt(r, begun)[a - 1].data = x
    BY <1>3, ParsesFrame
  <2> QED
    BY <1>2, <2>2
<1>6. EndingAt(r, a) = EndingAt(s, a)
  <2>1. s \in Seq(Byte) /\ t \in Seq(Byte) /\ a \in 1..Len(s)
    BY <1>3, <1>4 DEF Sound
  <2> QED
    BY <1>4, <2>1, EndingInFirst
<1>7. Ends(s) = {Len(s)}
  <2>1. \A e \in Ends(s) : e \in Ends(r) /\ e \in 1..a
    BY <1>4, SoundEnds, ConcatEnds
  <2>2. \A e \in Ends(s) : e = a
    BY <1>1, <1>3, <2>1
  <2>3. s[a] = End
    <3>1. s \in Seq(Byte) /\ t \in Seq(Byte) /\ a \in 1..Len(s)
      BY <1>3, <1>4 DEF Sound
    <3>2. r[a] = End
      BY <1>1, SoundEnds
    <3>3. (s \o t)[a] = s[a]
      BY <3>1, ConcatParts
    <3> QED
      BY <1>4, <3>3, <3>2
  <2>4. a \in Ends(s)
    BY <1>3, <1>4, <2>3, SoundEnds
  <2> QED
    BY <1>4, <2>2, <2>4
<1>8. Whole(s) = <<m>>
  BY <1>4, <1>5, <1>6, <1>7, OneEndOneMessage
<1>9. Whole(r) = <<m>> \o Whole(t)
  BY <1>4, <1>8, ConcatWhole
<1>10. m \in Messages /\ a >= 3
  <2>1. m \in Messages /\ Len(Frame[m]) <= a
    BY <1>5 DEF EndingAt
  <2>2. Len(Frame[m]) \in Nat /\ Len(Frame[m]) >= 3
    BY <2>1, FrameShape
  <2> QED
    BY <1>3, <2>1, <2>2
<1> QED
  BY <1>1, <1>2, <1>4, <1>9, <1>10 DEF a, t, m

-----------------------------------------------------------------------------
(* How many messages there is room for.                                    *)

LEMMA EmptySound == Sound(<<>>) /\ Whole(<<>>) = <<>> /\ Len(<<>>) = 0
<1>1. Cut(<<>>)
  BY DEF Cut, Ends
<1> QED
  BY <1>1, CutSound

(* A frame takes three bytes at least.                                     *)
LEMMA WholeFits ==
  ASSUME NEW r, Sound(r)
  PROVE  3 * Len(Whole(r)) <= Len(r)
<1> DEFINE Fits(x) == 3 * Len(Whole(x)) <= Len(x)
           X == {k \in 0..Len(r) : \A x \in Seq(Byte) : Sound(x) /\ Len(x) <= k => Fits(x)}
<1>1. r \in Seq(Byte) /\ Len(r) \in Nat
  BY SoundEnds
<1>2. ASSUME NEW x \in Seq(Byte), Sound(x), Ends(x) = {}
      PROVE  Fits(x)
  <2>1. Whole(x) = <<>> /\ Len(x) \in Nat
    BY <1>2, CutSound, SoundEnds DEF Cut, Sound
  <2> QED
    BY <2>1
<1>3. 0 \in X
  <2>1. ASSUME NEW x \in Seq(Byte), Sound(x), Len(x) <= 0
        PROVE  Fits(x)
    <3>1. Ends(x) = {}
      BY <2>1 DEF Ends
    <3> HIDE DEF Fits
    <3> QED
      BY <1>2, <2>1, <3>1
  <2> HIDE DEF Fits
  <2> QED
    BY <1>1, <2>1
<1>4. ASSUME NEW k \in 0..Len(r)-1, k \in X
      PROVE  k + 1 \in X
  <2>1. ASSUME NEW x \in Seq(Byte), Sound(x), Len(x) <= k + 1
        PROVE  Fits(x)
    <3>1. CASE Ends(x) # {}
      <4> DEFINE g == Gets(x, FALSE)
                 a == Min(Ends(x))
      <4>1. /\ Sound(g.rb) /\ Len(g.rb) = Len(x) - a /\ a >= 3 /\ a \in Ends(x)
            /\ Whole(x) = <<g.msg>> \o Whole(g.rb) /\ g.msg \in Messages
        BY <2>1, <3>1, GetsOldest
      <4>2. Len(x) \in Nat /\ a \in Nat
        BY <2>1, <4>1, SoundEnds
      <4> HIDE DEF g, a
      <4>3. g.rb \in Seq(Byte) /\ Len(g.rb) <= k
        BY <1>1, <2>1, <4>1, <4>2, SoundEnds
      <4>4. Fits(g.rb)
        <5> HIDE DEF Fits
        <5> QED
          BY <1>4, <4>1, <4>3
      <4>5. Whole(g.rb) \in Seq(Messages) /\ Len(Whole(g.rb)) \in Nat
        BY <4>1, WholeType
      <4>6. Len(Whole(x)) = 1 + Len(Whole(g.rb))
        <5>1. <<g.msg>> \in Seq(Messages) /\ Len(<<g.msg>>) = 1
          BY <4>1
        <5> QED
          BY <4>1, <4>5, <5>1, ConcatProperties
      <4> QED
        BY <4>1, <4>2, <4>4, <4>5, <4>6
    <3> HIDE DEF Fits
    <3> QED
      BY <1>2, <2>1, <3>1
  <2>2. k + 1 \in 0..Len(r)
    BY <1>1
  <2> HIDE DEF Fits
  <2> QED
    BY <2>1, <2>2
<1> HIDE DEF X
<1>5. \A k \in 0..Len(r) : k \in X
  BY <1>1, <1>3, <1>4, Induction
<1>6. Len(r) \in X
  BY <1>1, <1>5
<1> QED
  BY <1>1, <1>6 DEF X

Capacity == Size \div 3

(* The capacity that MsgFifo is given is kept.                             *)
LEMMA WithinCapacity ==
  ASSUME NEW r, Sound(r), Len(r) <= Size
  PROVE  Len(Whole(r)) <= Capacity
<1> DEFINE n == Len(Whole(r))
           l == Len(r)
<1>1. 3 * n <= l /\ n \in Nat /\ l \in Nat /\ l <= Size /\ Size \in Nat
  BY WholeFits, WholeType, SoundEnds, SizesAssumption
<1> HIDE DEF n, l
<1>2. n <= Size \div 3
  BY <1>1
<1> QED
  BY <1>2 DEF n, Capacity

-----------------------------------------------------------------------------
(* What is left of the ring behind an End.                                 *)
Suffix(r, e) == SubSeq(r, e + 1, Len(r))

(* It is sound, and its messages are the newest ones of the ring.          *)
LEMMA SuffixSound ==
  ASSUME NEW r, Sound(r), NEW e \in Ends(r) \cup {0}
  PROVE  /\ e \in 0..Len(r) /\ Len(r) \in Nat
         /\ Sound(Suffix(r, e)) /\ Len(Suffix(r, e)) = Len(r) - e
         /\ \A x \in Nat : x \in Ends(Suffix(r, e)) <=> x >= 1 /\ e + x \in Ends(r)
         /\ \E n \in 0..Len(Whole(r)) :
              Whole(Suffix(r, e)) = SubSeq(Whole(r), n + 1, Len(Whole(r)))
<1>1. /\ r \in Seq(Byte) /\ Len(r) \in Nat /\ Ends(r) \subseteq 1..Len(r)
      /\ Whole(r) \in Seq(Messages) /\ Len(Whole(r)) \in Nat
  BY SoundEnds, WholeType
<1>2. CASE e = 0
  <2>1. Suffix(r, e) = r
    BY <1>1, <1>2, SubSeqFull DEF Suffix
  <2>2. Whole(r) = SubSeq(Whole(r), 1, Len(Whole(r)))
    BY <1>1, SubSeqFull
  <2>3. 0 \in 0..Len(Whole(r)) /\ 0 + 1 = 1
    BY <1>1
  <2>4. \A x \in Nat : x \in Ends(r) <=> x >= 1 /\ e + x \in Ends(r)
    BY <1>1, <1>2
  <2>5. e \in 0..Len(r) /\ Len(r) = Len(r) - e
    BY <1>1, <1>2
  <2> QED
    BY <1>1, <2>1, <2>2, <2>3, <2>4, <2>5
<1>3. CASE e \in Ends(r)
  <2> DEFINE s == SubSeq(r, 1, e)
             t == Suffix(r, e)
             n == Len(Whole(s))
  <2>1. /\ Sound(s) /\ Sound(t) /\ r = s \o t /\ Len(s) = e /\ Len(t) = Len(r) - e
        /\ e \in 1..Len(r)
    BY <1>3, SplitAt DEF Suffix
  <2> HIDE DEF s, t
  <2>2. s \in Seq(Byte) /\ t \in Seq(Byte) /\ Ends(s) \subseteq 1..e /\ Ends(t) \subseteq 1..Len(t)
    BY <2>1, SoundEnds
  <2>3. Ends(r) = Ends(s) \cup {e + i : i \in Ends(t)}
    <3>1. Ends(s \o t) = Ends(s) \cup {Len(s) + i : i \in Ends(t)}
      BY <2>2, ConcatEnds
    <3> QED
      BY <2>1, <3>1
  <2>4. ASSUME NEW x \in Nat
        PROVE  x \in Ends(t) <=> x >= 1 /\ e + x \in Ends(r)
    <3>1. x >= 1 => e + x \notin Ends(s)
      BY <1>1, <2>1, <2>2
    <3>2. \A i \in Ends(t) : e + x = e + i => x = i
      BY <1>1, <2>1, <2>2
    <3>3. x \in Ends(t) => x >= 1
      BY <2>2
    <3> QED
      BY <2>3, <3>1, <3>2, <3>3
  <2>5. /\ Whole(s) \in Seq(Messages) /\ Whole(t) \in Seq(Messages)
        /\ n \in Nat /\ Len(Whole(t)) \in Nat /\ Whole(r) = Whole(s) \o Whole(t)
    BY <2>1, WholeType, ConcatWhole
  <2>6. n \in 0..Len(Whole(r)) /\ Whole(t) = SubSeq(Whole(r), n + 1, Len(Whole(r)))
    <3> DEFINE a == Whole(s)
               b == Whole(t)
    <3>1. a \in Seq(Messages) /\ b \in Seq(Messages) /\ Whole(r) = a \o b
      BY <2>5
    <3> HIDE DEF a, b
    <3>2. Len(a) \in 0..Len(a \o b) /\ b = SubSeq(a \o b, Len(a) + 1, Len(a \o b))
      BY <3>1
    <3> QED
      BY <3>1, <3>2 DEF a, b
  <2>7. e \in 0..Len(r)
    BY <2>1
  <2> HIDE DEF n
  <2> QED
    BY <1>1, <2>1, <2>4, <2>6, <2>7 DEF t
<1> QED
  BY <1>2, <1>3

(* Taking a message off what is left leaves what is behind an End.         *)
LEMMA SuffixOfSuffix ==
  ASSUME NEW r \in Seq(Byte), NEW e \in 0..Len(r), NEW t \in Seq(Byte),
         NEW a \in 0..Len(r) - e
  PROVE  LET u == Suffix(r, e) \o t
         IN  SubSeq(u, a + 1, Len(u)) = Suffix(r, e + a) \o t
<1> DEFINE s == Suffix(r, e)
           u == s \o t
           v == SubSeq(u, a + 1, Len(u))
           w == Suffix(r, e + a)
<1>1. /\ s \in Seq(Byte) /\ Len(s) = Len(r) - e
      /\ \A i \in 1..Len(r) - e : s[i] = r[e + i]
  BY DEF Suffix
<1>2. /\ w \in Seq(Byte) /\ Len(w) = Len(r) - (e + a)
      /\ \A i \in 1..Len(r) - (e + a) : w[i] = r[(e + a) + i]
  BY DEF Suffix
<1> HIDE DEF s, w
<1>3. s \in Seq(Byte) /\ w \in Seq(Byte)
  BY <1>1, <1>2
<1>4. /\ u \in Seq(Byte) /\ Len(u) = Len(s) + Len(t)
      /\ Len(s) \in Nat /\ Len(t) \in Nat
      /\ \A i \in 1..Len(s) : u[i] = s[i]
      /\ \A i \in 1..Len(t) : u[Len(s) + i] = t[i]
  BY <1>3, ConcatParts
<1>5. /\ w \o t \in Seq(Byte) /\ Len(w \o t) = Len(w) + Len(t) /\ Len(w) \in Nat
      /\ \A i \in 1..Len(w) : (w \o t)[i] = w[i]
      /\ \A i \in 1..Len(t) : (w \o t)[Len(w) + i] = t[i]
  BY <1>3, ConcatParts
<1> HIDE DEF u
<1>6. v \in Seq(Byte) /\ Len(v) = Len(u) - a /\ \A i \in 1..Len(u) - a : v[i] = u[a + i]
  <2>1. u \in Seq(Byte) /\ Len(u) \in Nat /\ a \in Nat /\ a <= Len(u)
    BY <1>1, <1>4
  <2> QED
    BY <2>1
<1> HIDE DEF v
<1>7. Len(r) \in Nat /\ e \in Nat /\ a \in Nat /\ Len(w) + a = Len(s) /\ Len(v) = Len(w \o t)
  BY <1>1, <1>2, <1>4, <1>5, <1>6
<1>8. ASSUME NEW i \in 1..Len(w) + Len(t)
      PROVE  v[i] = (w \o t)[i]
  <2>1. v[i] = u[a + i]
    BY <1>4, <1>5, <1>6, <1>7
  <2>2. CASE i \in 1..Len(w)
    <3>1. a + i \in 1..Len(s) /\ a + i \in 1..Len(r) - e /\ i \in 1..Len(r) - (e + a)
      BY <1>1, <1>2, <1>5, <1>7, <2>2
    <3>2. v[i] = r[e + (a + i)] /\ w[i] = r[(e + a) + i]
      BY <1>1, <1>2, <1>4, <2>1, <3>1
    <3>3. e + (a + i) = (e + a) + i
      BY <1>7
    <3> QED
      BY <1>5, <2>2, <3>2, <3>3
  <2>3. ASSUME NEW j \in 1..Len(t), i = Len(w) + j
        PROVE  v[i] = (w \o t)[i]
    <3>1. a + i = Len(s) + j
      <4> DEFINE p == Len(w)
                 q == Len(s)
      <4>1. p \in Nat /\ q \in Nat /\ a \in Nat /\ j \in Nat /\ p + a = q /\ i = p + j
        BY <1>4, <1>5, <1>7, <2>3
      <4> HIDE DEF p, q
      <4>2. a + i = q + j
        BY <4>1
      <4> QED
        BY <4>2 DEF q
    <3> QED
      BY <1>4, <1>5, <2>1, <2>3, <3>1
  <2> QED
    BY <1>4, <1>5, <2>2, <2>3, Positions
<1>9. v = w \o t
  BY <1>5, <1>6, <1>7, <1>8, SeqEqual
<1> QED
  BY <1>9 DEF u, v, w, s

-----------------------------------------------------------------------------
(* The rounds in which messages are dropped.                               *)
Rings == {x \in Seq(Byte) : Sound(x) /\ Len(x) <= Size}

(* A round keeps the ring sound and within its size.                       *)
LEMMA DropIsSound ==
  ASSUME NEW x \in Rings, NEW m \in Messages
  PROVE  Gets(Puts(x, m).rb, FALSE).rb \in Rings
<1> DEFINE u == Puts(x, m).rb
           g == Gets(u, FALSE).rb
<1>1. Sound(u) /\ Len(u) <= Size
  BY PutsWhole DEF Rings
<1>2. Len(u) \in Nat /\ Size \in Nat
  BY <1>1, SoundEnds, SizesAssumption
<1> HIDE DEF u
<1>3. CASE Ends(u) = {}
  <2>1. g = <<>>
    BY <1>3, GetsEmpties
  <2>2. Sound(<<>>) /\ <<>> \in Seq(Byte) /\ Len(<<>>) <= Size
    BY <1>2, EmptySound
  <2> QED
    BY <2>1, <2>2 DEF Rings, g, u
<1>4. CASE Ends(u) # {}
  <2> DEFINE a == Min(Ends(u))
  <2>1. Sound(g) /\ Len(g) = Len(u) - a /\ a \in Ends(u)
    BY <1>1, <1>4, GetsOldest
  <2> HIDE DEF g, a
  <2>2. a \in Nat /\ g \in Seq(Byte)
    BY <1>1, <2>1, SoundEnds
  <2>3. Len(g) <= Size
    BY <1>1, <1>2, <2>1, <2>2
  <2> QED
    BY <2>1, <2>2, <2>3 DEF Rings, g, u
<1> QED
  BY <1>3, <1>4 DEF u

(* The recursive definition of AfterDrops, step by step.                   *)
LEMMA AfterDropsStep ==
  ASSUME NEW r \in Rings, NEW m \in Messages
  PROVE  /\ AfterDrops(r, m) \in [0..Len(r) -> Rings]
         /\ AfterDrops(r, m)[0] = r
         /\ \A k \in 0..Len(r)-1 :
              AfterDrops(r, m)[k + 1] = Gets(Puts(AfterDrops(r, m)[k], m).rb, FALSE).rb
<1> DEFINE drop(x) == Gets(Puts(x, m).rb, FALSE).rb
           step == [p \in Rings \X (1..Len(r)) |-> drop(p[1])]
           A == AfterDrops(r, m)
<1>1. Len(r) \in Nat
  BY DEF Rings
<1>2. \A x \in Rings : drop(x) \in Rings
  BY DropIsSound
<1>3. A = CHOOSE f : f = [k \in 0..Len(r) |-> IF k = 0 THEN r ELSE drop(f[k - 1])]
  BY DEF AfterDrops
<1> HIDE DEF drop, A
<1>4. step \in [Rings \X (1..Len(r)) -> Rings]
  BY <1>2
<1>5. PICK f \in [0..Len(r) -> Rings] : Recursive(f, Len(r), r, step)
  <2> HIDE DEF step
  <2> QED
    BY <1>1, <1>4, RecursionExists
<1>6. f = [k \in 0..Len(r) |-> IF k = 0 THEN r ELSE drop(f[k - 1])]
  <2>1. ASSUME NEW k \in 1..Len(r)
        PROVE  f[k] = drop(f[k - 1])
    <3>1. k - 1 \in 0..Len(r) /\ f[k - 1] \in Rings
      BY <1>1
    <3>2. f[k] = step[<<f[k - 1], k>>]
      BY <1>5 DEF Recursive
    <3> QED
      BY <3>1, <3>2
  <2>2. f[0] = r /\ f \in [0..Len(r) -> Rings]
    BY <1>5 DEF Recursive
  <2>3. ASSUME NEW k \in 0..Len(r)
        PROVE  f[k] = IF k = 0 THEN r ELSE drop(f[k - 1])
    <3>1. k = 0 \/ k \in 1..Len(r)
      BY <1>1
    <3> QED
      BY <2>1, <2>2, <3>1, Zenon
  <2> QED
    BY <2>2, <2>3
<1>7. A = [k \in 0..Len(r) |-> IF k = 0 THEN r ELSE drop(A[k - 1])]
  BY <1>3, <1>6
<1> HIDE DEF step
<1>8. A[0] = r /\ DOMAIN A = 0..Len(r)
  BY <1>1, <1>7
<1>9. ASSUME NEW k \in 0..Len(r)-1
      PROVE  A[k + 1] = drop(A[k])
  <2>1. k + 1 \in 0..Len(r) /\ k + 1 # 0 /\ (k + 1) - 1 = k
    BY <1>1
  <2> QED
    BY <1>7, <2>1, Zenon
<1> DEFINE X == {k \in 0..Len(r) : A[k] \in Rings}
<1>10. 0 \in X
  BY <1>1, <1>8
<1>11. ASSUME NEW k \in 0..Len(r)-1, k \in X
       PROVE  k + 1 \in X
  <2>1. k + 1 \in 0..Len(r)
    BY <1>1
  <2>2. A[k + 1] \in Rings
    BY <1>2, <1>9, <1>11
  <2> QED
    BY <2>1, <2>2
<1> HIDE DEF X
<1>12. \A k \in 0..Len(r) : k \in X
  BY <1>1, <1>10, <1>11, Induction
<1>13. A \in [0..Len(r) -> Rings]
  BY <1>7, <1>12 DEF X
<1> QED
  BY <1>8, <1>9, <1>13 DEF A, drop

(* The Ends behind which there is room for a frame of that length when the *)
(* message before them has been dropped from a full ring.                  *)
AsLong(r, need) == {e \in Ends(r) : \A i \in Ends(r) \cup {0} : i < e => i <= e - need}

(* What the ring is, put and not done with, after some rounds: what was    *)
(* behind an End, all of them up to it too short, and a frame cut short.   *)
Dropped(r, need, x, e, j) ==
  /\ e \in Ends(r) \cup {0} /\ Cut(j) /\ x = Suffix(r, e) \o j
  /\ \A y \in AsLong(r, need) : e <= y
  /\ e = 0 => x = r
  /\ e # 0 => (Len(x) + need <= Size <=> e \in AsLong(r, need))

(* One more round.                                                         *)
LEMMA DropsOn ==
  ASSUME NEW r, Sound(r), NEW m \in Messages, NEW x \in Rings, NEW e, NEW j,
         Dropped(r, Len(Frame[m]), x, e, j),
         ~Puts(x, m).ok, Ends(Puts(x, m).rb) # {}
  PROVE  \E d, c : Dropped(r, Len(Frame[m]), Gets(Puts(x, m).rb, FALSE).rb, d, c) /\ d > e /\ d \in Nat
<1> DEFINE need == Len(Frame[m])
           u == Puts(x, m).rb
           s == Suffix(r, e)
           a == Min(Ends(u))
           g == Gets(u, FALSE).rb
<1>1. e \in Ends(r) \cup {0} /\ Cut(j) /\ x = s \o j
  BY DEF Dropped
<1>2. /\ r \in Seq(Byte) /\ e \in 0..Len(r) /\ Len(r) \in Nat /\ Sound(s) /\ Len(s) = Len(r) - e
      /\ \A y \in Nat : y \in Ends(s) <=> y >= 1 /\ e + y \in Ends(r)
  BY <1>1, SuffixSound DEF Sound
<1>3. PICK t : Cut(t) /\ u = x \o t
  BY PutsAdds DEF Rings
<1>4. Sound(u) /\ Len(u) = Size /\ Ends(u) = Ends(x) /\ ~(Len(x) + need <= Size)
  BY PutsWhole, PutsAdds DEF Rings
<1>5. s \in Seq(Byte) /\ j \in Seq(Byte) /\ t \in Seq(Byte) /\ Ends(j) = {} /\ Ends(t) = {}
  BY <1>1, <1>2, <1>3 DEF Sound, Cut
<1>6. Ends(x) = Ends(s)
  <2>1. Ends(s \o j) = Ends(s) \cup {Len(s) + i : i \in Ends(j)}
    BY <1>5, ConcatEnds
  <2> QED
    BY <1>1, <1>5, <2>1
<1>7. a \in Ends(u) /\ (\A y \in Ends(u) : a <= y) /\ g = SubSeq(u, a + 1, Len(u)) /\ Len(g) = Size - a
  BY <1>4, GetsOldest
<1>8. a \in 1..Len(s) /\ a \in Nat /\ e + a \in Ends(r)
  <2>1. a \in Ends(s)
    BY <1>4, <1>6, <1>7
  <2>2. a \in 1..Len(s)
    BY <1>2, <2>1, SoundEnds
  <2> QED
    BY <1>2, <2>1, <2>2
<1> HIDE DEF u, a, g, need, s
<1>9. Cut(j \o t)
  <2>1. Ends(j \o t) = Ends(j) \cup {Len(j) + i : i \in Ends(t)}
    BY <1>5, ConcatEnds
  <2>2. Ends(j \o t) = {}
    BY <1>5, <2>1
  <2>3. Sound(j) /\ Sound(t)
    BY <1>1, <1>3, CutSound
  <2>4. Sound(j \o t)
    BY <2>3, ConcatSound
  <2> QED
    BY <2>2, <2>4 DEF Cut, Sound
<1>10. g = Suffix(r, e + a) \o (j \o t)
  <2>1. u = s \o (j \o t)
    BY <1>1, <1>3, <1>5, ConcatAssociative
  <2>2. j \o t \in Seq(Byte) /\ a \in 0..Len(r) - e
    BY <1>2, <1>8, <1>9 DEF Cut
  <2> DEFINE c == j \o t
  <2>3. c \in Seq(Byte) /\ u = Suffix(r, e) \o c
    BY <2>1, <2>2 DEF s
  <2> HIDE DEF c
  <2>4. SubSeq(Suffix(r, e) \o c, a + 1, Len(Suffix(r, e) \o c)) = Suffix(r, e + a) \o c
    BY <1>2, <2>2, <2>3, SuffixOfSuffix
  <2> QED
    BY <1>7, <2>3, <2>4 DEF c
<1>11. /\ need \in Nat /\ Size \in Nat /\ Ends(r) \in SUBSET Nat
       /\ \A y \in AsLong(r, need) : y \in Nat /\ y \in Ends(r)
  <2>1. Ends(r) \in SUBSET Nat
    BY SoundEnds
  <2> QED
    BY <2>1, FrameShape, SizesAssumption DEF need, AsLong
<1>12. \A y \in Ends(r) : y > e => e + a <= y
  <2> SUFFICES ASSUME NEW y \in Ends(r), y > e
               PROVE  e + a <= y
    OBVIOUS
  <2>1. y - e \in Nat /\ y - e >= 1 /\ e + (y - e) = y
    BY <1>2, <1>11
  <2>2. y - e \in Ends(u)
    BY <1>2, <1>4, <1>6, <2>1
  <2>3. a <= y - e
    BY <1>7, <2>2
  <2> QED
    BY <1>2, <1>8, <1>11, <2>1, <2>3
<1>13. e \notin AsLong(r, need)
  <2>1. CASE e = 0
    <3>1. 0 \notin Ends(r)
      BY SoundEnds
    <3> QED
      BY <2>1, <3>1 DEF AsLong
  <2>2. CASE e # 0
    BY <1>4, <2>2 DEF Dropped, need
  <2> QED
    BY <2>1, <2>2
<1>14. \A y \in AsLong(r, need) : e + a <= y
  <2> SUFFICES ASSUME NEW y \in AsLong(r, need)
               PROVE  e + a <= y
    OBVIOUS
  <2>1. e <= y /\ e # y
    BY <1>13 DEF Dropped, need
  <2>2. y > e
    BY <1>2, <1>11, <2>1
  <2> QED
    BY <1>11, <1>12, <2>2
<1>15. need <= a <=> e + a \in AsLong(r, need)
  <2>1. ASSUME need <= a
        PROVE  e + a \in AsLong(r, need)
    <3> SUFFICES ASSUME NEW i \in Ends(r) \cup {0}, i < e + a
                 PROVE  i <= (e + a) - need
      BY <1>8 DEF AsLong
    <3>1. i \in Nat /\ ~(e + a <= i)
      BY <1>2, <1>8, <1>11
    <3>2. i <= e
      BY <1>2, <1>11, <1>12, <3>1
    <3> QED
      BY <1>2, <1>8, <1>11, <2>1, <3>1, <3>2
  <2>2. ASSUME e + a \in AsLong(r, need)
        PROVE  need <= a
    <3>1. e < e + a
      BY <1>2, <1>8
    <3>2. e <= (e + a) - need
      BY <1>1, <2>2, <3>1 DEF AsLong
    <3> QED
      BY <1>2, <1>8, <1>11, <3>2
  <2> QED
    BY <2>1, <2>2
<1>16. Len(g) + need <= Size <=> e + a \in AsLong(r, need)
  <2>1. Len(g) + need <= Size <=> need <= a
    BY <1>7, <1>8, <1>11
  <2> QED
    BY <1>15, <2>1
<1>17. e + a # 0 /\ e + a > e /\ e + a \in Nat
  BY <1>2, <1>8
<1>18. Dropped(r, need, g, e + a, j \o t)
  BY <1>8, <1>9, <1>10, <1>14, <1>16, <1>17 DEF Dropped
<1> QED
  BY <1>17, <1>18 DEF g, u, need

(* The first round that is done with: the message has gone in, or there is *)
(* nothing left to drop.                                                   *)
LEMMA LastRound ==
  ASSUME NEW r \in Rings, NEW m \in Messages
  PROVE  \E x \in Rings : \E e, j :
           /\ Dropped(r, Len(Frame[m]), x, e, j)
           /\ x = r \/ ~Puts(r, m).ok
           /\ Puts(x, m).ok \/ Ends(Puts(x, m).rb) = {}
           /\ PutsOrDrops(r, m) = IF Puts(x, m).ok THEN Puts(x, m) ELSE [ok |-> FALSE, rb |-> <<>>]
<1> DEFINE need == Len(Frame[m])
           A == AfterDrops(r, m)
           put == [k \in 0..Len(r) |-> Puts(A[k], m)]
           Done(i) == put[i].ok \/ Ends(put[i].rb) = {}
           D == {i \in 0..Len(r) : Done(i)}
           k == Min(D)
           At(n) == \E e, j : Dropped(r, need, A[n], e, j) /\ e >= n /\ e \in Nat
           X == {n \in 0..Len(r) : (\A i \in D : ~(i < n)) => At(n)}
<1>1. PutsOrDrops(r, m) = IF put[k].ok THEN put[k] ELSE [ok |-> FALSE, rb |-> <<>>]
  BY DEF PutsOrDrops
<1>2. \A n \in 0..Len(r) : put[n] = Puts(A[n], m)
  OBVIOUS
<1>3. r \in Seq(Byte) /\ Sound(r) /\ Len(r) <= Size /\ Len(r) \in Nat
  BY DEF Rings
<1>4. /\ A \in [0..Len(r) -> Rings] /\ A[0] = r
      /\ \A n \in 0..Len(r)-1 : A[n + 1] = Gets(Puts(A[n], m).rb, FALSE).rb
  BY AfterDropsStep
<1> HIDE DEF A, need, put
<1>5. At(0)
  <2>1. Cut(<<>>) /\ Suffix(r, 0) \o <<>> = r
    <3>1. Suffix(r, 0) = r
      BY <1>3, SubSeqFull DEF Suffix
    <3>2. r \o <<>> = r
      BY <1>3, ConcatEmptySeq
    <3> QED
      BY <3>1, <3>2 DEF Cut, Ends
  <2>2. \A y \in AsLong(r, need) : 0 <= y
    BY <1>3, SoundEnds DEF AsLong
  <2>3. Dropped(r, need, A[0], 0, <<>>)
    BY <1>4, <2>1, <2>2 DEF Dropped
  <2> QED
    BY <2>3
<1>6. 0 \in X
  BY <1>3, <1>5
<1>7. ASSUME NEW n \in 0..Len(r)-1, n \in X
      PROVE  n + 1 \in X
  <2>1. n \in 0..Len(r) /\ n + 1 \in 0..Len(r) /\ n < n + 1 /\ n \in Nat
    BY <1>3
  <2>2. ASSUME \A i \in D : ~(i < n + 1)
        PROVE  At(n + 1)
    <3>1. n \notin D /\ \A i \in D : ~(i < n)
      BY <2>1, <2>2
    <3>2. PICK e, j : Dropped(r, need, A[n], e, j) /\ e >= n /\ e \in Nat
      <4> HIDE DEF D
      <4> QED
        BY <1>7, <3>1
    <3>3. ~Puts(A[n], m).ok /\ Ends(Puts(A[n], m).rb) # {} /\ A[n] \in Rings
      BY <1>2, <1>4, <2>1, <3>1
    <3>4. PICK d, c : Dropped(r, need, Gets(Puts(A[n], m).rb, FALSE).rb, d, c) /\ d > e /\ d \in Nat
      <4> DEFINE x == A[n]
      <4>1. x \in Rings /\ ~Puts(x, m).ok /\ Ends(Puts(x, m).rb) # {} /\ Dropped(r, need, x, e, j)
        BY <3>2, <3>3
      <4> HIDE DEF x
      <4>2. \E d, c : Dropped(r, need, Gets(Puts(x, m).rb, FALSE).rb, d, c) /\ d > e /\ d \in Nat
        BY <1>3, <4>1, DropsOn DEF need
      <4> QED
        BY <4>2 DEF x
    <3>5. Dropped(r, need, A[n + 1], d, c)
      BY <1>4, <3>4
    <3>6. d >= n + 1
      BY <2>1, <3>2, <3>4
    <3> QED
      BY <3>4, <3>5, <3>6
  <2> HIDE DEF D, At
  <2> QED
    BY <2>1, <2>2
<1> HIDE DEF X, At
<1>8. \A n \in 0..Len(r) : n \in X
  BY <1>3, <1>6, <1>7, Induction
<1>9. D # {}
  <2> SUFFICES ASSUME D = {}
               PROVE  FALSE
    OBVIOUS
  <2> DEFINE n == Len(r)
             x == A[n]
  <2>1. n \in 0..Len(r) /\ n \in Nat
    BY <1>3
  <2>2. At(n)
    <3> HIDE DEF D
    <3> QED
      BY <1>8, <2>1 DEF X
  <2>3. PICK e, j : Dropped(r, need, x, e, j) /\ e >= n /\ e \in Nat
    BY <2>2 DEF At
  <2>4. ~Puts(x, m).ok /\ Ends(Puts(x, m).rb) # {} /\ x \in Rings
    BY <1>2, <1>4, <2>1
  <2> HIDE DEF x
  <2>5. e \in Ends(r) \cup {0} /\ Cut(j) /\ x = Suffix(r, e) \o j
    BY <2>3 DEF Dropped
  <2>6. e \in 0..Len(r) /\ Sound(Suffix(r, e)) /\ Len(Suffix(r, e)) = Len(r) - e
    BY <1>3, <2>5, SuffixSound
  <2>7. Len(Suffix(r, e)) = 0 /\ Suffix(r, e) \in Seq(Byte)
    BY <1>3, <2>3, <2>6 DEF Sound
  <2>8. Suffix(r, e) = <<>>
    BY <2>7
  <2>9. x = j /\ Ends(x) = {}
    <3>1. j \in Seq(Byte) /\ Ends(j) = {}
      BY <2>5 DEF Cut
    <3>2. <<>> \o j = j
      BY <3>1, ConcatEmptySeq
    <3> QED
      BY <2>5, <2>8, <3>1, <3>2
  <2>10. Ends(Puts(x, m).rb) = Ends(x)
    BY <2>4, PutsWhole DEF Rings
  <2> QED
    BY <2>4, <2>9, <2>10
<1>10. k \in D /\ \A i \in D : k <= i
  <2>1. D \in SUBSET Nat
    BY <1>3
  <2> HIDE DEF D
  <2> QED
    BY <1>9, <2>1, MinIsLeast
<1>11. k \in 0..Len(r) /\ Done(k)
  BY <1>10
<1>12. A[k] \in Rings /\ put[k] = Puts(A[k], m)
  <2> HIDE DEF k
  <2> QED
    BY <1>2, <1>4, <1>11
<1>13. At(k)
  <2>1. \A i \in D : i \in Nat
    BY <1>3
  <2>2. k \in X
    BY <1>8, <1>11
  <2> HIDE DEF D
  <2>3. \A i \in D : k <= i /\ k \in Nat /\ i \in Nat
    BY <1>10, <2>1
  <2> HIDE DEF k
  <2>4. \A i \in D : ~(i < k)
    BY <2>3
  <2> QED
    BY <2>2, <2>4 DEF X
<1>14. A[k] = r \/ ~Puts(r, m).ok
  <2>1. CASE k = 0
    BY <1>4, <2>1
  <2>2. CASE k # 0
    <3>1. 0 \notin D
      <4> HIDE DEF D
      <4>1. k \in Nat
        BY <1>3, <1>11
      <4> HIDE DEF k
      <4> QED
        BY <1>10, <2>2, <4>1
    <3>2. 0 \in 0..Len(r)
      BY <1>3
    <3> HIDE DEF k
    <3>3. ~put[0].ok
      BY <3>1, <3>2
    <3> QED
      BY <1>2, <1>4, <3>2, <3>3
  <2> QED
    BY <2>1, <2>2
<1>15. PICK e, j : Dropped(r, need, A[k], e, j)
  BY <1>13 DEF At
<1> DEFINE x == A[k]
<1>16. /\ x \in Rings /\ Dropped(r, need, x, e, j) /\ (x = r \/ ~Puts(r, m).ok)
       /\ Puts(x, m).ok \/ Ends(Puts(x, m).rb) = {}
       /\ PutsOrDrops(r, m) = IF Puts(x, m).ok THEN Puts(x, m) ELSE [ok |-> FALSE, rb |-> <<>>]
  <2> HIDE DEF k
  <2> QED
    BY <1>1, <1>11, <1>12, <1>14, <1>15
<1> HIDE DEF x
<1> QED
  BY <1>16 DEF need

(* What is in the ring after the message has been put: it, behind what was *)
(* behind an End; or nothing at all.                                       *)
LEMMA PutsOrDropsWhole ==
  ASSUME NEW r \in Rings, NEW m \in Messages
  PROVE  LET need  == Len(Frame[m])
             after == PutsOrDrops(r, m).rb
         IN  /\ after \in Rings
             /\ \/ after = <<>> /\ ~(Len(r) + need <= Size) /\ AsLong(r, need) = {}
                \/ \E e \in Ends(r) \cup {0} :
                     /\ Whole(after) = Append(Whole(Suffix(r, e)), m)
                     /\ IF Len(r) + need <= Size THEN e = 0
                        ELSE e \in AsLong(r, need) /\ \A y \in AsLong(r, need) : e <= y
<1> DEFINE need == Len(Frame[m])
           after == PutsOrDrops(r, m).rb
           L == AsLong(r, need)
<1>1. r \in Seq(Byte) /\ Sound(r) /\ Len(r) <= Size /\ Len(r) \in Nat
  BY DEF Rings
<1>2. PICK x, e, j :
        /\ x \in Rings /\ Dropped(r, need, x, e, j)
        /\ x = r \/ ~Puts(r, m).ok
        /\ Puts(x, m).ok \/ Ends(Puts(x, m).rb) = {}
        /\ PutsOrDrops(r, m) = IF Puts(x, m).ok THEN Puts(x, m) ELSE [ok |-> FALSE, rb |-> <<>>]
  BY LastRound
<1>3. /\ e \in Ends(r) \cup {0} /\ Cut(j) /\ x = Suffix(r, e) \o j
      /\ \A y \in L : e <= y
      /\ e = 0 => x = r
      /\ e # 0 => (Len(x) + need <= Size <=> e \in L)
  BY <1>2 DEF Dropped
<1>4. Sound(x) /\ Len(x) <= Size
  BY <1>2 DEF Rings
<1>5. /\ Puts(x, m).ok <=> Len(x) + need <= Size
      /\ Puts(r, m).ok <=> Len(r) + need <= Size
  BY <1>1, <1>4, PutsAdds
<1>6. /\ e \in 0..Len(r) /\ Sound(Suffix(r, e)) /\ Suffix(r, e) \in Seq(Byte)
      /\ \A y \in Nat : y \in Ends(Suffix(r, e)) <=> y >= 1 /\ e + y \in Ends(r)
  BY <1>1, <1>3, SuffixSound DEF Sound
<1> HIDE DEF need, L
<1>7. CASE Puts(x, m).ok
  <2>1. after = Puts(x, m).rb
    BY <1>2, <1>7
  <2>2. Sound(after) /\ Len(after) <= Size /\ Whole(after) = Append(Whole(x), m)
    BY <1>4, <1>7, <2>1, PutsWhole
  <2>3. after \in Rings
    BY <2>2 DEF Rings, Sound
  <2>4. CASE x = r
    <3>1. Suffix(r, 0) = r
      BY <1>1, SubSeqFull DEF Suffix
    <3>2. Len(r) + need <= Size
      BY <1>5, <1>7, <2>4
    <3>3. Whole(after) = Append(Whole(Suffix(r, 0)), m)
      BY <2>2, <2>4, <3>1
    <3> HIDE DEF after
    <3> QED
      BY <2>3, <3>2, <3>3 DEF after, need
  <2>5. CASE x # r
    <3>1. ~(Len(r) + need <= Size) /\ e \in L /\ \A y \in L : e <= y
      BY <1>2, <1>3, <1>5, <1>7, <2>5
    <3>2. Whole(x) = Whole(Suffix(r, e))
      <4>1. Whole(x) = Whole(Suffix(r, e)) \o Whole(j) /\ Whole(j) = <<>>
        BY <1>3, <1>6, CutSound, ConcatWhole
      <4>2. Whole(Suffix(r, e)) \in Seq(Messages)
        BY <1>6, WholeType
      <4> QED
        BY <4>1, <4>2, ConcatEmptySeq
    <3>3. Whole(after) = Append(Whole(Suffix(r, e)), m)
      BY <2>2, <3>2
    <3> HIDE DEF after
    <3> QED
      BY <1>3, <2>3, <3>1, <3>3 DEF after, need, L
  <2> QED
    BY <2>4, <2>5
<1>8. CASE ~Puts(x, m).ok
  <2>1. after = <<>> /\ Ends(Puts(x, m).rb) = {}
    BY <1>2, <1>8
  <2>2. after \in Rings
    <3>1. Sound(<<>>) /\ Len(<<>>) <= Size
      BY EmptySound, SizesAssumption
    <3> QED
      BY <2>1, <3>1 DEF Rings, Sound
  <2>3. ~(Len(r) + need <= Size) /\ ~(Len(x) + need <= Size)
    BY <1>2, <1>5, <1>8
  <2>4. Ends(Suffix(r, e)) = {}
    <3>1. Ends(x) = {}
      BY <1>4, <1>8, <2>1, PutsWhole
    <3>2. j \in Seq(Byte) /\ Suffix(r, e) \in Seq(Byte)
      BY <1>3, <1>6 DEF Cut
    <3>3. Ends(Suffix(r, e) \o j) = Ends(Suffix(r, e)) \cup {Len(Suffix(r, e)) + i : i \in Ends(j)}
      BY <3>2, ConcatEnds
    <3> QED
      BY <1>3, <3>1, <3>3
  <2>5. L = {}
    <3> SUFFICES ASSUME NEW y \in L
                 PROVE  FALSE
      OBVIOUS
    <3>1. y \in Ends(r) /\ y \in 1..Len(r)
      BY <1>1, SoundEnds DEF L, AsLong
    <3>2. e <= y /\ e # y
      BY <1>3, <2>3, <3>1
    <3>3. y - e \in Nat /\ y - e >= 1 /\ e + (y - e) = y
      BY <1>6, <3>1, <3>2
    <3> QED
      BY <1>6, <2>4, <3>1, <3>3
  <2> HIDE DEF after
  <2> QED
    BY <2>1, <2>2, <2>3, <2>5 DEF after, need, L
<1> QED
  BY <1>7, <1>8

-----------------------------------------------------------------------------
(* The theorems.                                                           *)

(* Between two calls the ring is sound.                                    *)
Inv == rb \in Rings /\ taken \in Messages \cup {<<>>}

(* What MQTT_Task takes, and what it leaves.                               *)
LEMMA SendStep ==
  ASSUME rb \in Rings, Send
  PROVE  /\ rb' \in Rings
         /\ Ends(rb) = {} => Whole(rb) = <<>> /\ rb' = <<>> /\ taken' = taken
         /\ Ends(rb) # {} => taken' \in Messages /\ Whole(rb) = <<taken'>> \o Whole(rb')
<1>1. PICK begun \in BOOLEAN :
        rb' = Gets(rb, begun).rb /\ taken' = IF Gets(rb, begun).ok THEN Gets(rb, begun).msg ELSE taken
  BY DEF Send
<1>2. Sound(rb) /\ Len(rb) <= Size /\ Len(rb) \in Nat /\ Size \in Nat
  BY SoundEnds, SizesAssumption DEF Rings
<1>3. CASE Ends(rb) = {}
  <2>1. rb' = <<>> /\ taken' = taken
    BY <1>1, <1>3, GetsEmpties
  <2>2. Whole(rb) = <<>>
    BY <1>2, <1>3, CutSound DEF Cut, Sound
  <2>3. <<>> \in Rings
    BY <1>2, EmptySound DEF Rings, Sound
  <2> QED
    BY <1>3, <2>1, <2>2, <2>3
<1>4. CASE Ends(rb) # {}
  <2> DEFINE g == Gets(rb, begun)
             a == Min(Ends(rb))
  <2>1. /\ g.ok = TRUE /\ Sound(g.rb) /\ Len(g.rb) = Len(rb) - a /\ a \in Ends(rb)
        /\ g.msg \in Messages /\ Whole(rb) = <<g.msg>> \o Whole(g.rb)
    BY <1>2, <1>4, GetsOldest
  <2> HIDE DEF g, a
  <2>2. a \in Nat /\ g.rb \in Seq(Byte)
    BY <1>2, <2>1, SoundEnds
  <2>3. Len(g.rb) <= Size
    BY <1>2, <2>1, <2>2
  <2>4. rb' = g.rb /\ taken' = g.msg
    BY <1>1, <2>1 DEF g
  <2> QED
    BY <1>4, <2>1, <2>2, <2>3, <2>4 DEF Rings
<1> QED
  BY <1>3, <1>4

LEMMA PutsRings ==
  ASSUME NEW r \in Rings, NEW m \in Messages
  PROVE  Puts(r, m).rb \in Rings
BY PutsWhole DEF Rings, Sound

(* The ring is always sound: whatever is put, dropped and cut short, frames*)
(* begin at its front and behind every End.                                *)
THEOREM QueueInvariant == Spec => []Inv
<1>1. Init => Inv
  BY EmptySound, SizesAssumption DEF Init, Inv, Rings, Sound
<1>2. Inv /\ [Next]_vars => Inv'
  <2> SUFFICES ASSUME Inv, [Next]_vars
               PROVE  Inv'
    OBVIOUS
  <2>1. rb \in Rings /\ taken \in Messages \cup {<<>>}
    BY DEF Inv
  <2>2. CASE Send
    <3>1. rb' \in Rings /\ (taken' = taken \/ taken' \in Messages)
      BY <2>1, <2>2, SendStep
    <3> QED
      BY <2>1, <3>1 DEF Inv
  <2>3. ASSUME NEW m \in Messages, Publish(m)
        PROVE  Inv'
    <3>1. rb' \in Rings
      BY <2>1, <2>3, PutsOrDropsWhole DEF Publish
    <3> QED
      BY <2>1, <2>3, <3>1 DEF Inv, Publish
  <2>4. ASSUME NEW m \in Messages, Answer(m)
        PROVE  Inv'
    <3>1. rb' \in Rings
      BY <2>1, <2>4, PutsRings DEF Answer
    <3> QED
      BY <2>1, <2>4, <3>1 DEF Inv, Answer
  <2>5. CASE UNCHANGED vars
    BY <2>1, <2>5 DEF Inv, vars
  <2> QED
    BY <2>2, <2>3, <2>4, <2>5 DEF Next
<1> QED
  BY <1>1, <1>2, PTL DEF Spec

(* The ring holds bytes and never more than QUEUE_BUFFER_SIZE of them, and *)
(* what MQTT_Task has taken off it is a message that was put in, whatever  *)
(* the parser began with.                                                  *)
THEOREM TypeCorrect == Spec => []TypeOK
<1>1. Inv => TypeOK
  BY DEF Inv, Rings, TypeOK, Byte
<1> QED
  BY <1>1, QueueInvariant, PTL

(* The ring never begins in the middle of a frame.                         *)
THEOREM FrameFirst == Spec => []StartsWithFrame
<1>1. Inv => StartsWithFrame
  <2> SUFFICES ASSUME Inv, rb # <<>>
               PROVE  Head(rb) = Begin
    BY DEF StartsWithFrame
  <2>1. rb \in Seq(Byte) /\ rb[1] = Begin
    BY DEF Inv, Rings, Sound
  <2> QED
    BY <2>1
<1> QED
  BY <1>1, QueueInvariant, PTL

(* What a message costs that does not fit: the oldest ones, up to the first*)
(* that is as long as the new one; all of them if there is none.           *)
THEOREM DropsJustEnough == Spec => []DropsUpToOneAsLong
<1>1. Inv => DropsUpToOneAsLong
  <2> SUFFICES ASSUME Inv, NEW m \in Messages
               PROVE  LET need   == Len(Frame[m])
                          asLong == {e \in Ends(rb) : \A i \in Ends(rb) \cup {0} :
                                                        i < e => i <= e - need}
                          after  == PutsOrDrops(rb, m).rb
                      IN  IF Len(rb) + need <= Size THEN Whole(after) = Append(Whole(rb), m)
                          ELSE IF asLong = {} THEN after = <<>>
                          ELSE Whole(after) =
                                 Append(Whole(SubSeq(rb, Min(asLong) + 1, Len(rb))), m)
    BY DEF DropsUpToOneAsLong
  <2> DEFINE need == Len(Frame[m])
             asLong == AsLong(rb, need)
             after == PutsOrDrops(rb, m).rb
  <2>1. rb \in Rings
    BY DEF Inv
  <2>2. rb \in Seq(Byte) /\ Sound(rb) /\ Ends(rb) \in SUBSET Nat
    BY <2>1, SoundEnds DEF Rings
  <2>3. \/ after = <<>> /\ ~(Len(rb) + need <= Size) /\ asLong = {}
        \/ \E e \in Ends(rb) \cup {0} :
             /\ Whole(after) = Append(Whole(Suffix(rb, e)), m)
             /\ IF Len(rb) + need <= Size THEN e = 0
                ELSE e \in asLong /\ \A y \in asLong : e <= y
    BY <2>1, PutsOrDropsWhole
  <2>4. asLong \in SUBSET Nat
    BY <2>2 DEF AsLong
  <2> HIDE DEF need, asLong, after
  <2>5. IF Len(rb) + need <= Size THEN Whole(after) = Append(Whole(rb), m)
        ELSE IF asLong = {} THEN after = <<>>
        ELSE Whole(after) = Append(Whole(Suffix(rb, Min(asLong))), m)
    <3>1. CASE after = <<>> /\ ~(Len(rb) + need <= Size) /\ asLong = {}
      BY <3>1
    <3>2. ASSUME NEW e \in Ends(rb) \cup {0}, Whole(after) = Append(Whole(Suffix(rb, e)), m),
                 Len(rb) + need <= Size, e = 0
          PROVE  Whole(after) = Append(Whole(rb), m)
      <4>1. Suffix(rb, 0) = rb
        BY <2>2, SubSeqFull DEF Suffix
      <4> QED
        BY <3>2, <4>1
    <3>3. ASSUME NEW e \in Ends(rb) \cup {0}, Whole(after) = Append(Whole(Suffix(rb, e)), m),
                 e \in asLong, \A y \in asLong : e <= y
          PROVE  asLong # {} /\ Whole(after) = Append(Whole(Suffix(rb, Min(asLong))), m)
      <4>1. Min(asLong) \in asLong /\ \A y \in asLong : Min(asLong) <= y
        BY <2>4, <3>3, MinIsLeast
      <4>2. Min(asLong) = e
        <5> DEFINE n == Min(asLong)
        <5>1. n <= e /\ e <= n /\ n \in Nat /\ e \in Nat
          BY <2>4, <3>3, <4>1
        <5> HIDE DEF n
        <5>2. n = e
          BY <5>1
        <5> QED
          BY <5>2 DEF n
      <4> QED
        BY <3>3, <4>2
    <3> QED
      BY <2>3, <3>1, <3>2, <3>3
  <2> QED
    BY <2>5 DEF need, asLong, after, AsLong, Suffix
<1> QED
  BY <1>1, QueueInvariant, PTL

(* MQTT_Task takes the oldest message that was put in whole, byte by byte. *)
THEOREM OldestFirst == Spec => SendsTheOldest
<1>1. Inv /\ [Next]_vars => [Send /\ Whole(rb) # <<>> => taken' = Head(Whole(rb))]_vars
  <2> SUFFICES ASSUME Inv, Send, Whole(rb) # <<>>
               PROVE  taken' = Head(Whole(rb))
    OBVIOUS
  <2>1. Ends(rb) # {} /\ Whole(rb) = <<taken'>> \o Whole(rb') /\ taken' \in Messages /\ rb' \in Rings
    BY SendStep DEF Inv
  <2>2. Whole(rb') \in Seq(Messages)
    BY <2>1, WholeType DEF Rings
  <2> DEFINE m == taken'
             w == Whole(rb')
  <2>3. w \in Seq(Messages) /\ m \in Messages
    BY <2>1, <2>2
  <2> HIDE DEF m, w
  <2>4. Head(<<m>> \o w) = m
    BY <2>3
  <2> QED
    BY <2>1, <2>4 DEF m, w
<1> QED
  BY <1>1, QueueInvariant, PTL DEF Spec, SendsTheOldest

(* Each handler does what MsgFifo lets it do.                              *)
LEMMA PublishImplements ==
  ASSUME Inv, NEW m \in Messages, Publish(m)
  PROVE  Fifo!Enqueue(m)
<1> DEFINE q == Whole(rb)
           p == Whole(rb')
<1>1. rb \in Rings /\ Sound(rb) /\ q \in Seq(Messages) /\ Len(q) \in Nat
  BY WholeType DEF Inv, Rings
<1>2. rb' = PutsOrDrops(rb, m).rb /\ taken' = taken
  BY DEF Publish
<1>3. rb' \in Rings /\ (rb' = <<>> \/ \E e \in Ends(rb) \cup {0} : p = Append(Whole(Suffix(rb, e)), m))
  BY <1>1, <1>2, PutsOrDropsWhole
<1>4. Sound(rb') /\ Len(p) <= Capacity
  BY <1>3, WithinCapacity DEF Rings
<1>5. CASE rb' = <<>>
  <2>1. p = <<>>
    BY <1>5, EmptySound
  <2>2. p \in Fifo!PutDroppingOldest(q, m)
    BY <2>1 DEF Fifo!PutDroppingOldest
  <2> QED
    BY <1>2, <2>2 DEF Fifo!Enqueue
<1>6. ASSUME NEW e \in Ends(rb) \cup {0}, p = Append(Whole(Suffix(rb, e)), m)
      PROVE  Fifo!Enqueue(m)
  <2>1. PICK n \in 0..Len(q) : Whole(Suffix(rb, e)) = SubSeq(q, n + 1, Len(q))
    BY <1>1, SuffixSound
  <2> HIDE DEF q, p
  <2> DEFINE w == SubSeq(q, n + 1, Len(q))
  <2>2. w \in Seq(Messages) /\ Len(w) = Len(q) - n
    BY <1>1
  <2>3. p = Append(w, m)
    BY <1>6, <2>1
  <2>4. Len(p) = Len(q) - n + 1
    <3> HIDE DEF w
    <3>1. Len(Append(w, m)) = Len(w) + 1
      BY <2>2
    <3> QED
      BY <2>2, <2>3, <3>1
  <2>5. Len(q) - n < Size \div 3
    <3>1. Size \div 3 \in Int
      BY SizesAssumption
    <3> DEFINE c == Size \div 3
    <3>2. Len(p) <= c
      BY <1>4 DEF Capacity
    <3> HIDE DEF c
    <3>3. Len(q) - n < c
      BY <1>1, <2>4, <3>1, <3>2 DEF c
    <3> QED
      BY <3>3 DEF c
  <2>6. p \in Fifo!PutDroppingOldest(q, m)
    BY <2>1, <2>3, <2>5 DEF Fifo!PutDroppingOldest, Fifo!Without
  <2> QED
    BY <1>2, <2>6 DEF Fifo!Enqueue, p, q
<1> QED
  BY <1>3, <1>5, <1>6

LEMMA AnswerImplements ==
  ASSUME Inv, NEW m \in Messages, Answer(m)
  PROVE  Fifo!Answer(m)
<1>1. rb \in Rings /\ Sound(rb) /\ Len(rb) <= Size
  BY DEF Inv, Rings
<1>2. rb' = Puts(rb, m).rb /\ taken' = taken
  BY DEF Answer
<1>3. rb' \in Rings
  BY <1>1, <1>2, PutsRings
<1>4. Len(Whole(rb')) <= Size \div 3
  BY <1>3, WithinCapacity DEF Rings, Capacity
<1>5. Whole(rb') = Append(Whole(rb), m) \/ Whole(rb') = Whole(rb)
  BY <1>1, <1>2, PutsWhole
<1>6. Whole(rb') \in Fifo!PutIfRoom(Whole(rb), m)
  BY <1>4, <1>5 DEF Fifo!PutIfRoom
<1> QED
  BY <1>2, <1>6 DEF Fifo!Answer

LEMMA SendImplements ==
  ASSUME Inv, Send
  PROVE  Fifo!Dequeue \/ UNCHANGED <<Whole(rb), taken>>
<1>1. CASE Ends(rb) = {}
  <2>1. Whole(rb) = <<>> /\ rb' = <<>> /\ taken' = taken
    BY <1>1, SendStep DEF Inv
  <2>2. Whole(rb') = <<>>
    BY <2>1, EmptySound
  <2> QED
    BY <2>1, <2>2
<1>2. CASE Ends(rb) # {}
  <2> DEFINE q == Whole(rb)
             m == taken'
             w == Whole(rb')
  <2>1. q = <<m>> \o w /\ m \in Messages /\ w \in Seq(Messages)
    <3>1. Whole(rb) = <<taken'>> \o Whole(rb') /\ taken' \in Messages /\ rb' \in Rings
      BY <1>2, SendStep DEF Inv
    <3>2. Whole(rb') \in Seq(Messages)
      BY <3>1, WholeType DEF Rings
    <3> QED
      BY <3>1, <3>2
  <2> HIDE DEF q, m, w
  <2>2. <<m>> \o w # <<>> /\ Head(<<m>> \o w) = m /\ Tail(<<m>> \o w) = w
    BY <2>1
  <2> QED
    BY <2>1, <2>2 DEF Fifo!Dequeue, q, m, w
<1> QED
  BY <1>1, <1>2

(* The ring of bytes, its frames and its parser are the queue of whole     *)
(* messages that MQTT_Task relies on.                                      *)
THEOREM QueueImplementsFifo == Spec => IsFifo
<1>1. Init => Fifo!Init
  BY EmptySound DEF Init, Fifo!Init
<1>2. Inv /\ [Next]_vars => [Fifo!Next]_<<Whole(rb), taken>>
  <2> SUFFICES ASSUME Inv, [Next]_vars
               PROVE  [Fifo!Next]_<<Whole(rb), taken>>
    OBVIOUS
  <2>1. CASE Send
    BY <2>1, SendImplements DEF Fifo!Next
  <2>2. ASSUME NEW m \in Messages, Publish(m)
        PROVE  [Fifo!Next]_<<Whole(rb), taken>>
    BY <2>2, PublishImplements DEF Fifo!Next
  <2>3. ASSUME NEW m \in Messages, Answer(m)
        PROVE  [Fifo!Next]_<<Whole(rb), taken>>
    BY <2>3, AnswerImplements DEF Fifo!Next
  <2>4. CASE UNCHANGED vars
    BY <2>4 DEF vars
  <2> QED
    BY <2>1, <2>2, <2>3, <2>4 DEF Next
<1> QED
  BY <1>1, <1>2, QueueInvariant, PTL DEF Spec, IsFifo, Fifo!Spec
=============================================================================
