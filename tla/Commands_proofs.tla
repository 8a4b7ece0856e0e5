-------------------------- MODULE Commands_proofs --------------------------
(***************************************************************************)
(* Proofs about the way of a command through the device: the types, that   *)
(* the commands carried out are those sent, that the messages made read as *)
(* the answers due, and which of them the queue keeps, for all frames,     *)
(* texts and segments.                                                     *)
(***************************************************************************)
EXTENDS Commands, RecursionLemmas, FiniteSetTheorems

Bytes8 == 0..255

-----------------------------------------------------------------------------
(* Bits.                                                                   *)

LEMMA OrIsByte == ASSUME NEW a, NEW b PROVE Or(a, b) \in Bytes8
<1> DEFINE D(k) == IF Bit(a, k) + Bit(b, k) > 0 THEN k ELSE 0
<1>1. /\ D(1) \in {0, 1} /\ D(2) \in {0, 2} /\ D(4) \in {0, 4} /\ D(8) \in {0, 8}
      /\ D(16) \in {0, 16} /\ D(32) \in {0, 32} /\ D(64) \in {0, 64} /\ D(128) \in {0, 128}
  OBVIOUS
<1>2. Or(a, b) = D(1) + D(2) + D(4) + D(8) + D(16) + D(32) + D(64) + D(128)
  BY DEF Or
<1> HIDE DEF D
<1> QED
  BY <1>1, <1>2 DEF Bytes8

LEMMA XorIsWord == ASSUME NEW a, NEW b PROVE Xor(a, b) \in Nat /\ Xor(a, b) < 65536
<1> DEFINE D(k) == IF Bit(a, k) # Bit(b, k) THEN k ELSE 0
           low  == D(1) + D(2) + D(4) + D(8) + D(16) + D(32) + D(64) + D(128)
           high == D(256) + D(512) + D(1024) + D(2048) + D(4096) + D(8192) + D(16384) + D(32768)
<1>1. Xor(a, b) = low + high
  BY DEF Xor
<1>2. low \in 0..255
  <2>1. /\ D(1) \in {0, 1} /\ D(2) \in {0, 2} /\ D(4) \in {0, 4} /\ D(8) \in {0, 8}
        /\ D(16) \in {0, 16} /\ D(32) \in {0, 32} /\ D(64) \in {0, 64} /\ D(128) \in {0, 128}
    OBVIOUS
  <2> HIDE DEF D
  <2> QED
    BY <2>1
<1>3. high \in Nat /\ high <= 65280
  <2>1. /\ D(256) \in {0, 256} /\ D(512) \in {0, 512} /\ D(1024) \in {0, 1024}
        /\ D(2048) \in {0, 2048} /\ D(4096) \in {0, 4096} /\ D(8192) \in {0, 8192}
        /\ D(16384) \in {0, 16384} /\ D(32768) \in {0, 32768}
    OBVIOUS
  <2> HIDE DEF D
  <2> QED
    BY <2>1
<1> HIDE DEF low, high
<1>4. low + high \in Nat /\ low + high < 65536
  BY <1>2, <1>3
<1> QED
  BY <1>1, <1>4

(* Two half bytes are put together.                                        *)
LEMMA OrOfHalves ==
  ASSUME NEW d \in 0..15, NEW e \in 0..15
  PROVE  Or(16 * d, e) = 16 * d + e
<1> DEFINE D(k) == IF Bit(16 * d, k) + Bit(e, k) > 0 THEN k ELSE 0
<1>1. Or(16 * d, e) = D(1) + D(2) + D(4) + D(8) + D(16) + D(32) + D(64) + D(128)
  BY DEF Or
<1>2. D(1) + D(2) + D(4) + D(8) = e
  BY DEF Bit
<1>3. D(16) + D(32) + D(64) + D(128) = 16 * d
  BY DEF Bit
<1> DEFINE l1 == D(1)   l2 == D(2)   l4 == D(4)   l8 == D(8)
           h1 == D(16)  h2 == D(32)  h4 == D(64)  h8 == D(128)
<1>4. /\ l1 \in Nat /\ l2 \in Nat /\ l4 \in Nat /\ l8 \in Nat
      /\ h1 \in Nat /\ h2 \in Nat /\ h4 \in Nat /\ h8 \in Nat
  OBVIOUS
<1>5. Or(16 * d, e) = l1 + l2 + l4 + l8 + h1 + h2 + h4 + h8
  BY <1>1
<1>6. l1 + l2 + l4 + l8 = e /\ h1 + h2 + h4 + h8 = 16 * d
  BY <1>2, <1>3
<1> HIDE DEF l1, l2, l4, l8, h1, h2, h4, h8
<1> QED
  BY <1>4, <1>5, <1>6

-----------------------------------------------------------------------------
(* The checksum is one of 16 bits; the proofs need no more of it.          *)
Words == {n \in Nat : n < 65536}

LEMMA CrcIsWord == ASSUME NEW s \in Seq(Bytes8) PROVE hxCRC16(s) \in Words
<1> DEFINE N == Len(s) % 256
           step == [p \in Words \X (1..N) |-> CrcStep(p[1], s[p[2]])]
           G == CHOOSE f : f = [n \in 0..N |-> IF n = 0 THEN 0 ELSE CrcStep(f[n - 1], s[n])]
<1>1. N \in Nat
  <2>1. Len(s) \in Nat
    OBVIOUS
  <2> QED
    BY <2>1
<1>2. hxCRC16(s) = G[N]
  BY DEF hxCRC16
<1>3. \A c, b : CrcStep(c, b) \in Words
  BY XorIsWord DEF CrcStep, Words
<1> HIDE DEF N
<1>4. step \in [Words \X (1..N) -> Words]
  BY <1>3
<1>5. 0 \in Words
  BY DEF Words
<1> HIDE DEF Words
<1>6. PICK f \in [0..N -> Words] : Recursive(f, N, 0, step)
  <2> HIDE DEF step
  <2> QED
    BY <1>1, <1>4, <1>5, RecursionExists
<1>7. f = [n \in 0..N |-> IF n = 0 THEN 0 ELSE CrcStep(f[n - 1], s[n])]
  <2>1. ASSUME NEW n \in 1..N
        PROVE  f[n] = CrcStep(f[n - 1], s[n])
    <3>1. n - 1 \in 0..N /\ f[n - 1] \in Words
      BY <1>1
    <3>2. f[n] = step[<<f[n - 1], n>>]
      BY <1>6 DEF Recursive
    <3> QED
      BY <3>1, <3>2
  <2>2. f[0] = 0
    BY <1>6 DEF Recursive
  <2> QED
    BY <1>1, <2>1, <2>2
<1> HIDE DEF step
<1>8. G = [n \in 0..N |-> IF n = 0 THEN 0 ELSE CrcStep(G[n - 1], s[n])]
  BY <1>7
<1> HIDE DEF G
<1>9. N \in 0..N
  BY <1>1
<1>10. G[N] = IF N = 0 THEN 0 ELSE CrcStep(G[N - 1], s[N])
  BY <1>8, <1>9, Zenon
<1> QED
  BY <1>2, <1>3, <1>5, <1>10

LEMMA WordBytes ==
  ASSUME NEW w \in Words
  PROVE  w % 256 \in Bytes8 /\ w \div 256 \in Bytes8 /\ (w % 256) + 256 * (w \div 256) = w
BY DEF Words, Bytes8

-----------------------------------------------------------------------------
(* Hexadecimal text.                                                       *)

LEMMA DigitsOf ==
  ASSUME NEW d \in 0..15
  PROVE  /\ HexDigit(d) \in 1..255
         /\ DigitValue(HexDigit(d)) = d
         /\ Upper(HexDigit(d)) = HexDigit(d)
         /\ HexDigit(d) \in 65..90 => Upper(HexDigit(d) + 32) = HexDigit(d)
BY DEF HexDigit, DigitValue, Upper

(* The text of a byte is the byte.                                         *)
LEMMA HexOfByte ==
  ASSUME NEW b \in Bytes8
  PROVE  /\ b \div 16 \in 0..15 /\ b % 16 \in 0..15
         /\ Or((16 * (b \div 16)) % 256, b % 16) = b
<1>1. b \div 16 \in 0..15 /\ b % 16 \in 0..15 /\ 16 * (b \div 16) + (b % 16) = b
  BY DEF Bytes8
<1>2. (16 * (b \div 16)) % 256 = 16 * (b \div 16)
  BY DEF Bytes8
<1>3. Or(16 * (b \div 16), b % 16) = 16 * (b \div 16) + (b % 16)
  BY <1>1, OrOfHalves
<1> QED
  BY <1>1, <1>2, <1>3

LEMMA EncodesBytes ==
  ASSUME NEW s \in Seq(Bytes8)
  PROVE  /\ sbufEncode(s) \in Seq(1..255) /\ Len(sbufEncode(s)) = 2 * Len(s)
         /\ \A k \in 1..Len(s) : /\ sbufEncode(s)[2 * k - 1] = HexDigit(s[k] \div 16)
                                 /\ sbufEncode(s)[2 * k] = HexDigit(s[k] % 16)
<1> DEFINE N == Len(s)
           t == sbufEncode(s)
<1>1. N \in Nat /\ \A k \in 1..N : s[k] \in Bytes8
  OBVIOUS
<1>2. t = [i \in 1..2 * N |->
             IF i % 2 = 1 THEN HexDigit(s[(i + 1) \div 2] \div 16) ELSE HexDigit(s[i \div 2] % 16)]
  BY DEF sbufEncode
<1> HIDE DEF N, t
<1>3. \A k \in 1..N : HexDigit(s[k] \div 16) \in 1..255 /\ HexDigit(s[k] % 16) \in 1..255
  <2> TAKE k \in 1..N
  <2> DEFINE b == s[k]
  <2>1. b \in Bytes8
    BY <1>1
  <2> HIDE DEF b
  <2>2. b \div 16 \in 0..15 /\ b % 16 \in 0..15
    BY <2>1, HexOfByte
  <2>3. HexDigit(b \div 16) \in 1..255 /\ HexDigit(b % 16) \in 1..255
    BY <2>2, DigitsOf
  <2> QED
    BY <2>3 DEF b
<1>4. ASSUME NEW i \in 1..2 * N
      PROVE  t[i] \in 1..255
  <2>1. CASE i % 2 = 1
    <3>1. (i + 1) \div 2 \in 1..N
      BY <1>1, <2>1
    <3> QED
      BY <1>2, <1>3, <2>1, <3>1
  <2>2. CASE i % 2 # 1
    <3>1. i \div 2 \in 1..N
      BY <1>1, <2>2
    <3> QED
      BY <1>2, <1>3, <2>2, <3>1
  <2> QED
    BY <2>1, <2>2
<1>5. 2 * N \in Nat /\ t = [i \in 1..2 * N |-> t[i]]
  BY <1>1, <1>2
<1>6. t \in Seq(1..255) /\ Len(t) = 2 * N
  <2> DEFINE M == 2 * N
  <2>1. M \in Nat /\ t = [i \in 1..M |-> t[i]] /\ \A i \in 1..M : t[i] \in 1..255
    BY <1>4, <1>5
  <2> HIDE DEF M
  <2>2. t \in [1..M -> 1..255]
    BY <2>1, Zenon
  <2>3. t \in Seq(1..255) /\ Len(t) = M
    BY <2>1, <2>2
  <2> QED
    BY <2>3 DEF M
<1>7. ASSUME NEW k \in 1..N
      PROVE  t[2 * k - 1] = HexDigit(s[k] \div 16) /\ t[2 * k] = HexDigit(s[k] % 16)
  <2>1. /\ 2 * k - 1 \in 1..2 * N /\ (2 * k - 1) % 2 = 1 /\ ((2 * k - 1) + 1) \div 2 = k
        /\ 2 * k \in 1..2 * N /\ (2 * k) % 2 # 1 /\ (2 * k) \div 2 = k
    BY <1>1
  <2> QED
    BY <1>2, <2>1, Zenon
<1> QED
  BY <1>6, <1>7 DEF t, N

(* Turning to capitals leaves bytes, and of the text up to the first 0     *)
(* each character becomes its capital.                                     *)
LEMMA CapitalBytes ==
  ASSUME NEW src \in Seq(Bytes8)
  PROVE  /\ Capitals(src) \in Seq(Bytes8) /\ Len(Capitals(src)) = Len(src)
         /\ \A i \in 1..Len(src) :
              (\A j \in 1..i : src[j] # 0) => Capitals(src)[i] = Upper(src[i])
<1> DEFINE N == Len(src)
           zeros == {i \in 1..N : src[i] = 0}
           stop  == IF zeros = {} THEN N + 1 ELSE Min(zeros)
           c == Capitals(src)
<1>1. N \in Nat /\ DOMAIN src = 1..N /\ \A i \in 1..N : src[i] \in Bytes8
  OBVIOUS
<1>2. c = [i \in 1..N |-> IF i < stop THEN Upper(src[i]) ELSE src[i]]
  BY <1>1 DEF Capitals
<1>3. \A x \in Bytes8 : Upper(x) \in Bytes8
  BY DEF Upper, Bytes8
<1> HIDE DEF N
<1>4. zeros # {} => Min(zeros) \in zeros /\ \A y \in zeros : Min(zeros) <= y
  <2>1. zeros \in SUBSET Nat
    BY <1>1
  <2> HIDE DEF zeros
  <2> QED
    BY <2>1, MinIsLeast
<1>5. ASSUME NEW i \in 1..N, \A j \in 1..i : src[j] # 0
      PROVE  i < stop
  <2>1. CASE zeros = {}
    BY <1>1, <2>1
  <2>2. CASE zeros # {}
    <3>1. Min(zeros) \in 1..N /\ src[Min(zeros)] = 0
      BY <1>4, <2>2
    <3>2. stop = Min(zeros)
      BY <2>2
    <3> HIDE DEF zeros, stop
    <3>3. ~(Min(zeros) <= i)
      BY <1>1, <1>5, <3>1
    <3> QED
      BY <1>1, <3>1, <3>2, <3>3
  <2> QED
    BY <2>1, <2>2
<1> HIDE DEF stop, c, Bytes8
<1>6. c \in [1..N -> Bytes8]
  BY <1>1, <1>2, <1>3
<1>7. c \in Seq(Bytes8) /\ Len(c) = N
  BY <1>1, <1>6
<1>8. \A i \in 1..N : (\A j \in 1..i : src[j] # 0) => c[i] = Upper(src[i])
  BY <1>2, <1>5
<1> QED
  BY <1>7, <1>8 DEF c, N

(* A text begins with the hexadecimal text of bytes, in whatever letters.  *)
Spells(src, s) ==
  /\ 2 * Len(s) <= Len(src)
  /\ \A k \in 1..Len(s) :
       /\ Upper(src[2 * k - 1]) = HexDigit(s[k] \div 16) /\ src[2 * k - 1] # 0
       /\ Upper(src[2 * k]) = HexDigit(s[k] % 16) /\ src[2 * k] # 0

Starts(b, w) == Len(w) <= Len(b) /\ \A i \in 1..Len(w) : b[i] = w[i]

(* Such a text is decoded to these bytes and perhaps more behind them.     *)
LEMMA Decodes ==
  ASSUME NEW src \in Seq(Bytes8)
  PROVE  /\ sbufDecode(src) \in Seq(Bytes8)
         /\ \A s \in Seq(Bytes8) : Spells(src, s) => Starts(sbufDecode(src), s)
<1> DEFINE c == Capitals(src)
           N == Len(c)
           stops == {i \in 0..N : i % 2 = 0 /\ ByteAt(c, i) = 0} \cup {N + (N % 2)}
           M == Min(stops) \div 2
           h == sbufDecode(src)
<1>1. c \in Seq(Bytes8) /\ N = Len(src) /\ N \in Nat
  BY CapitalBytes
<1>2. h = [k \in 1..M |-> Or((16 * DigitValue(ByteAt(c, 2*k - 2))) % 256, DigitValue(ByteAt(c, 2*k - 1)))]
  BY DEF sbufDecode
<1> HIDE DEF c, N
<1>3. Min(stops) \in stops /\ stops \in SUBSET Nat
  <2>1. stops \in SUBSET Nat /\ stops # {}
    BY <1>1
  <2> HIDE DEF stops
  <2> QED
    BY <2>1, MinIsLeast
<1> DEFINE m == Min(stops)
<1>4. m \in Nat /\ m \in stops /\ M = m \div 2
  BY <1>3
<1> HIDE DEF stops, m, M, h
<1>10. M \in Nat /\ \A l \in Nat : 2 * l <= m => l <= M
  BY <1>4
<1>5. h \in [1..M -> Bytes8]
  BY <1>2, OrIsByte
<1>6. h \in Seq(Bytes8) /\ Len(h) = M
  BY <1>5, <1>10
<1>7. ASSUME NEW s \in Seq(Bytes8), Spells(src, s)
      PROVE  Starts(h, s)
  <2> DEFINE L == Len(s)
  <2>1. L \in Nat /\ \A k \in 1..L : s[k] \in Bytes8
    OBVIOUS
  <2>2. 2 * L <= N
    BY <1>1, <1>7 DEF Spells
  <2>3. \A k \in 1..L : /\ Upper(src[2 * k - 1]) = HexDigit(s[k] \div 16) /\ src[2 * k - 1] # 0
                        /\ Upper(src[2 * k]) = HexDigit(s[k] % 16) /\ src[2 * k] # 0
    BY <1>7 DEF Spells
  <2> HIDE DEF L
  <2>4. \A i \in 1..2 * L : src[i] # 0
    <3> TAKE i \in 1..2 * L
    <3>1. CASE i % 2 = 0
      <4>1. i \div 2 \in 1..L /\ 2 * (i \div 2) = i
        BY <2>1, <3>1
      <4> QED
        BY <2>3, <4>1
    <3>2. CASE i % 2 # 0
      <4>1. (i + 1) \div 2 \in 1..L /\ 2 * ((i + 1) \div 2) - 1 = i
        BY <2>1, <3>2
      <4> QED
        BY <2>3, <4>1
    <3> QED
      BY <3>1, <3>2
  <2>5. \A i \in 1..2 * L : c[i] = Upper(src[i])
    <3> TAKE i \in 1..2 * L
    <3>1. i \in 1..Len(src) /\ \A j \in 1..i : j \in 1..2 * L
      BY <1>1, <2>1, <2>2
    <3> QED
      BY <2>4, <3>1, CapitalBytes DEF c
  <2>6. \A i \in 1..2 * L : ByteAt(c, i - 1) = c[i]
    <3> TAKE i \in 1..2 * L
    <3>1. i - 1 < Len(c) /\ (i - 1) + 1 = i
      BY <1>1, <2>1, <2>2 DEF N
    <3> QED
      BY <3>1 DEF ByteAt
  <2>7. \A k \in 1..L :
          /\ ByteAt(c, 2*k - 2) = HexDigit(s[k] \div 16)
          /\ ByteAt(c, 2*k - 1) = HexDigit(s[k] % 16)
    <3> TAKE k \in 1..L
    <3>1. /\ 2 * k - 1 \in 1..2 * L /\ (2 * k - 1) - 1 = 2*k - 2
          /\ 2 * k \in 1..2 * L /\ (2 * k) - 1 = 2*k - 1
      BY <2>1
    <3>2. ByteAt(c, (2 * k - 1) - 1) = c[2 * k - 1] /\ ByteAt(c, (2 * k) - 1) = c[2 * k]
      BY <2>6, <3>1
    <3>3. ByteAt(c, 2*k - 2) = c[2 * k - 1] /\ ByteAt(c, 2*k - 1) = c[2 * k]
      BY <3>1, <3>2
    <3> QED
      BY <2>3, <2>5, <3>1, <3>3
  <2>8. \A k \in 1..L : s[k] \div 16 \in 0..15 /\ s[k] % 16 \in 0..15
                        /\ Or((16 * (s[k] \div 16)) % 256, s[k] % 16) = s[k]
    BY <2>1, HexOfByte
  <2>9. L <= M
    <3>1. ASSUME NEW i \in 0..N, i % 2 = 0, ByteAt(c, i) = 0
          PROVE  2 * L <= i
      <4>1. CASE i < 2 * L
        <5> DEFINE k == (i \div 2) + 1
        <5>1. k \in 1..L /\ 2*k - 2 = i
          BY <1>1, <2>1, <3>1, <4>1
        <5> HIDE DEF k
        <5>2. ByteAt(c, i) = HexDigit(s[k] \div 16)
          BY <2>7, <5>1
        <5>3. HexDigit(s[k] \div 16) \in 1..255
          BY <2>8, <5>1, DigitsOf
        <5>4. ByteAt(c, i) # 0
          <6> DEFINE x == HexDigit(s[k] \div 16)
          <6>1. x \in 1..255 /\ ByteAt(c, i) = x
            BY <5>2, <5>3
          <6> HIDE DEF x
          <6> QED
            BY <6>1
        <5> QED
          BY <3>1, <5>4
      <4> QED
        BY <1>1, <2>1, <4>1
    <3>2. 2 * L <= N + (N % 2)
      BY <1>1, <2>1, <2>2
    <3>3. 2 * L <= m
      BY <1>4, <3>1, <3>2 DEF stops
    <3> QED
      BY <1>10, <2>1, <3>3
  <2>10. ASSUME NEW k \in 1..L
         PROVE  h[k] = s[k]
    <3>1. k \in 1..M
      BY <1>10, <2>1, <2>9
    <3> DEFINE d == s[k] \div 16
               e == s[k] % 16
    <3>2. /\ ByteAt(c, 2*k - 2) = HexDigit(d) /\ ByteAt(c, 2*k - 1) = HexDigit(e)
          /\ d \in 0..15 /\ e \in 0..15 /\ Or((16 * d) % 256, e) = s[k]
      BY <2>7, <2>8
    <3> HIDE DEF d, e
    <3>3. DigitValue(HexDigit(d)) = d /\ DigitValue(HexDigit(e)) = e
      BY <3>2, DigitsOf
    <3>4. h[k] = Or((16 * DigitValue(ByteAt(c, 2*k - 2))) % 256, DigitValue(ByteAt(c, 2*k - 1)))
      BY <1>2, <3>1
    <3> QED
      BY <3>2, <3>3, <3>4, Zenon
  <2> QED
    BY <1>6, <2>9, <2>10 DEF Starts, L
<1> QED
  BY <1>6, <1>7 DEF h

(* The hexadecimal text of bytes spells them.                              *)
LEMMA EncodedSpells ==
  ASSUME NEW s \in Seq(Bytes8)
  PROVE  /\ sbufEncode(s) \in Seq(Bytes8) /\ Len(sbufEncode(s)) = 2 * Len(s)
         /\ Spells(sbufEncode(s), s)
<1> DEFINE t == sbufEncode(s)
           n == Len(s)
<1>1. /\ t \in Seq(1..255) /\ Len(t) = 2 * n
      /\ \A k \in 1..n : t[2 * k - 1] = HexDigit(s[k] \div 16) /\ t[2 * k] = HexDigit(s[k] % 16)
  BY EncodesBytes
<1> HIDE DEF t
<1>2. t \in Seq(Bytes8)
  <2>1. 1..255 \subseteq Bytes8
    BY DEF Bytes8
  <2> HIDE DEF Bytes8
  <2> QED
    BY <1>1, <2>1, SeqMonotonic
<1>3. ASSUME NEW k \in 1..n
      PROVE  /\ Upper(t[2 * k - 1]) = HexDigit(s[k] \div 16) /\ t[2 * k - 1] # 0
             /\ Upper(t[2 * k]) = HexDigit(s[k] % 16) /\ t[2 * k] # 0
  <2> DEFINE hi == s[k] \div 16
             lo == s[k] % 16
  <2>1. s[k] \in Bytes8
    BY ElementOfSeq
  <2>2. hi \in 0..15 /\ lo \in 0..15
    BY <2>1, HexOfByte
  <2>3. t[2 * k - 1] = HexDigit(hi) /\ t[2 * k] = HexDigit(lo)
    BY <1>1
  <2> HIDE DEF hi, lo
  <2>4. /\ HexDigit(hi) \in 1..255 /\ Upper(HexDigit(hi)) = HexDigit(hi)
        /\ HexDigit(lo) \in 1..255 /\ Upper(HexDigit(lo)) = HexDigit(lo)
    BY <2>2, DigitsOf
  <2>5. HexDigit(hi) # 0 /\ HexDigit(lo) # 0
    <3>1. \A z \in 1..255 : z # 0
      OBVIOUS
    <3> QED
      BY <2>4, <3>1
  <2> QED
    BY <2>3, <2>4, <2>5 DEF hi, lo
<1>4. n \in Nat /\ 2 * n <= 2 * n
  OBVIOUS
<1> QED
  BY <1>1, <1>2, <1>3, <1>4 DEF Spells, t, n

-----------------------------------------------------------------------------
(* What a sequence begins with.                                            *)

LEMMA StartsConcat ==
  ASSUME NEW S, NEW b \in Seq(S), NEW u \in Seq(S), NEW v \in Seq(S), Starts(b, u \o v)
  PROVE  /\ Starts(b, u) /\ Len(u) + Len(v) <= Len(b)
         /\ \A i \in 1..Len(v) : b[Len(u) + i] = v[i]
<1> DEFINE w == u \o v
<1>1. /\ Len(u) \in Nat /\ Len(v) \in Nat /\ Len(w) = Len(u) + Len(v)
      /\ \A i \in 1..Len(u) : w[i] = u[i]
      /\ \A i \in 1..Len(v) : w[Len(u) + i] = v[i]
  BY ConcatParts
<1>2. Len(b) \in Nat /\ Len(w) <= Len(b) /\ \A i \in 1..Len(w) : b[i] = w[i]
  BY DEF Starts
<1> HIDE DEF w
<1> DEFINE k == Len(u)
           l == Len(v)
           m == Len(w)
           n == Len(b)
<1>3. k \in Nat /\ l \in Nat /\ m = k + l /\ n \in Nat /\ m <= n
  BY <1>1, <1>2
<1> HIDE DEF k, l, m, n
<1>4. /\ k <= n /\ k + l <= n /\ \A i \in 1..k : i \in 1..m
      /\ \A i \in 1..l : k + i \in 1..m
  BY <1>3
<1>5. \A i \in 1..Len(u) : b[i] = u[i]
  BY <1>1, <1>2, <1>4 DEF k, m
<1>6. \A i \in 1..Len(v) : b[Len(u) + i] = v[i]
  BY <1>1, <1>2, <1>4 DEF k, l, m
<1> QED
  BY <1>4, <1>5, <1>6 DEF Starts, k, l, n

LEMMA StartsSubSeq ==
  ASSUME NEW S, NEW b \in Seq(S), NEW w \in Seq(S), Starts(b, w)
  PROVE  SubSeq(b, 1, Len(w)) = w
<1> DEFINE m == Len(w)
           n == Len(b)
<1>1. m \in Nat /\ n \in Nat /\ m <= n /\ \A i \in 1..m : b[i] = w[i]
  BY DEF Starts
<1>2. SubSeq(b, 1, m) = [i \in 1..m |-> b[i]]
  BY <1>1
<1>3. w = [i \in 1..m |-> w[i]]
  OBVIOUS
<1> HIDE DEF m
<1>4. [i \in 1..m |-> b[i]] = [i \in 1..m |-> w[i]]
  BY <1>1
<1> QED
  BY <1>2, <1>3, <1>4 DEF m

LEMMA FromParts ==
  ASSUME NEW S, NEW b \in Seq(S), NEW d \in 0..Len(b)
  PROVE  /\ From(b, d) \in Seq(S) /\ Len(From(b, d)) = Len(b) - d
         /\ \A i \in 1..Len(b)-d : From(b, d)[i] = b[d + i]
<1> DEFINE n == Len(b)
           e == d + 1
           t == SubSeq(b, e, n)
<1>1. n \in Nat /\ d \in 0..n /\ \A i \in e..n : b[i] \in S
  OBVIOUS
<1> HIDE DEF n
<1>2. e \in Int /\ n \in Int /\ (n - e) + 1 = n - d /\ \A i \in 1..n-d : (e + i) - 1 = d + i
  BY <1>1
<1>3. IF e <= n THEN n - e + 1 = n - d ELSE n - d = 0
  BY <1>1
<1> HIDE DEF e
<1>4. /\ t \in Seq(S)
      /\ Len(t) = IF e <= n THEN n - e + 1 ELSE 0
      /\ \A i \in 1 .. n - e + 1 : t[i] = b[e + i - 1]
  BY <1>1, <1>2, SubSeqProperties
<1>5. Len(t) = n - d
  BY <1>3, <1>4
<1>6. \A i \in 1..n-d : t[i] = b[d + i]
  BY <1>2, <1>4
<1>7. From(b, d) = t
  BY DEF From, n, e
<1> HIDE DEF t
<1> QED
  BY <1>4, <1>5, <1>6, <1>7 DEF n

LEMMA AppendIsBytes ==
  ASSUME NEW s \in Seq(Bytes8), NEW x \in Bytes8
  PROVE  Append(s, x) \in Seq(Bytes8) /\ Append(s, x) = s \o <<x>> /\ Len(Append(s, x)) = Len(s) + 1
<1> HIDE DEF Bytes8
<1>1. Append(s, x) = s \o <<x>>
  BY AppendIsConcat
<1>2. Append(s, x) \in Seq(Bytes8) /\ Len(Append(s, x)) = Len(s) + 1
  OBVIOUS
<1> QED
  BY <1>1, <1>2

-----------------------------------------------------------------------------
(* Frames.                                                                 *)

FrameBody(flag, parm) == <<170>> \o flag \o <<0>> \o LengthField(Len(parm)) \o parm

IsFrame(flag, parm) ==
  /\ flag \in Seq(1..255) /\ Len(flag) <= 255
  /\ parm \in Seq(Bytes8) /\ Len(parm) < 65536

(* Where the parameters are, behind the flag and the length.               *)
Offset(flag, parm) == Len(flag) + (IF Len(parm) < 255 THEN 3 ELSE 5)

LEMMA LengthBytes ==
  ASSUME NEW n \in Words
  PROVE  /\ LengthField(n) \in Seq(Bytes8) /\ Len(LengthField(n)) = IF n < 255 THEN 1 ELSE 3
         /\ LengthField(n)[1] = 255 <=> n >= 255
         /\ n < 255 => LengthField(n)[1] = n
         /\ n >= 255 => LengthField(n)[2] + 256 * LengthField(n)[3] = n
<1>1. n % 256 \in Bytes8 /\ (n \div 256) % 256 = n \div 256 /\ n \div 256 \in Bytes8
      /\ (n % 256) + 256 * (n \div 256) = n
  BY DEF Words, Bytes8
<1>2. n \in Nat /\ 255 \in Bytes8 /\ (n < 255 => n \in Bytes8) /\ (n < 255 <=> ~(n >= 255))
  BY DEF Words, Bytes8
<1>3. CASE n < 255
  <2>1. LengthField(n) = <<n>>
    BY <1>3 DEF LengthField
  <2> HIDE DEF Bytes8
  <2> QED
    BY <1>2, <1>3, <2>1
<1>4. CASE ~(n < 255)
  <2> DEFINE a == n % 256
             c == n \div 256
  <2>1. LengthField(n) = <<255, a, c>>
    BY <1>1, <1>4 DEF LengthField
  <2>2. a \in Bytes8 /\ c \in Bytes8 /\ a + 256 * c = n
    BY <1>1
  <2> HIDE DEF Bytes8, a, c
  <2> QED
    BY <1>2, <1>4, <2>1, <2>2
<1> QED
  BY <1>3, <1>4

LEMMA BodyBytes ==
  ASSUME NEW flag, NEW parm, IsFrame(flag, parm)
  PROVE  /\ FrameBody(flag, parm) \in Seq(Bytes8)
         /\ Len(FrameBody(flag, parm)) = Offset(flag, parm) + Len(parm)
         /\ \A cache \in Seq(Bytes8) : Starts(cache, FrameBody(flag, parm)) =>
              /\ cache[1] = 170
              /\ \A i \in 1..Len(flag) : cache[1 + i] = flag[i]
              /\ cache[2 + Len(flag)] = 0
              /\ \A i \in 1..Len(LengthField(Len(parm))) :
                   cache[2 + Len(flag) + i] = LengthField(Len(parm))[i]
              /\ \A i \in 1..Len(parm) : cache[Offset(flag, parm) + i] = parm[i]
              /\ Offset(flag, parm) + Len(parm) <= Len(cache)
<1> DEFINE l == LengthField(Len(parm))
           a1 == <<170>>
           a2 == a1 \o flag
           a3 == a2 \o <<0>>
           a4 == a3 \o l
           a5 == a4 \o parm
<1>1. FrameBody(flag, parm) = a5
  BY DEF FrameBody
<1>2. l \in Seq(Bytes8) /\ Len(l) = IF Len(parm) < 255 THEN 1 ELSE 3
  <2> DEFINE n == Len(parm)
  <2>1. n \in Words
    BY DEF IsFrame, Words
  <2> HIDE DEF n
  <2>2. LengthField(n) \in Seq(Bytes8) /\ Len(LengthField(n)) = IF n < 255 THEN 1 ELSE 3
    BY <2>1, LengthBytes
  <2> QED
    BY <2>2 DEF n
<1>3. flag \in Seq(Bytes8) /\ parm \in Seq(Bytes8) /\ a1 \in Seq(Bytes8) /\ <<0>> \in Seq(Bytes8)
      /\ Len(a1) = 1 /\ Len(<<0>>) = 1 /\ a1[1] = 170 /\ <<0>>[1] = 0
  <2>1. flag \in Seq(1..255) /\ 1..255 \subseteq Bytes8 /\ 170 \in Bytes8 /\ 0 \in Bytes8
    BY DEF IsFrame, Bytes8
  <2> HIDE DEF Bytes8
  <2>2. flag \in Seq(Bytes8)
    BY <2>1, SeqMonotonic
  <2> QED
    BY <2>1, <2>2 DEF IsFrame
<1> DEFINE z == <<0>>
<1>4. z \in Seq(Bytes8) /\ Len(z) = 1 /\ z[1] = 0 /\ a3 = a2 \o z
  BY <1>3
<1> HIDE DEF z, l, a1, Bytes8
<1>5. a2 \in Seq(Bytes8) /\ Len(a2) = Len(a1) + Len(flag)
  BY <1>3, ConcatParts
<1> HIDE DEF a2
<1>6. a3 \in Seq(Bytes8) /\ Len(a3) = Len(a2) + Len(z)
  BY <1>4, <1>5, ConcatParts
<1> HIDE DEF a3
<1>7. a4 \in Seq(Bytes8) /\ Len(a4) = Len(a3) + Len(l)
  BY <1>2, <1>6, ConcatParts
<1> HIDE DEF a4
<1>8. a5 \in Seq(Bytes8) /\ Len(a5) = Len(a4) + Len(parm)
  <2>1. a4 \in Seq(Bytes8) /\ parm \in Seq(Bytes8)
    BY <1>3, <1>7
  <2> QED
    BY <2>1, ConcatParts
<1> DEFINE f == Len(flag)
           n == Len(parm)
           x == Len(l)
<1>9. f \in Nat /\ n \in Nat /\ x \in Nat /\ x = IF n < 255 THEN 1 ELSE 3
  BY <1>2, <1>3
<1>10. Len(a1) = 1 /\ Len(a2) = 1 + f /\ Len(a3) = 1 + f + 1 /\ Len(a4) = 1 + f + 1 + x
       /\ Len(a5) = 1 + f + 1 + x + n
  BY <1>3, <1>4, <1>5, <1>6, <1>7, <1>8
<1> HIDE DEF f, n, x, a5
<1>11. 1 + f + 1 = 2 + f /\ 1 + f + 1 + x = f + (IF n < 255 THEN 3 ELSE 5)
  BY <1>9
<1>12. Len(a3) = 2 + f /\ Len(a4) = Offset(flag, parm) /\ Len(a5) = Offset(flag, parm) + n
  <2>1. Offset(flag, parm) = f + (IF n < 255 THEN 3 ELSE 5)
    BY DEF Offset, f, n
  <2> QED
    BY <1>10, <1>11, <2>1
<1>13. ASSUME NEW cache \in Seq(Bytes8), Starts(cache, a5)
       PROVE  /\ cache[1] = 170
              /\ \A i \in 1..f : cache[1 + i] = flag[i]
              /\ cache[2 + f] = 0
              /\ \A i \in 1..x : cache[2 + f + i] = l[i]
              /\ \A i \in 1..n : cache[Offset(flag, parm) + i] = parm[i]
              /\ Offset(flag, parm) + n <= Len(cache)
  <2>1. /\ Starts(cache, a4) /\ Len(a4) + Len(parm) <= Len(cache)
        /\ \A i \in 1..Len(parm) : cache[Len(a4) + i] = parm[i]
    <3>1. a4 \in Seq(Bytes8) /\ parm \in Seq(Bytes8) /\ Starts(cache, a4 \o parm)
      BY <1>3, <1>7, <1>13 DEF a5
    <3> QED
      BY <3>1, StartsConcat
  <2>2. Starts(cache, a3) /\ \A i \in 1..Len(l) : cache[Len(a3) + i] = l[i]
    BY <1>2, <1>6, <2>1, StartsConcat DEF a4
  <2>3. Starts(cache, a2) /\ \A i \in 1..Len(z) : cache[Len(a2) + i] = z[i]
    BY <1>4, <1>5, <2>2, StartsConcat
  <2>4. Starts(cache, a1) /\ \A i \in 1..Len(flag) : cache[Len(a1) + i] = flag[i]
    <3>1. a1 \in Seq(Bytes8) /\ flag \in Seq(Bytes8) /\ Starts(cache, a1 \o flag)
      BY <1>3, <2>3 DEF a2
    <3> QED
      BY <3>1, StartsConcat
  <2>5. cache[1] = 170
    BY <1>3, <2>4 DEF Starts
  <2>6. cache[2 + f] = 0
    <3>1. 1 \in 1..Len(z) /\ Len(a2) + 1 = 2 + f
      BY <1>4, <1>9, <1>10
    <3> QED
      BY <1>4, <2>3, <3>1
  <2> QED
    BY <1>10, <1>12, <2>1, <2>2, <2>4, <2>5, <2>6 DEF f, n, x
<1>14. a5 \in Seq(Bytes8)
  BY <1>8 DEF a5
<1> QED
  BY <1>1, <1>12, <1>13, <1>14 DEF f, n, x, l

LEMMA FrameBytes ==
  ASSUME NEW flag, NEW parm, NEW crc \in BOOLEAN, IsFrame(flag, parm)
  PROVE  LET body  == FrameBody(flag, parm)
             end   == Offset(flag, parm) + Len(parm)
             whole == CreateFrame(flag, parm, crc)
         IN  /\ whole \in Seq(Bytes8) /\ Len(whole) >= 4
             /\ Len(whole) <= end + 3
             /\ \A cache \in Seq(Bytes8) : Starts(cache, whole) =>
                  /\ Starts(cache, body) /\ Len(cache) >= end + 1
                  /\ ~crc => ByteAt(cache, end) = 186
                  /\ crc => /\ ByteAt(cache, end) = 187
                            /\ ByteAt(cache, end + 1) + 256 * ByteAt(cache, end + 2)
                                 = hxCRC16(SubSeq(cache, 1, end + 1))
<1> DEFINE body  == FrameBody(flag, parm)
           end   == Offset(flag, parm) + Len(parm)
           whole == CreateFrame(flag, parm, crc)
           w     == Append(body, 187)
           lo    == hxCRC16(w) % 256
           hi    == hxCRC16(w) \div 256
<1>1. body \in Seq(Bytes8) /\ Len(body) = end
  BY BodyBytes
<1>2. end \in Nat /\ end >= 3
  BY DEF IsFrame, Offset
<1>3. whole = IF crc THEN body \o <<187, lo, hi>> ELSE Append(body, 186)
  <2>1. ~(Len(flag) > 255)
    BY DEF IsFrame
  <2> QED
    BY <2>1 DEF CreateFrame, FrameBody
<1> HIDE DEF body, end
<1>4. 186 \in Bytes8 /\ 187 \in Bytes8
  BY DEF Bytes8
<1>5. w \in Seq(Bytes8) /\ w = body \o <<187>> /\ Len(w) = end + 1
  BY <1>1, <1>4, AppendIsBytes
<1>6. lo \in Bytes8 /\ hi \in Bytes8 /\ lo + 256 * hi = hxCRC16(w)
  <2> DEFINE c == hxCRC16(w)
  <2>1. c \in Words
    BY <1>5, CrcIsWord
  <2> HIDE DEF c
  <2>2. c % 256 \in Bytes8 /\ c \div 256 \in Bytes8 /\ (c % 256) + 256 * (c \div 256) = c
    BY <2>1, WordBytes
  <2> QED
    BY <2>2 DEF c
<1> HIDE DEF whole, w, lo, hi, Bytes8
<1>7. CASE crc
  <2> DEFINE t == <<187, lo, hi>>
  <2>1. t \in Seq(Bytes8) /\ Len(t) = 3 /\ t[1] = 187 /\ t[2] = lo /\ t[3] = hi /\ whole = body \o t
    BY <1>3, <1>4, <1>6, <1>7
  <2> HIDE DEF t
  <2>2. whole \in Seq(Bytes8) /\ Len(whole) = end + 3
    <3>1. body \in Seq(Bytes8) /\ t \in Seq(Bytes8)
      BY <1>1, <2>1
    <3>2. body \o t \in Seq(Bytes8) /\ Len(body \o t) = Len(body) + Len(t)
      BY <3>1, ConcatParts
    <3> QED
      BY <1>1, <2>1, <3>2
  <2>3. Len(whole) >= 4 /\ Len(whole) <= end + 3
    BY <1>2, <2>2
  <2>4. ASSUME NEW cache \in Seq(Bytes8), Starts(cache, whole)
        PROVE  /\ Starts(cache, body) /\ Len(cache) >= end + 1
               /\ ByteAt(cache, end) = 187
               /\ ByteAt(cache, end + 1) + 256 * ByteAt(cache, end + 2)
                    = hxCRC16(SubSeq(cache, 1, end + 1))
    <3>1. /\ Starts(cache, body) /\ end + 3 <= Len(cache)
          /\ \A i \in 1..3 : cache[end + i] = t[i]
      <4>1. Starts(cache, body \o t)
        BY <2>1, <2>4
      <4>2. /\ Starts(cache, body) /\ Len(body) + Len(t) <= Len(cache)
            /\ \A i \in 1..Len(t) : cache[Len(body) + i] = t[i]
        <5>1. body \in Seq(Bytes8) /\ t \in Seq(Bytes8)
          BY <1>1, <2>1
        <5> QED
          BY <4>1, <5>1, StartsConcat
      <4> QED
        BY <1>1, <2>1, <4>2
    <3>2. cache[end + 1] = 187 /\ cache[end + 2] = lo /\ cache[end + 3] = hi
      BY <2>1, <3>1
    <3>3. Len(cache) \in Nat
      OBVIOUS
    <3> DEFINE n == Len(cache)
    <3>4. n \in Nat /\ end + 3 <= n
      BY <3>1, <3>3
    <3> HIDE DEF n
    <3>5. /\ end < n /\ end + 1 < n /\ end + 2 < n /\ n >= end + 1
          /\ (end + 1) + 1 = end + 2 /\ (end + 2) + 1 = end + 3
      BY <1>2, <3>4
    <3>6. ByteAt(cache, end) = 187 /\ ByteAt(cache, end + 1) = lo /\ ByteAt(cache, end + 2) = hi
      BY <3>2, <3>5 DEF ByteAt, n
    <3>7. Starts(cache, w)
      <4>1. \A i \in 1..end+1 : cache[i] = w[i]
        <5> TAKE i \in 1..end+1
        <5>1. CASE i = end + 1
          BY <1>1, <1>5, <3>2, <5>1
        <5>2. CASE i # end + 1
          <6>1. i \in 1..end
            BY <1>2, <5>2
          <6>2. cache[i] = body[i]
            BY <1>1, <3>1, <6>1 DEF Starts
          <6>3. w[i] = body[i]
            BY <1>1, <1>4, <6>1 DEF w
          <6> QED
            BY <6>2, <6>3
        <5> QED
          BY <5>1, <5>2
      <4> QED
        BY <1>5, <3>5, <4>1 DEF Starts, n
    <3>8. SubSeq(cache, 1, end + 1) = w
      BY <1>5, <3>7, StartsSubSeq
    <3> QED
      BY <1>6, <3>1, <3>5, <3>6, <3>8 DEF n
  <2> QED
    BY <1>7, <2>2, <2>3, <2>4 DEF whole, body, end
<1>8. CASE ~crc
  <2>1. whole \in Seq(Bytes8) /\ Len(whole) = end + 1 /\ whole = body \o <<186>>
    BY <1>1, <1>3, <1>4, <1>8, AppendIsBytes
  <2>2. Len(whole) >= 4 /\ Len(whole) <= end + 3
    BY <1>2, <2>1
  <2>3. ASSUME NEW cache \in Seq(Bytes8), Starts(cache, whole)
        PROVE  Starts(cache, body) /\ Len(cache) >= end + 1 /\ ByteAt(cache, end) = 186
    <3> DEFINE t == <<186>>
    <3>1. t \in Seq(Bytes8) /\ Len(t) = 1 /\ t[1] = 186
      BY <1>4
    <3>2. Starts(cache, body \o t)
      BY <2>1, <2>3
    <3> HIDE DEF t
    <3>3. /\ Starts(cache, body) /\ Len(body) + Len(t) <= Len(cache)
          /\ \A i \in 1..Len(t) : cache[Len(body) + i] = t[i]
      <4>1. body \in Seq(Bytes8) /\ t \in Seq(Bytes8)
        BY <1>1, <3>1
      <4> QED
        BY <3>2, <4>1, StartsConcat
    <3>4. 1 \in 1..Len(t)
      BY <3>1
    <3>5. cache[end + 1] = 186 /\ end + 1 <= Len(cache)
      BY <1>1, <3>1, <3>3, <3>4
    <3> DEFINE n == Len(cache)
    <3>6. n \in Nat /\ end + 1 <= n
      BY <3>5
    <3> HIDE DEF n
    <3>7. end < n /\ n >= end + 1
      BY <1>2, <3>6
    <3> QED
      BY <3>3, <3>5, <3>7 DEF ByteAt, n
  <2> QED
    BY <1>8, <2>1, <2>2, <2>3 DEF whole, body, end
<1> QED
  BY <1>7, <1>8

(* What begins with a frame is taken apart into what the frame was put     *)
(* together from.                                                          *)
LEMMA GetsFrame ==
  ASSUME NEW flag, NEW parm, NEW crc \in BOOLEAN, IsFrame(flag, parm),
         NEW cache \in Seq(Bytes8), Starts(cache, CreateFrame(flag, parm, crc))
  PROVE  /\ GetFrame(cache).ok
         /\ GetFrame(cache).flag = flag
         /\ GetFrame(cache).parameter = Offset(flag, parm)
         /\ GetFrame(cache).parameter_len = Len(parm)
<1> DEFINE l == LengthField(Len(parm))
           f == Len(flag)
           n == Len(parm)
           len == Len(cache)
           off == Offset(flag, parm)
           heads == {i \in 0..(len - 1) : ByteAt(cache, i) = 170}
           zeros == {i \in 1..(len - 1) : ByteAt(cache, i) = 0}
           flagEnd == Min(zeros)
           start == ParmStart(cache, flagEnd)
           end == start + ParmLen(cache, flagEnd)
           mark == ByteAt(cache, end)
           sum == ByteAt(cache, end + 1) + 256 * ByteAt(cache, end + 2)
<1>1. f \in Nat /\ n \in Words /\ flag \in Seq(1..255) /\ len \in Nat
  BY DEF IsFrame, Words
<1>2. /\ Len(CreateFrame(flag, parm, crc)) >= 4
      /\ Starts(cache, FrameBody(flag, parm)) /\ len >= off + n + 1
      /\ ~crc => ByteAt(cache, off + n) = 186
      /\ crc => /\ ByteAt(cache, off + n) = 187
                /\ ByteAt(cache, off + n + 1) + 256 * ByteAt(cache, off + n + 2)
                     = hxCRC16(SubSeq(cache, 1, off + n + 1))
  BY FrameBytes
<1>3. /\ cache[1] = 170
      /\ \A i \in 1..f : cache[1 + i] = flag[i]
      /\ cache[2 + f] = 0
      /\ \A i \in 1..Len(l) : cache[2 + f + i] = l[i]
      /\ off + n <= len
  BY <1>2, BodyBytes
<1>4. /\ Len(l) = IF n < 255 THEN 1 ELSE 3
      /\ l[1] = 255 <=> n >= 255
      /\ n < 255 => l[1] = n
      /\ n >= 255 => l[2] + 256 * l[3] = n
  <2> HIDE DEF n
  <2>1. /\ Len(LengthField(n)) = IF n < 255 THEN 1 ELSE 3
        /\ LengthField(n)[1] = 255 <=> n >= 255
        /\ n < 255 => LengthField(n)[1] = n
        /\ n >= 255 => LengthField(n)[2] + 256 * LengthField(n)[3] = n
    BY <1>1, LengthBytes
  <2> QED
    BY <2>1 DEF n
<1>5. off = f + (IF n < 255 THEN 3 ELSE 5)
  BY DEF Offset
<1> HIDE DEF l, f, n, len, off
<1>6. n \in Nat
  BY <1>1 DEF Words
<1>7. \A i \in Nat : i < len => ByteAt(cache, i) = cache[i + 1]
  BY DEF ByteAt, len
<1>8. /\ f + 1 \in 1..len - 1 /\ 0 \in 0..len - 1 /\ 0 < len /\ len >= 4
      /\ f + 2 < len /\ (n >= 255 => f + 4 < len) /\ off \in Nat
  BY <1>1, <1>2, <1>5, <1>6
<1>9. heads # {} /\ Min(heads) = 0
  <2>1. ByteAt(cache, 0) = 170
    <3>1. 0 \in Nat /\ 0 + 1 = 1
      OBVIOUS
    <3> QED
      BY <1>3, <1>7, <1>8, <3>1
  <2>2. 0 \in heads /\ heads \in SUBSET Nat
    BY <1>8, <2>1
  <2> HIDE DEF heads
  <2>3. Min(heads) \in heads /\ \A y \in heads : Min(heads) <= y
    BY <2>2, MinIsLeast
  <2>4. Min(heads) \in Nat /\ Min(heads) <= 0
    BY <2>2, <2>3
  <2> DEFINE x == Min(heads)
  <2> HIDE DEF x
  <2>5. x \in Nat /\ x <= 0 => x = 0
    OBVIOUS
  <2> QED
    BY <2>2, <2>4, <2>5 DEF x
<1>10. zeros # {} /\ flagEnd = f + 1
  <2>1. ByteAt(cache, f + 1) = 0
    <3>1. f + 1 \in Nat /\ (f + 1) + 1 = 2 + f /\ f + 1 < len
      BY <1>1, <1>8
    <3>2. ByteAt(cache, f + 1) = cache[(f + 1) + 1]
      BY <1>7, <3>1
    <3> QED
      BY <1>3, <3>1, <3>2
  <2>2. \A i \in 1..f : ByteAt(cache, i) # 0
    <3> TAKE i \in 1..f
    <3>1. i \in Nat /\ i < len /\ i + 1 = 1 + i
      BY <1>1, <1>8
    <3>2. ByteAt(cache, i) = flag[i]
      BY <1>3, <1>7, <3>1
    <3>3. flag[i] \in 1..255
      <4>1. i \in 1..Len(flag) /\ flag \in Seq(1..255)
        BY <1>1 DEF f
      <4> QED
        BY <4>1, ElementOfSeq
    <3> HIDE DEF f
    <3> DEFINE x == flag[i]
    <3>4. x \in 1..255 /\ ByteAt(cache, i) = x
      BY <3>2, <3>3
    <3> HIDE DEF x
    <3> QED
      BY <3>4
  <2>3. f + 1 \in zeros /\ zeros \in SUBSET Nat /\ \A y \in zeros : f + 1 <= y
    <3>1. ASSUME NEW y \in zeros
          PROVE  f + 1 <= y
      <4>1. y \in Nat /\ y >= 1 /\ ByteAt(cache, y) = 0
        BY <1>1
      <4>2. y \notin 1..f
        BY <2>2, <4>1
      <4> QED
        BY <1>1, <4>1, <4>2
    <3>2. f + 1 \in zeros
      BY <1>8, <2>1
    <3>3. zeros \in SUBSET Nat
      BY <1>1
    <3> QED
      BY <3>1, <3>2, <3>3
  <2> HIDE DEF zeros
  <2>4. Min(zeros) \in zeros /\ \A y \in zeros : Min(zeros) <= y
    BY <2>3, MinIsLeast
  <2> DEFINE x == Min(zeros)
  <2>5. x \in Nat /\ x <= f + 1 /\ f + 1 <= x
    BY <2>3, <2>4
  <2> HIDE DEF x
  <2>6. x = f + 1
    BY <1>1, <2>5
  <2> QED
    BY <2>3, <2>6 DEF x
<1> HIDE DEF heads, zeros, flagEnd
<1>11. /\ ByteAt(cache, flagEnd + 1) = l[1]
       /\ n >= 255 => ByteAt(cache, flagEnd + 2) = l[2] /\ ByteAt(cache, flagEnd + 3) = l[3]
  <2>1. /\ flagEnd + 1 \in Nat /\ flagEnd + 1 < len /\ (flagEnd + 1) + 1 = 2 + f + 1
        /\ n >= 255 => /\ flagEnd + 2 \in Nat /\ flagEnd + 2 < len /\ (flagEnd + 2) + 1 = 2 + f + 2
                       /\ flagEnd + 3 \in Nat /\ flagEnd + 3 < len /\ (flagEnd + 3) + 1 = 2 + f + 3
    BY <1>1, <1>8, <1>10
  <2>2. 1 \in 1..Len(l) /\ (n >= 255 => 2 \in 1..Len(l) /\ 3 \in 1..Len(l))
    BY <1>4, <1>6
  <2>3. ByteAt(cache, flagEnd + 1) = l[1]
    BY <1>3, <1>7, <2>1, <2>2
  <2>4. ASSUME n >= 255
        PROVE  ByteAt(cache, flagEnd + 2) = l[2] /\ ByteAt(cache, flagEnd + 3) = l[3]
    BY <1>3, <1>7, <2>1, <2>2, <2>4
  <2> QED
    BY <2>3, <2>4
<1>12. start = off
  <2>1. CASE n < 255
    BY <1>1, <1>4, <1>5, <1>6, <1>10, <1>11, <2>1 DEF ParmStart
  <2>2. CASE n >= 255
    BY <1>1, <1>4, <1>5, <1>6, <1>10, <1>11, <2>2 DEF ParmStart
  <2> QED
    BY <1>6, <2>1, <2>2
<1>13. ParmLen(cache, flagEnd) = n
  BY <1>4, <1>6, <1>11 DEF ParmLen
<1>14. end = off + n
  BY <1>12, <1>13
<1>15. /\ mark \in {186, 187} /\ ~(len < end + 1)
       /\ mark = 187 => sum = hxCRC16(SubSeq(cache, 1, end + 1))
  <2>1. ~(len < off + n + 1)
    BY <1>1, <1>2, <1>6, <1>8
  <2>2. mark = ByteAt(cache, off + n)
    BY <1>14
  <2>3. sum = ByteAt(cache, off + n + 1) + 256 * ByteAt(cache, off + n + 2)
    BY <1>14
  <2> HIDE DEF mark, sum, end
  <2>4. CASE crc
    BY <1>2, <1>14, <2>1, <2>2, <2>3, <2>4
  <2>5. CASE ~crc
    BY <1>2, <1>14, <2>1, <2>2, <2>3, <2>5
  <2> QED
    BY <2>4, <2>5
<1>16. GetFrame(cache) =
         IF len < 4 THEN Cut(0)
         ELSE IF heads = {} THEN Cut(len)
         ELSE IF Min(heads) > 0 THEN Cut(Min(heads))
         ELSE IF zeros = {} THEN Cut(1)
         ELSE IF len < end + 1 THEN Cut(0)
         ELSE IF mark \notin {186, 187} THEN Cut(1)
         ELSE IF mark = 187 /\ sum # hxCRC16(SubSeq(cache, 1, end + 1)) THEN Cut(1)
         ELSE [n  |-> IF mark = 187 THEN end + 3 ELSE end + 1,
               ok |-> TRUE,
               flag |-> SubSeq(cache, 2, flagEnd), parameter |-> start,
               parameter_len |-> end - start]
  BY DEF GetFrame, len, heads, zeros, flagEnd
<1>17. ~(len < 4) /\ ~(Min(heads) > 0)
  <2>1. ~(len < 4)
    BY <1>1, <1>8
  <2>2. ~(Min(heads) > 0)
    BY <1>9
  <2> QED
    BY <2>1, <2>2
<1> HIDE DEF mark, sum, end, start
<1>18. GetFrame(cache) = [n  |-> IF mark = 187 THEN end + 3 ELSE end + 1,
                          ok |-> TRUE,
                          flag |-> SubSeq(cache, 2, flagEnd), parameter |-> start,
                          parameter_len |-> end - start]
  BY <1>9, <1>10, <1>15, <1>16, <1>17
<1>19. SubSeq(cache, 2, flagEnd) = flag
  <2>1. flagEnd = f + 1 /\ f + 1 < len
    BY <1>1, <1>8, <1>10
  <2>2. SubSeq(cache, 2, f + 1) = [i \in 1..f |-> cache[1 + i]]
    <3>1. (f + 1) - 1 = f /\ \A i \in 1..f : (i + 2) - 1 = 1 + i
      BY <1>1
    <3>2. SubSeq(cache, 2, f + 1) = [i \in 1..f |-> cache[1 + i]]
      BY <1>1, <2>1, <3>1 DEF len
    <3> QED
      BY <3>2
  <2>3. flag = [i \in 1..f |-> flag[i]]
    BY <1>1 DEF f
  <2> QED
    BY <1>3, <2>1, <2>2, <2>3
<1>20. end - start = n
  BY <1>6, <1>8, <1>12, <1>14
<1> QED
  BY <1>12, <1>18, <1>19, <1>20 DEF off, n

(* The parameters of a frame are where it says.                            *)
LEMMA FrameParms ==
  ASSUME NEW flag, NEW parm, NEW crc \in BOOLEAN, IsFrame(flag, parm),
         NEW cache \in Seq(Bytes8), Starts(cache, CreateFrame(flag, parm, crc))
  PROVE  /\ Offset(flag, parm) \in Nat
         /\ Bytes(cache, Offset(flag, parm), Len(parm)) = parm
         /\ \A i \in 1..Len(parm) : ByteAt(cache, Offset(flag, parm) + i - 1) = parm[i]
<1> DEFINE n == Len(parm)
           off == Offset(flag, parm)
           c == Len(cache)
<1>1. off \in Nat /\ n \in Nat /\ parm \in Seq(Bytes8)
  <2>1. Len(flag) \in Nat /\ Len(parm) \in Nat /\ parm \in Seq(Bytes8)
    <3> HIDE DEF Bytes8
    <3> QED
      BY DEF IsFrame
  <2> DEFINE k == Len(flag)
             l == Len(parm)
  <2>2. off = k + (IF l < 255 THEN 3 ELSE 5)
    BY DEF Offset
  <2>3. k \in Nat /\ l \in Nat
    BY <2>1
  <2> HIDE DEF k, l, off
  <2>4. off \in Nat
    BY <2>2, <2>3
  <2> QED
    BY <2>1, <2>4
<1>2. Starts(cache, FrameBody(flag, parm))
  BY FrameBytes
<1>3. /\ \A i \in 1..n : cache[off + i] = parm[i]
      /\ off + n <= c
  BY <1>2, BodyBytes
<1>4. DOMAIN cache = 1..c /\ c \in Nat
  OBVIOUS
<1> HIDE DEF off, n, c
<1>5. \A i \in 1..n : off + i \in DOMAIN cache /\ (off + i - 1) + 1 = off + i /\ off + i - 1 < c
  BY <1>1, <1>3, <1>4
<1>6. \A i \in 1..n : Byte(cache, off + i - 1) = parm[i] /\ ByteAt(cache, off + i - 1) = parm[i]
  <2> TAKE i \in 1..n
  <2>1. off + i \in DOMAIN cache /\ (off + i - 1) + 1 = off + i /\ off + i - 1 < c
        /\ cache[off + i] = parm[i]
    BY <1>3, <1>5
  <2> QED
    BY <2>1 DEF Byte, ByteAt, c
<1>7. Bytes(cache, off, n) = [i \in 1..n |-> Byte(cache, off + i - 1)]
  BY DEF Bytes
<1>8. parm = [i \in 1..n |-> parm[i]]
  BY <1>1 DEF n
<1>9. Bytes(cache, off, n) = parm
  BY <1>6, <1>7, <1>8
<1> QED
  BY <1>1, <1>6, <1>9 DEF off, n

-----------------------------------------------------------------------------
(* Messages.                                                               *)

(* Where the body of a message is, behind the fixed header.                *)
BodyAt(n) == IF n > 127 THEN 3 ELSE 2

LEMMA MessageBytes ==
  ASSUME NEW type \in 0..15, NEW qos \in 0..3, NEW body \in Seq(Bytes8)
  PROVE  /\ Message(type, qos, body) \in Seq(Bytes8)
         /\ Len(Message(type, qos, body)) <= MQTT_BUF_SIZE
         /\ Fits(body) =>
              /\ Len(Message(type, qos, body)) = BodyAt(Len(body)) + Len(body)
              /\ \A b \in Seq(Bytes8) : Starts(b, Message(type, qos, body)) =>
                   /\ b[1] = 16 * type + 2 * qos
                   /\ Len(body) <= 127 => b[2] = Len(body)
                   /\ Len(body) > 127 => b[2] = 128 + (Len(body) % 128) /\ b[3] = Len(body) \div 128
                   /\ \A i \in 1..Len(body) : b[BodyAt(Len(body)) + i] = body[i]
<1> DEFINE n == Len(body)
           h == 16 * type + 2 * qos
           r == RemainingLength(n)
           m == Message(type, qos, body)
           u == <<h>>
           v == u \o r
<1>1. n \in Nat /\ MQTT_BUF_SIZE \in Nat /\ MQTT_BUF_SIZE <= 16386
  BY BufSizeAssumption
<1>2. h \in Bytes8
  BY DEF Bytes8
<1>3. CASE ~Fits(body)
  <2>1. m = <<>> /\ <<>> \in Seq(Bytes8) /\ Len(<<>>) = 0
    BY <1>3 DEF Message
  <2> HIDE DEF m
  <2>2. Len(m) <= MQTT_BUF_SIZE
    BY <1>1, <2>1
  <2> QED
    BY <1>3, <2>1, <2>2 DEF m
<1>4. CASE Fits(body)
  <2>1. n <= 16383 /\ 3 + n <= MQTT_BUF_SIZE
    BY <1>1, <1>4 DEF Fits
  <2>2. m = v \o body
    BY <1>4 DEF Message
  <2> HIDE DEF n, h, m
  <2>3. /\ r \in Seq(Bytes8) /\ Len(r) = BodyAt(n) - 1
        /\ n <= 127 => r[1] = n
        /\ n > 127 => r[1] = 128 + (n % 128) /\ r[2] = n \div 128
    <3>1. CASE n <= 127
      <4>1. n \in Bytes8
        BY <1>1, <3>1 DEF Bytes8
      <4>2. r = <<n>> /\ BodyAt(n) = 2
        BY <1>1, <3>1 DEF RemainingLength, BodyAt
      <4> HIDE DEF r, Bytes8
      <4>3. r \in Seq(Bytes8) /\ Len(r) = 1 /\ r[1] = n
        BY <4>1, <4>2
      <4> QED
        BY <1>1, <3>1, <4>2, <4>3
    <3>2. CASE n > 127
      <4> DEFINE x == 128 + (n % 128)
                 y == n \div 128
      <4>1. x \in Bytes8 /\ y \in Bytes8
        BY <1>1, <2>1, <3>2 DEF Bytes8
      <4>2. r = <<x, y>> /\ BodyAt(n) = 3
        BY <1>1, <3>2 DEF RemainingLength, BodyAt
      <4> HIDE DEF r, x, y, Bytes8
      <4>3. r \in Seq(Bytes8) /\ Len(r) = 2 /\ r[1] = x /\ r[2] = y
        BY <4>1, <4>2
      <4>4. ~(n <= 127)
        BY <1>1, <3>2
      <4> QED
        BY <4>2, <4>3, <4>4 DEF x, y
    <3> QED
      BY <1>1, <3>1, <3>2
  <2> HIDE DEF r, Bytes8
  <2>4. u \in Seq(Bytes8) /\ Len(u) = 1 /\ u[1] = h
    BY <1>2
  <2> HIDE DEF u
  <2>5. v \in Seq(Bytes8) /\ Len(v) = Len(u) + Len(r)
    BY <2>3, <2>4, ConcatParts
  <2>6. Len(v) = BodyAt(n)
    BY <2>3, <2>4, <2>5 DEF BodyAt
  <2> HIDE DEF v
  <2>7. m \in Seq(Bytes8) /\ Len(m) = Len(v) + Len(body)
    BY <2>2, <2>5, ConcatParts
  <2>8. Len(m) = BodyAt(n) + n
    BY <2>6, <2>7 DEF n
  <2>9. Len(m) <= MQTT_BUF_SIZE
    BY <1>1, <2>1, <2>8 DEF BodyAt
  <2>10. ASSUME NEW b \in Seq(Bytes8), Starts(b, m)
         PROVE  /\ b[1] = h
                /\ n <= 127 => b[2] = n
                /\ n > 127 => b[2] = 128 + (n % 128) /\ b[3] = n \div 128
                /\ \A i \in 1..n : b[BodyAt(n) + i] = body[i]
    <3>1. Starts(b, v) /\ \A i \in 1..n : b[BodyAt(n) + i] = body[i]
      <4>1. Starts(b, v \o body)
        BY <2>2, <2>10
      <4>2. Starts(b, v) /\ \A i \in 1..Len(body) : b[Len(v) + i] = body[i]
        BY <2>5, <4>1, StartsConcat
      <4> QED
        BY <2>6, <4>2 DEF n
    <3>2. Starts(b, u) /\ \A i \in 1..Len(r) : b[1 + i] = r[i]
      <4>1. Starts(b, u \o r)
        BY <3>1 DEF v
      <4>2. Starts(b, u) /\ \A i \in 1..Len(r) : b[Len(u) + i] = r[i]
        BY <2>3, <2>4, <4>1, StartsConcat
      <4> QED
        BY <2>4, <4>2
    <3>3. b[1] = h
      BY <2>4, <3>2 DEF Starts
    <3>4. ASSUME n <= 127
          PROVE  b[2] = n
      <4>1. 1 \in 1..Len(r) /\ 1 + 1 = 2
        BY <1>1, <2>3, <3>4 DEF BodyAt
      <4>2. b[1 + 1] = r[1]
        BY <3>2, <4>1
      <4> QED
        BY <2>3, <3>4, <4>1, <4>2
    <3>5. ASSUME n > 127
          PROVE  b[2] = 128 + (n % 128) /\ b[3] = n \div 128
      <4>1. 1 \in 1..Len(r) /\ 2 \in 1..Len(r) /\ 1 + 1 = 2 /\ 1 + 2 = 3
        BY <1>1, <2>3, <3>5 DEF BodyAt
      <4>2. b[1 + 1] = r[1] /\ b[1 + 2] = r[2]
        BY <3>2, <4>1
      <4> QED
        BY <2>3, <3>5, <4>1, <4>2
    <3> QED
      BY <3>1, <3>3, <3>4, <3>5
  <2> QED
    BY <1>4, <2>7, <2>8, <2>9, <2>10 DEF n, h, m
<1> QED
  BY <1>3, <1>4

(* A message at the front of a buffer is taken apart as it was built,      *)
(* whatever lies behind it.                                                *)
LEMMA MessageRead ==
  ASSUME NEW type \in 0..15, NEW qos \in 0..3, NEW body \in Seq(Bytes8), Fits(body),
         NEW b \in Seq(Bytes8), Starts(b, Message(type, qos, body)),
         NEW len \in Nat, Len(Message(type, qos, body)) <= len
  PROVE  /\ GetType(b) = type /\ GetQos(b) = qos
         /\ HeaderEnd(b, len) = BodyAt(Len(body))
         /\ TotalLength(b, len) = Len(Message(type, qos, body))
         /\ \A i \in 0..Len(body)-1 : Byte(b, BodyAt(Len(body)) + i) = body[i + 1]
<1> DEFINE n == Len(body)
           m == Message(type, qos, body)
           at == BodyAt(n)
           last == {i \in 1..(len - 1) : Byte(b, i) < 128}
<1>1. n \in Nat /\ n <= 16383
  <2>1. n \in Nat /\ MQTT_BUF_SIZE \in Nat /\ MQTT_BUF_SIZE <= 16386
    BY BufSizeAssumption
  <2> HIDE DEF n
  <2>2. 3 + n <= MQTT_BUF_SIZE
    BY DEF Fits, n
  <2> QED
    BY <2>1, <2>2
<1>2. /\ Len(m) = at + n
      /\ b[1] = 16 * type + 2 * qos
      /\ n <= 127 => b[2] = n
      /\ n > 127 => b[2] = 128 + (n % 128) /\ b[3] = n \div 128
      /\ \A i \in 1..n : b[at + i] = body[i]
  <2> HIDE DEF Bytes8
  <2>1. /\ Len(Message(type, qos, body)) = BodyAt(Len(body)) + Len(body)
        /\ \A x \in Seq(Bytes8) : Starts(x, Message(type, qos, body)) =>
             /\ x[1] = 16 * type + 2 * qos
             /\ Len(body) <= 127 => x[2] = Len(body)
             /\ Len(body) > 127 => x[2] = 128 + (Len(body) % 128) /\ x[3] = Len(body) \div 128
             /\ \A i \in 1..Len(body) : x[BodyAt(Len(body)) + i] = body[i]
    BY MessageBytes
  <2> QED
    BY <2>1
<1>3. Len(m) <= Len(b) /\ Len(b) \in Nat /\ DOMAIN b = 1..Len(b)
  BY DEF Starts
<1> HIDE DEF n, m
<1>4. at \in {2, 3} /\ (n <= 127 <=> at = 2) /\ (n > 127 <=> at = 3)
  BY <1>1 DEF BodyAt
<1> HIDE DEF at
<1> DEFINE size == Len(b)
<1>5. size \in Nat /\ at + n <= size /\ at + n <= len /\ \A i \in 0..size-1 : i + 1 \in DOMAIN b
  BY <1>2, <1>3 DEF m
<1> HIDE DEF size
<1>6. \A i \in 0..at+n-1 : Byte(b, i) = b[i + 1]
  BY <1>1, <1>4, <1>5 DEF Byte
<1>7. Byte(b, 0) = 16 * type + 2 * qos
  <2>1. 0 \in 0..at+n-1 /\ 0 + 1 = 1
    BY <1>1, <1>4
  <2> QED
    BY <1>2, <1>6, <2>1
<1>8. GetType(b) = type /\ GetQos(b) = qos
  <2> DEFINE h == 16 * type + 2 * qos
  <2>1. h \div 16 = type /\ h \div 2 = 8 * type + qos /\ (8 * type + qos) % 4 = qos
    OBVIOUS
  <2>2. GetType(b) = h \div 16 /\ GetQos(b) = (h \div 2) % 4
    BY <1>7 DEF GetType, GetQos
  <2> QED
    BY <2>1, <2>2
<1>9. ASSUME NEW i \in 0..n-1
      PROVE  Byte(b, at + i) = body[i + 1]
  <2>1. at + i \in 0..at+n-1 /\ (at + i) + 1 = at + (i + 1) /\ i + 1 \in 1..n
    BY <1>1, <1>4
  <2> QED
    BY <1>2, <1>6, <2>1
<1>10. /\ at = 2 => Byte(b, 1) = n /\ n <= 127
       /\ at = 3 => Byte(b, 1) = 128 + (n % 128) /\ Byte(b, 2) = n \div 128 /\ n > 127
  <2>1. 1 \in 0..at+n-1 /\ 1 + 1 = 2 /\ (at = 3 => 2 \in 0..at+n-1) /\ 2 + 1 = 3
    BY <1>1, <1>4
  <2>2. Byte(b, 1) = b[2] /\ (at = 3 => Byte(b, 2) = b[3])
    BY <1>6, <2>1
  <2> QED
    BY <1>2, <1>4, <2>2
<1>11. HeaderEnd(b, len) = at
  <2>1. at - 1 \in last /\ \A y \in last : at - 1 <= y
    <3>1. CASE at = 2
      BY <1>1, <1>5, <1>10, <3>1
    <3>2. CASE at = 3
      <4>1. Byte(b, 2) < 128 /\ ~(Byte(b, 1) < 128)
        BY <1>1, <1>10, <3>2
      <4>2. 2 \in 1..len-1
        BY <1>1, <1>5, <3>2
      <4>3. 2 \in last /\ 1 \notin last
        BY <4>1, <4>2
      <4>4. \A y \in last : y \in Int /\ y >= 1
        OBVIOUS
      <4> HIDE DEF last
      <4>5. \A y \in last : y # 1
        BY <4>3
      <4>6. \A y \in last : 2 <= y
        BY <4>4, <4>5
      <4>7. at - 1 = 2
        BY <3>2
      <4> QED
        BY <4>3, <4>6, <4>7
    <3> QED
      BY <1>4, <3>1, <3>2
  <2>2. last \in SUBSET Nat
    OBVIOUS
  <2>3. HeaderEnd(b, len) = IF last = {} THEN Max({1, len}) ELSE Min(last) + 1
    BY DEF HeaderEnd
  <2> HIDE DEF last
  <2> DEFINE x == Min(last)
  <2>4. x \in last /\ \A y \in last : x <= y
    BY <2>1, <2>2, MinIsLeast
  <2>5. x \in Nat /\ x <= at - 1 /\ at - 1 <= x
    BY <2>1, <2>2, <2>4
  <2>6. HeaderEnd(b, len) = x + 1
    BY <2>1, <2>3
  <2> HIDE DEF x
  <2> QED
    BY <1>4, <2>5, <2>6
<1>12. Remaining(b, len) = n
  <2> DEFINE k == HeaderEnd(b, len) - 1
             F == CHOOSE f : f = [j \in 0..k |-> IF j = 0 THEN 0
                                                ELSE (Byte(b, k + 1 - j) % 128) + 128 * f[j - 1]]
             d == Byte(b, k) % 128
             g == [j \in 0..k |-> IF j = 0 THEN 0 ELSE IF j = 1 THEN d
                                  ELSE (Byte(b, 1) % 128) + 128 * d]
  <2>1. Remaining(b, len) = F[k]
    BY DEF Remaining
  <2>2. k \in {1, 2} /\ k = at - 1
    BY <1>4, <1>11
  <2> HIDE DEF k
  <2>3. d \in Nat /\ (at = 2 => d = n) /\ (at = 3 => d = n \div 128 /\ Byte(b, 1) % 128 = n % 128)
    BY <1>1, <1>10, <2>2, <1>4
  <2> HIDE DEF d
  <2>4. g = [j \in 0..k |-> IF j = 0 THEN 0 ELSE (Byte(b, k + 1 - j) % 128) + 128 * g[j - 1]]
    <3>1. ASSUME NEW j \in 0..k, j # 0
          PROVE  g[j] = (Byte(b, k + 1 - j) % 128) + 128 * g[j - 1]
      <4>1. CASE j = 1
        <5>1. g[1] = d /\ g[0] = 0 /\ k + 1 - 1 = k /\ j - 1 = 0
          BY <2>2, <4>1
        <5>2. d = (Byte(b, k) % 128) + 128 * 0
          BY <2>3 DEF d
        <5> HIDE DEF g
        <5> QED
          BY <4>1, <5>1, <5>2
      <4>2. CASE j # 1
        <5>1. j = 2 /\ k = 2
          BY <2>2, <3>1, <4>2
        <5>2. g[2] = (Byte(b, 1) % 128) + 128 * d /\ g[1] = d /\ k + 1 - 2 = 1 /\ j - 1 = 1
          BY <5>1
        <5> HIDE DEF g
        <5> QED
          BY <5>1, <5>2
      <4> QED
        BY <4>1, <4>2
    <3>2. g[0] = 0
      BY <2>2
    <3> QED
      BY <3>1, <3>2
  <2> HIDE DEF g
  <2>5. F = [j \in 0..k |-> IF j = 0 THEN 0 ELSE (Byte(b, k + 1 - j) % 128) + 128 * F[j - 1]]
    BY <2>4
  <2> HIDE DEF F
  <2>6. F[0] = 0 /\ F[1] = d /\ (k = 2 => F[2] = (Byte(b, 1) % 128) + 128 * d)
    <3>1. 0 \in 0..k /\ 1 \in 0..k /\ (k = 2 => 2 \in 0..k) /\ k + 1 - 1 = k /\ 1 - 1 = 0
          /\ 2 - 1 = 1 /\ (k = 2 => k + 1 - 2 = 1)
      BY <2>2
    <3>2. F[0] = 0
      BY <2>5, <3>1, Zenon
    <3>3. F[1] = (Byte(b, k + 1 - 1) % 128) + 128 * F[1 - 1]
      BY <2>5, <3>1
    <3>4. F[1] = (Byte(b, k) % 128) + 128 * 0
      BY <3>1, <3>2, <3>3
    <3>5. F[1] = d
      BY <2>3, <3>4 DEF d
    <3>6. ASSUME k = 2
          PROVE  F[2] = (Byte(b, 1) % 128) + 128 * d
      <4>1. F[2] = (Byte(b, k + 1 - 2) % 128) + 128 * F[2 - 1]
        BY <2>5, <3>1, <3>6
      <4> QED
        BY <3>1, <3>5, <3>6, <4>1
    <3> QED
      BY <3>2, <3>5, <3>6
  <2>7. CASE at = 2
    BY <2>1, <2>2, <2>3, <2>6, <2>7
  <2>8. CASE at = 3
    <3>1. F[k] = (n % 128) + 128 * (n \div 128)
      BY <2>2, <2>3, <2>6, <2>8
    <3>2. (n % 128) + 128 * (n \div 128) = n
      BY <1>1
    <3> QED
      BY <2>1, <3>1, <3>2
  <2> QED
    BY <1>4, <2>7, <2>8
<1>13. TotalLength(b, len) = Len(m)
  BY <1>2, <1>11, <1>12 DEF TotalLength
<1> QED
  BY <1>8, <1>9, <1>11, <1>13 DEF n, m, at

-----------------------------------------------------------------------------
(* A PUBLISH.                                                              *)
PublishBody(topic, data, qos, id) ==
  String(topic) \o (IF qos > 0 THEN IdBytes(id) ELSE <<>>) \o data

IdLength(qos) == IF qos > 0 THEN 2 ELSE 0

LEMMA IdsAreBytes ==
  ASSUME NEW id \in Words
  PROVE  IdBytes(id) \in Seq(Bytes8) /\ Len(IdBytes(id)) = 2
<1> DEFINE x == id \div 256
           y == id % 256
<1>1. x \in Bytes8 /\ y \in Bytes8
  BY WordBytes
<1>2. IdBytes(id) = <<x, y>>
  BY DEF IdBytes
<1> HIDE DEF x, y, Bytes8
<1> QED
  BY <1>1, <1>2

(* The topic behind its length, and the data behind the id if there is one.*)
HoldsPublish(body, topic, data, qos, id) ==
  LET t == Len(topic)
      k == 2 + t + IdLength(qos)
  IN  /\ Len(body) = k + Len(data)
      /\ 256 * body[1] + body[2] = t
      /\ \A i \in 1..t : body[2 + i] = topic[i]
      /\ qos > 0 => 256 * body[2 + t + 1] + body[2 + t + 2] = id
      /\ \A i \in 1..Len(data) : body[k + i] = data[i]

LEMMA BodyOfPublish ==
  ASSUME NEW topic \in Seq(Bytes8), NEW data \in Seq(Bytes8), NEW qos \in 0..2, NEW id \in Words,
         Len(topic) \in Words
  PROVE  /\ PublishBody(topic, data, qos, id) \in Seq(Bytes8)
         /\ HoldsPublish(PublishBody(topic, data, qos, id), topic, data, qos, id)
<1> DEFINE t == Len(topic)
           n == Len(data)
           x == t \div 256
           y == t % 256
           p == <<x, y>>
           s == p \o topic
           ids == IF qos > 0 THEN IdBytes(id) ELSE <<>>
           u == s \o ids
           body == u \o data
<1>1. PublishBody(topic, data, qos, id) = body
  BY DEF PublishBody, String
<1>2. t \in Nat /\ n \in Nat
  OBVIOUS
<1>3. x \in Bytes8 /\ y \in Bytes8 /\ 256 * x + y = t
  <2> HIDE DEF t
  <2>1. t \in Words
    BY DEF t
  <2>2. t % 256 \in Bytes8 /\ t \div 256 \in Bytes8 /\ (t % 256) + 256 * (t \div 256) = t
    BY <2>1, WordBytes
  <2> DEFINE a == t % 256
             c == t \div 256
  <2>3. a \in Bytes8 /\ c \in Bytes8 /\ a + 256 * c = t /\ x = c /\ y = a
    BY <2>2
  <2> HIDE DEF a, c, x, y
  <2>4. 256 * c + a = t
    BY <2>3 DEF Bytes8
  <2> QED
    BY <2>3, <2>4
<1> HIDE DEF x, y, Bytes8
<1>4. p \in Seq(Bytes8) /\ Len(p) = 2 /\ p[1] = x /\ p[2] = y
  BY <1>3
<1>5. ids \in Seq(Bytes8) /\ Len(ids) = IdLength(qos)
  <2>1. <<>> \in Seq(Bytes8) /\ Len(<<>>) = 0
    OBVIOUS
  <2>2. IdBytes(id) \in Seq(Bytes8) /\ Len(IdBytes(id)) = 2
    BY IdsAreBytes
  <2>3. CASE qos > 0
    <3>1. ids = IdBytes(id) /\ IdLength(qos) = 2
      BY <2>3 DEF IdLength
    <3> HIDE DEF ids
    <3> QED
      BY <2>2, <3>1
  <2>4. CASE ~(qos > 0)
    <3>1. ids = <<>> /\ IdLength(qos) = 0
      BY <2>4 DEF IdLength
    <3> HIDE DEF ids
    <3> QED
      BY <2>1, <3>1
  <2> QED
    BY <2>3, <2>4
<1> HIDE DEF p, ids
<1>6. /\ s \in Seq(Bytes8) /\ Len(s) = Len(p) + Len(topic)
      /\ \A i \in 1..Len(p) : s[i] = p[i]
      /\ \A i \in 1..Len(topic) : s[Len(p) + i] = topic[i]
  <2>1. p \in Seq(Bytes8) /\ topic \in Seq(Bytes8)
    BY <1>4
  <2> QED
    BY <2>1, ConcatParts
<1> HIDE DEF s
<1>7. /\ u \in Seq(Bytes8) /\ Len(u) = Len(s) + Len(ids)
      /\ \A i \in 1..Len(s) : u[i] = s[i]
      /\ \A i \in 1..Len(ids) : u[Len(s) + i] = ids[i]
  <2>1. s \in Seq(Bytes8) /\ ids \in Seq(Bytes8)
    BY <1>5, <1>6
  <2> QED
    BY <2>1, ConcatParts
<1> HIDE DEF u
<1>8. /\ body \in Seq(Bytes8) /\ Len(body) = Len(u) + Len(data)
      /\ \A i \in 1..Len(u) : body[i] = u[i]
      /\ \A i \in 1..Len(data) : body[Len(u) + i] = data[i]
  <2>1. u \in Seq(Bytes8) /\ data \in Seq(Bytes8)
    BY <1>7
  <2> QED
    BY <2>1, ConcatParts
<1> HIDE DEF body, t, n
<1> DEFINE q == IdLength(qos)
<1>9. q \in Nat
  BY DEF IdLength
<1> HIDE DEF q
<1>10. Len(s) = 2 + t /\ Len(u) = 2 + t + q /\ Len(body) = 2 + t + q + n
  BY <1>4, <1>5, <1>6, <1>7, <1>8 DEF t, n, q
<1>11. \A i \in 1..2+t : body[i] = s[i]
  <2> TAKE i \in 1..2+t
  <2>1. i \in 1..Len(s) /\ i \in 1..Len(u)
    BY <1>2, <1>9, <1>10
  <2> QED
    BY <1>7, <1>8, <2>1
<1>12. body[1] = x /\ body[2] = y
  <2>1. 1 \in 1..2+t /\ 2 \in 1..2+t /\ 1 \in 1..Len(p) /\ 2 \in 1..Len(p)
    BY <1>2, <1>4
  <2> QED
    BY <1>4, <1>6, <1>11, <2>1
<1>13. \A i \in 1..t : body[2 + i] = topic[i]
  <2> TAKE i \in 1..t
  <2>1. 2 + i \in 1..2+t
    BY <1>2
  <2>2. s[2 + i] = topic[i]
    BY <1>4, <1>6 DEF t
  <2> QED
    BY <1>11, <2>1, <2>2
<1>14. \A i \in 1..n : body[2 + t + q + i] = data[i]
  BY <1>8, <1>10 DEF n
<1>15. ASSUME qos > 0
       PROVE  256 * body[2 + t + 1] + body[2 + t + 2] = id
  <2>1. Len(ids) = 2 /\ q = 2
    BY <1>5, <1>15 DEF IdLength, q
  <2>2. ids[1] = id \div 256 /\ ids[2] = id % 256
    BY <1>15 DEF ids, IdBytes
  <2>3. /\ 1 \in 1..Len(ids) /\ 2 \in 1..Len(ids)
        /\ Len(s) + 1 \in 1..Len(u) /\ Len(s) + 2 \in 1..Len(u)
    BY <1>2, <1>10, <2>1
  <2>4. body[Len(s) + 1] = id \div 256 /\ body[Len(s) + 2] = id % 256
    BY <1>7, <1>8, <2>2, <2>3
  <2>5. 256 * (id \div 256) + (id % 256) = id
    BY DEF Words
  <2> QED
    BY <1>10, <2>4, <2>5
<1> QED
  BY <1>1, <1>3, <1>8, <1>10, <1>12, <1>13, <1>14, <1>15 DEF t, n, q, HoldsPublish

LEMMA PublishBytes ==
  ASSUME NEW topic \in Seq(Bytes8), NEW data \in Seq(Bytes8), NEW qos \in 0..2, NEW id \in Words
  PROVE  /\ PublishMsg(topic, data, qos, id) \in Seq(Bytes8)
         /\ Len(PublishMsg(topic, data, qos, id)) <= MQTT_BUF_SIZE
         /\ PublishMsg(topic, data, qos, id) # <<>> =>
              /\ topic # <<>> /\ Fits(PublishBody(topic, data, qos, id))
              /\ PublishMsg(topic, data, qos, id)
                   = Message(PUBLISH, qos, PublishBody(topic, data, qos, id))
              /\ Len(topic) \in Words
<1> DEFINE body == PublishBody(topic, data, qos, id)
           m == PublishMsg(topic, data, qos, id)
<1>1. m = IF topic = <<>> THEN <<>> ELSE Message(PUBLISH, qos, body)
  BY DEF PublishMsg, PublishBody
<1>2. Fits(body) => Len(topic) \in Words /\ body \in Seq(Bytes8)
  <2> SUFFICES ASSUME Fits(body)
               PROVE  Len(topic) \in Words /\ body \in Seq(Bytes8)
    OBVIOUS
  <2> DEFINE ids == IF qos > 0 THEN IdBytes(id) ELSE <<>>
             l == Len(topic)
             p == <<l \div 256, l % 256>>
             s == p \o topic
  <2>1. body = (s \o ids) \o data
    BY DEF PublishBody, String
  <2>2. p \in Seq(Nat) /\ topic \in Seq(Nat) /\ data \in Seq(Nat) /\ ids \in Seq(Nat)
        /\ Len(p) = 2
    <3>1. l \in Nat
      OBVIOUS
    <3>2. l \div 256 \in Nat /\ l % 256 \in Nat /\ id \div 256 \in Nat /\ id % 256 \in Nat
      BY <3>1 DEF Words
    <3>3. topic \in Seq(Nat) /\ data \in Seq(Nat)
      <4>1. Bytes8 \subseteq Nat
        BY DEF Bytes8
      <4> HIDE DEF Bytes8
      <4> QED
        BY <4>1, SeqMonotonic
    <3> QED
      BY <3>2, <3>3 DEF IdBytes
  <2> HIDE DEF ids, p
  <2>3. s \in Seq(Nat) /\ Len(s) = Len(p) + Len(topic)
    BY <2>2, ConcatParts
  <2> HIDE DEF s
  <2>4. s \o ids \in Seq(Nat) /\ Len(s \o ids) = Len(s) + Len(ids)
    BY <2>2, <2>3, ConcatParts
  <2> DEFINE u == s \o ids
  <2> HIDE DEF u
  <2>5. Len(u \o data) = Len(u) + Len(data)
    BY <2>2, <2>4, ConcatParts DEF u
  <2>6. Len(body) = 2 + l + Len(ids) + Len(data)
    BY <2>1, <2>2, <2>3, <2>4, <2>5 DEF u
  <2>7. 3 + Len(body) <= MQTT_BUF_SIZE /\ MQTT_BUF_SIZE \in Nat /\ MQTT_BUF_SIZE <= 16386
    BY BufSizeAssumption DEF Fits
  <2> DEFINE i == Len(ids)
             d == Len(data)
             z == MQTT_BUF_SIZE
             v == Len(body)
  <2>8. l \in Nat /\ i \in Nat /\ d \in Nat /\ z \in Nat /\ z <= 16386 /\ 3 + v <= z
        /\ v = 2 + l + i + d
    BY <2>2, <2>6, <2>7
  <2> HIDE DEF i, d, z, v, l, body
  <2>9. l \in Words
    BY <2>8 DEF Words
  <2>10. Len(topic) \in Words
    BY <2>9 DEF l
  <2>11. PublishBody(topic, data, qos, id) \in Seq(Bytes8)
    BY <2>10, BodyOfPublish
  <2> QED
    BY <2>10, <2>11 DEF body
<1>3. ~Fits(body) => Message(PUBLISH, qos, body) = <<>>
  BY DEF Message
<1>4. <<>> \in Seq(Bytes8) /\ Len(<<>>) <= MQTT_BUF_SIZE
  BY BufSizeAssumption
<1>5. PUBLISH \in 0..15 /\ qos \in 0..3
  BY DEF PUBLISH
<1> HIDE DEF body, m
<1>6. Fits(body) => /\ Message(PUBLISH, qos, body) \in Seq(Bytes8)
                    /\ Len(Message(PUBLISH, qos, body)) <= MQTT_BUF_SIZE
  <2> HIDE DEF Bytes8
  <2> SUFFICES ASSUME Fits(body)
               PROVE  /\ Message(PUBLISH, qos, body) \in Seq(Bytes8)
                      /\ Len(Message(PUBLISH, qos, body)) <= MQTT_BUF_SIZE
    OBVIOUS
  <2>1. body \in Seq(Bytes8)
    BY <1>2
  <2> QED
    BY <1>5, <2>1, MessageBytes
<1>7. m \in Seq(Bytes8) /\ Len(m) <= MQTT_BUF_SIZE
  BY <1>1, <1>3, <1>4, <1>6
<1>8. m # <<>> => /\ topic # <<>> /\ Fits(body) /\ Len(topic) \in Words
                  /\ m = Message(PUBLISH, qos, body)
  BY <1>1, <1>2, <1>3
<1> QED
  BY <1>7, <1>8 DEF m, body

(* Where they are found in a PUBLISH.                                      *)
TopicAt(topic, data, qos) == BodyAt(2 + Len(topic) + IdLength(qos) + Len(data)) + 2
DataAt(topic, data, qos) == TopicAt(topic, data, qos) + Len(topic) + IdLength(qos)

LEMMA PublishRead ==
  ASSUME NEW topic \in Seq(Bytes8), NEW data \in Seq(Bytes8), NEW qos \in 0..2, NEW id \in Words,
         PublishMsg(topic, data, qos, id) # <<>>,
         NEW b \in Seq(Bytes8), Starts(b, PublishMsg(topic, data, qos, id)),
         NEW len \in Nat, Len(PublishMsg(topic, data, qos, id)) <= len
  PROVE  /\ GetType(b) = PUBLISH /\ GetQos(b) = qos
         /\ TotalLength(b, len) = Len(PublishMsg(topic, data, qos, id))
         /\ qos > 0 /\ Len(PublishMsg(topic, data, qos, id)) # len => GetId(b, len) = id
         /\ PublishTopic(b, len) = Piece(TopicAt(topic, data, qos), Len(topic))
         /\ \A i \in 1..Len(topic) : Byte(b, TopicAt(topic, data, qos) + i - 1) = topic[i]
         /\ data = <<>> /\ qos = 0 => PublishData(b, len).length = 0
         /\ data # <<>> => /\ PublishData(b, len) = Piece(DataAt(topic, data, qos), Len(data))
                           /\ DataAt(topic, data, qos) \in 0..Len(b)
                           /\ Starts(From(b, DataAt(topic, data, qos)), data)
<1> DEFINE m == PublishMsg(topic, data, qos, id)
           body == PublishBody(topic, data, qos, id)
           n == Len(body)
           at == BodyAt(n)
           T == Len(topic)
           I == IdLength(qos)
           D == Len(data)
           d == at + 2 + T + I
           size == Len(b)
<1>1. /\ topic # <<>> /\ Fits(body) /\ Len(topic) \in Words
      /\ m = Message(PUBLISH, qos, body)
  BY PublishBytes
<1>2. body \in Seq(Bytes8) /\ HoldsPublish(body, topic, data, qos, id)
  BY <1>1, BodyOfPublish
<1> HIDE DEF body, m
<1>3. /\ n = 2 + T + I + D
      /\ 256 * body[1] + body[2] = T
      /\ \A i \in 1..T : body[2 + i] = topic[i]
      /\ \A i \in 1..D : body[2 + T + I + i] = data[i]
      /\ qos > 0 => 256 * body[2 + T + 1] + body[2 + T + 2] = id
  BY <1>2 DEF HoldsPublish
<1>4. PUBLISH \in 0..15 /\ qos \in 0..3 /\ Starts(b, m) /\ Len(m) <= len
  BY DEF PUBLISH, m
<1>5. /\ GetType(b) = PUBLISH /\ GetQos(b) = qos
      /\ HeaderEnd(b, len) = at
      /\ TotalLength(b, len) = Len(m)
      /\ \A i \in 0..n-1 : Byte(b, at + i) = body[i + 1]
  <2> HIDE DEF Bytes8
  <2>1. Starts(b, Message(PUBLISH, qos, body)) /\ Len(Message(PUBLISH, qos, body)) <= len
    BY <1>1, <1>4
  <2>2. PUBLISH \in 0..15 /\ qos \in 0..3 /\ body \in Seq(Bytes8) /\ Fits(body)
    BY <1>1, <1>2, <1>4
  <2> DEFINE w == Message(PUBLISH, qos, body)
  <2>3. /\ GetType(b) = PUBLISH /\ GetQos(b) = qos
        /\ HeaderEnd(b, len) = BodyAt(Len(body))
        /\ TotalLength(b, len) = Len(w)
        /\ \A i \in 0..Len(body)-1 : Byte(b, BodyAt(Len(body)) + i) = body[i + 1]
    BY <2>1, <2>2, MessageRead
  <2> QED
    BY <1>1, <2>3
<1>6. Len(m) = at + n
  <2> HIDE DEF Bytes8
  <2>1. Len(Message(PUBLISH, qos, body)) = BodyAt(Len(body)) + Len(body)
    BY <1>1, <1>2, <1>4, MessageBytes
  <2> QED
    BY <1>1, <2>1
<1>7. /\ T \in Nat /\ T > 0 /\ D \in Nat /\ (data = <<>> <=> D = 0) /\ size \in Nat
      /\ DOMAIN b = 1..size /\ at + n <= size
  <2>1. Len(m) <= size
    BY <1>4 DEF Starts
  <2>2. T > 0
    BY <1>1
  <2> QED
    BY <1>6, <2>1, <2>2
<1>8. I = (IF qos > 0 THEN 2 ELSE 0) /\ at \in {2, 3}
  <2>1. n \in Nat
    BY <1>2
  <2> QED
    BY <2>1 DEF IdLength, BodyAt
<1>9. TopicAt(topic, data, qos) = at + 2 /\ DataAt(topic, data, qos) = d
  BY <1>3 DEF TopicAt, DataAt
<1> HIDE DEF n, at, T, I, D, size
<1>10. Len(m) <= len
  BY <1>4
<1>11. Word(b, at) = T
  <2>1. 0 \in 0..n-1 /\ 1 \in 0..n-1 /\ at + 0 = at /\ 0 + 1 = 1 /\ 1 + 1 = 2
    BY <1>3, <1>7, <1>8
  <2>2. Byte(b, at) = body[1] /\ Byte(b, at + 1) = body[2]
    BY <1>5, <2>1
  <2> QED
    BY <1>3, <2>2 DEF Word
<1>12. at + n <= len /\ at + 2 < len /\ at + 2 + T <= len /\ d + D = at + n
  BY <1>3, <1>6, <1>7, <1>8, <1>10
<1>13. PublishTopic(b, len) = Piece(at + 2, T)
  <2>1. PublishTopic(b, len)
          = IF at + 2 >= len \/ at + 2 + T > len THEN Null(len) ELSE Piece(at + 2, T)
    BY <1>5, <1>11 DEF PublishTopic
  <2>2. ~(at + 2 >= len) /\ ~(at + 2 + T > len)
    BY <1>7, <1>8, <1>12
  <2> QED
    BY <2>1, <2>2
<1>14. ASSUME NEW i \in 1..T
       PROVE  Byte(b, (at + 2) + i - 1) = topic[i]
  <2>1. /\ 1 + i \in 0..n-1 /\ at + (1 + i) = (at + 2) + i - 1 /\ (1 + i) + 1 = 2 + i
    BY <1>3, <1>7, <1>8
  <2>2. Byte(b, at + (1 + i)) = body[2 + i]
    BY <1>5, <2>1
  <2> QED
    BY <1>3, <2>1, <2>2
<1>15. PublishData(b, len) =
         IF at + 2 >= len THEN Null(len)
         ELSE IF at + 2 + T >= len THEN Null(0)
         ELSE IF d >= len \/ at + n < d THEN Null(len)
         ELSE Piece(d, (IF at + n <= len THEN at + n ELSE len) - d)
  <2>1. (IF qos > 0 THEN at + 2 + T + 2 ELSE at + 2 + T) = d
    BY <1>7, <1>8
  <2>2. TotalLength(b, len) = at + n
    BY <1>5, <1>6
  <2> HIDE DEF d
  <2> QED
    BY <1>5, <1>11, <2>1, <2>2 DEF PublishData
<1>16. ~(at + 2 >= len) /\ ~(at + n < d) /\ (IF at + n <= len THEN at + n ELSE len) - d = D
       /\ d \in Nat /\ d + D <= size
  BY <1>3, <1>7, <1>8, <1>12
<1>17. ASSUME data = <<>>, qos = 0
       PROVE  PublishData(b, len).length = 0
  <2>1. D = 0
    BY <1>7, <1>17
  <2>2. CASE at + 2 + T >= len
    <3> HIDE DEF d
    <3>1. PublishData(b, len) = Null(0)
      BY <1>15, <1>16, <2>2
    <3> QED
      BY <3>1 DEF Null
  <2>3. CASE ~(at + 2 + T >= len)
    <3>2. d = at + 2 + T
      BY <1>7, <1>8, <1>17
    <3> HIDE DEF d
    <3>1. PublishData(b, len) = Piece(d, D)
      BY <1>15, <1>16, <2>3, <3>2
    <3> QED
      BY <2>1, <3>1 DEF Piece
  <2> QED
    BY <1>17, <2>2, <2>3
<1>18. ASSUME data # <<>>
       PROVE  /\ PublishData(b, len) = Piece(d, D) /\ d \in 0..size
              /\ Starts(From(b, d), data)
  <2>1. D > 0
    BY <1>7, <1>18
  <2>2. ~(at + 2 + T >= len) /\ ~(d >= len)
    BY <1>7, <1>8, <1>12, <2>1
  <2> HIDE DEF d
  <2>3. PublishData(b, len) = Piece(d, D)
    BY <1>15, <1>16, <2>2
  <2>4. d \in 0..size /\ d + 1 \in Nat
    BY <1>7, <1>16
  <2>5. /\ \A i \in 1..size-d : From(b, d)[i] = b[d + i]
        /\ Len(From(b, d)) = size - d
    <3>1. d \in 0..Len(b)
      BY <2>4 DEF size
    <3> QED
      BY <3>1, FromParts DEF size
  <2>6. ASSUME NEW i \in 1..D
        PROVE  b[d + i] = data[i]
    <3>1. /\ 1 + T + I + i \in 0..n-1 /\ at + (1 + T + I + i) = d + i - 1
          /\ (1 + T + I + i) + 1 = 2 + T + I + i /\ (d + i - 1) + 1 = d + i
          /\ d + i \in 1..size
      BY <1>3, <1>7, <1>8, <1>16 DEF d
    <3>2. Byte(b, at + (1 + T + I + i)) = body[2 + T + I + i]
      BY <1>5, <3>1
    <3>3. Byte(b, d + i - 1) = b[d + i]
      BY <1>7, <3>1 DEF Byte
    <3> QED
      BY <1>3, <3>1, <3>2, <3>3
  <2>7. D <= size - d /\ \A i \in 1..D : i \in 1..(size - d)
    BY <1>7, <1>16
  <2>8. Starts(From(b, d), data)
    BY <2>5, <2>6, <2>7 DEF Starts, D
  <2> QED
    BY <2>3, <2>4, <2>8
<1>19. ASSUME qos > 0, Len(m) # len
       PROVE  GetId(b, len) = id
  <2> DEFINE e == at + 2 + T
  <2>1. /\ 1 + T + 1 \in 0..n-1 /\ at + (1 + T + 1) = e /\ (1 + T + 1) + 1 = 2 + T + 1
        /\ 1 + T + 2 \in 0..n-1 /\ at + (1 + T + 2) = e + 1 /\ (1 + T + 2) + 1 = 2 + T + 2
    BY <1>3, <1>7, <1>8, <1>19
  <2>2. Byte(b, e) = body[2 + T + 1] /\ Byte(b, e + 1) = body[2 + T + 2]
    <3> HIDE DEF e
    <3> QED
      BY <1>5, <2>1
  <2>3. Word(b, e) = id
    BY <1>3, <1>19, <2>2 DEF Word
  <2>4. ~(at + 2 >= len) /\ ~(e >= len) /\ ~(qos = 0) /\ ~(e + 2 >= len)
    BY <1>3, <1>6, <1>7, <1>8, <1>12, <1>19
  <2>5. GetId(b, len) = IF at + 2 >= len \/ e >= len \/ qos = 0 \/ e + 2 >= len THEN 0 ELSE Word(b, e)
    <3>1. GetId(b, len) = LET i == HeaderEnd(b, len)
                              k == i + 2 + Word(b, i)
                          IN  IF i + 2 >= len \/ k >= len \/ GetQos(b) = 0 \/ k + 2 >= len
                              THEN 0 ELSE Word(b, k)
      BY <1>5 DEF GetId, PUBLISH, PUBACK, PUBREC, PUBREL, PUBCOMP, SUBSCRIBE, SUBACK, UNSUBACK
    <3> QED
      BY <1>5, <1>11, <3>1
  <2> HIDE DEF e
  <2> QED
    BY <2>3, <2>4, <2>5
<1> QED
  BY <1>5, <1>9, <1>13, <1>14, <1>17, <1>18, <1>19 DEF m, T, D, size

-----------------------------------------------------------------------------
(* Packets.                                                                *)

(* What the assumption says of a packet.                                   *)
Fair(p) ==
  /\ p \in Packets /\ Wire(p) # <<>>
  /\ p.kind = "command" => IsFrame(p.flag, p.parm)
  /\ p.kind = "text" => Harmless(p.text)

LEMMA PacketFields ==
  ASSUME NEW p \in Packets
  PROVE  /\ p.kind \in {"command", "search", "text", "ack", "ping"}
         /\ p.kind = "command" => /\ p.flag \in Seq(1..255) /\ p.parm \in Seq(Bytes8)
                                  /\ p.crc \in BOOLEAN /\ p.lower \in BOOLEAN
                                  /\ p.qos \in 0..2 /\ p.id \in Words
         /\ p.kind = "text" => p.text \in Seq(1..255)
         /\ p.kind = "ack" => /\ p.type \in {PUBACK, PUBREC, PUBREL, PUBCOMP}
                              /\ p.id \in Words
         /\ p.kind = "ping" => p.type \in {PINGREQ, PINGRESP}
<1>1. Ids \subseteq Words
  BY DEF Ids, Words
<1> QED
  BY <1>1 DEF Packets, Bytes8

LEMMA FairPackets ==
  ASSUME NEW s \in Segments
  PROVE  /\ s \in Seq(Packets) /\ Len(s) \in Nat /\ DOMAIN s = 1..Len(s)
         /\ \A i \in 1..Len(s) : Fair(s[i])
<1>1. s \in Seq(Packets)
  BY SegmentsAssumption
<1>2. Len(s) \in Nat /\ DOMAIN s = 1..Len(s) /\ \A i \in 1..Len(s) : s[i] \in Packets
  BY <1>1
<1>3. ASSUME NEW i \in 1..Len(s)
      PROVE  Fair(s[i])
  <2> DEFINE p == s[i]
  <2>1. /\ p \in Packets /\ Wire(p) # <<>>
        /\ p.kind = "command" => Len(p.flag) <= 255 /\ Len(p.parm) <= 65535
        /\ p.kind = "text" => Harmless(p.text)
    BY <1>2, SegmentsAssumption
  <2> HIDE DEF p
  <2>2. p.kind = "command" => p.flag \in Seq(1..255) /\ p.parm \in Seq(Bytes8)
    BY <2>1, PacketFields
  <2>3. p.kind = "command" => IsFrame(p.flag, p.parm)
    <3> SUFFICES ASSUME p.kind = "command" PROVE IsFrame(p.flag, p.parm)
      OBVIOUS
    <3>1. Len(p.parm) \in Nat /\ Len(p.parm) <= 65535
      BY <2>1, <2>2
    <3>2. Len(p.parm) < 65536
      <4> DEFINE l == Len(p.parm)
      <4> HIDE DEF l
      <4>1. l \in Nat /\ l <= 65535 => l < 65536
        OBVIOUS
      <4> QED
        BY <3>1, <4>1 DEF l
    <3> QED
      BY <2>1, <2>2, <3>2 DEF IsFrame
  <2>4. Fair(p)
    BY <2>1, <2>3 DEF Fair
  <2> QED
    BY <2>4 DEF p
<1> QED
  BY <1>1, <1>2, <1>3

(* The text of a command is the hexadecimal text of its frame.             *)
LEMMA TextSpells ==
  ASSUME NEW p, Fair(p), p.kind = "command"
  PROVE  /\ CommandText(p) \in Seq(Bytes8) /\ CommandText(p) # <<>>
         /\ \A src \in Seq(Bytes8) :
              Starts(src, CommandText(p)) => Spells(src, CreateFrame(p.flag, p.parm, p.crc))
<1> DEFINE fr == CreateFrame(p.flag, p.parm, p.crc)
           t == sbufEncode(fr)
           N == Len(fr)
           c == CommandText(p)
<1>1. IsFrame(p.flag, p.parm) /\ p.crc \in BOOLEAN /\ p \in Packets
  BY PacketFields DEF Fair
<1>2. fr \in Seq(Bytes8) /\ N >= 4
  BY <1>1, FrameBytes
<1>3. c = IF p.lower THEN Lower(t) ELSE t
  BY DEF CommandText
<1> HIDE DEF fr, c
<1>4. /\ t \in Seq(1..255) /\ Len(t) = 2 * N
      /\ \A k \in 1..N : t[2 * k - 1] = HexDigit(fr[k] \div 16) /\ t[2 * k] = HexDigit(fr[k] % 16)
  BY <1>2, EncodesBytes
<1> HIDE DEF t
<1>5. N \in Nat
  BY <1>2
<1> HIDE DEF N
<1>6. ASSUME NEW i \in 1..2 * N
      PROVE  /\ t[i] \in 1..255 /\ Upper(t[i]) = t[i]
             /\ t[i] \in 65..90 => Upper(t[i] + 32) = t[i] /\ t[i] + 32 \in 1..255
  <2>1. PICK d \in 0..15 : t[i] = HexDigit(d)
    <3>1. \A k \in 1..N : fr[k] \div 16 \in 0..15 /\ fr[k] % 16 \in 0..15
      <4> TAKE k \in 1..N
      <4>1. fr[k] \in Bytes8
        <5> HIDE DEF Bytes8
        <5> QED
          BY <1>2 DEF N
      <4> QED
        BY <4>1, HexOfByte
    <3>2. CASE i % 2 = 0
      <4>1. i \div 2 \in 1..N /\ 2 * (i \div 2) = i
        BY <1>5, <3>2
      <4>2. t[i] = HexDigit(fr[i \div 2] % 16)
        BY <1>4, <4>1
      <4> QED
        BY <3>1, <4>1, <4>2
    <3>3. CASE i % 2 # 0
      <4>1. (i + 1) \div 2 \in 1..N /\ 2 * ((i + 1) \div 2) - 1 = i
        BY <1>5, <3>3
      <4>2. t[i] = HexDigit(fr[(i + 1) \div 2] \div 16)
        BY <1>4, <4>1
      <4> QED
        BY <3>1, <4>1, <4>2
    <3> QED
      BY <3>2, <3>3
  <2>2. /\ HexDigit(d) \in 1..255 /\ Upper(HexDigit(d)) = HexDigit(d)
        /\ HexDigit(d) \in 65..90 => Upper(HexDigit(d) + 32) = HexDigit(d)
    BY DigitsOf
  <2> DEFINE x == t[i]
  <2>3. x \in 1..255 /\ Upper(x) = x /\ (x \in 65..90 => Upper(x + 32) = x)
    BY <2>1, <2>2
  <2> HIDE DEF x
  <2>4. x \in 65..90 => x + 32 \in 1..255
    OBVIOUS
  <2> QED
    BY <2>3, <2>4 DEF x
<1>7. /\ c \in Seq(1..255) /\ Len(c) = 2 * N
      /\ \A i \in 1..2 * N : c[i] \in 1..255 /\ Upper(c[i]) = t[i]
  <2> DEFINE M == 2 * N
  <2>1. M \in Nat /\ DOMAIN t = 1..M
    BY <1>4, <1>5
  <2>2. ASSUME p.lower
        PROVE  /\ c \in [1..M -> 1..255]
               /\ \A i \in 1..M : c[i] \in 1..255 /\ Upper(c[i]) = t[i]
    <3>1. c = [i \in 1..M |-> IF t[i] \in 65..90 THEN t[i] + 32 ELSE t[i]]
      BY <1>3, <2>1, <2>2 DEF Lower
    <3> HIDE DEF c
    <3>2. \A i \in 1..M : c[i] \in 1..255 /\ Upper(c[i]) = t[i]
      <4> TAKE i \in 1..M
      <4>1. /\ t[i] \in 1..255 /\ Upper(t[i]) = t[i]
            /\ t[i] \in 65..90 => Upper(t[i] + 32) = t[i] /\ t[i] + 32 \in 1..255
        BY <1>6
      <4>2. c[i] = IF t[i] \in 65..90 THEN t[i] + 32 ELSE t[i]
        BY <3>1
      <4> QED
        BY <4>1, <4>2
    <3>3. \A i \in 1..M : (IF t[i] \in 65..90 THEN t[i] + 32 ELSE t[i]) \in 1..255
      BY <3>1, <3>2
    <3>4. c \in [1..M -> 1..255]
      BY <3>1, <3>3
    <3> QED
      BY <3>2, <3>4
  <2>3. ASSUME ~p.lower
        PROVE  /\ c \in [1..M -> 1..255]
               /\ \A i \in 1..M : c[i] \in 1..255 /\ Upper(c[i]) = t[i]
    <3>1. c = t
      BY <1>3, <2>3
    <3>2. \A i \in 1..M : c[i] \in 1..255 /\ Upper(c[i]) = t[i]
      BY <1>6, <3>1
    <3>3. t = [i \in 1..M |-> t[i]]
      BY <1>4, <2>1
    <3>4. c \in [1..M -> 1..255]
      BY <3>1, <3>2, <3>3
    <3> QED
      BY <3>2, <3>4
  <2>4. /\ c \in [1..M -> 1..255]
        /\ \A i \in 1..M : c[i] \in 1..255 /\ Upper(c[i]) = t[i]
    BY <2>2, <2>3
  <2> HIDE DEF M
  <2>5. c \in Seq(1..255) /\ Len(c) = M
    BY <2>1, <2>4
  <2> QED
    BY <2>4, <2>5 DEF M
<1>8. c \in Seq(Bytes8)
  <2>1. 1..255 \subseteq Bytes8
    BY DEF Bytes8
  <2> HIDE DEF Bytes8
  <2> QED
    BY <1>7, <2>1, SeqMonotonic
<1>9. c # <<>>
  <2>1. Len(<<>>) = 0 /\ N > 0 /\ 2 * N > 0
    BY <1>2, <1>5 DEF N
  <2> QED
    BY <1>7, <2>1
<1>10. ASSUME NEW src \in Seq(Bytes8), Starts(src, c)
       PROVE  Spells(src, fr)
  <2>1. 2 * N <= Len(src) /\ \A i \in 1..2 * N : src[i] = c[i]
    BY <1>7, <1>10 DEF Starts
  <2>2. \A k \in 1..N :
          /\ Upper(src[2 * k - 1]) = HexDigit(fr[k] \div 16) /\ src[2 * k - 1] # 0
          /\ Upper(src[2 * k]) = HexDigit(fr[k] % 16) /\ src[2 * k] # 0
    <3> TAKE k \in 1..N
    <3>1. 2 * k - 1 \in 1..2 * N /\ 2 * k \in 1..2 * N
      BY <1>5
    <3>2. \A i \in 1..2 * N : Upper(src[i]) = t[i] /\ src[i] # 0
      <4> TAKE i \in 1..2 * N
      <4> DEFINE x == c[i]
      <4>1. src[i] = x /\ x \in 1..255 /\ Upper(x) = t[i]
        BY <1>7, <2>1
      <4> HIDE DEF x
      <4> QED
        BY <4>1
    <3> QED
      BY <1>4, <3>1, <3>2
  <2> QED
    BY <2>1, <2>2 DEF Spells, N
<1> QED
  BY <1>8, <1>9, <1>10 DEF c, fr

(* Any other text is not taken for a frame.                                *)
LEMMA HarmlessText ==
  ASSUME NEW text \in Seq(1..255), text # <<>>, Harmless(text),
         NEW src \in Seq(Bytes8), Starts(src, text)
  PROVE  ~GetFrame(sbufDecode(src)).ok
<1> DEFINE c == Capitals(src)
           h == sbufDecode(src)
           N == Len(c)
           stops == {i \in 0..N : i % 2 = 0 /\ ByteAt(c, i) = 0} \cup {N + (N % 2)}
           len == Len(h)
           heads == {i \in 0..(len - 1) : ByteAt(h, i) = 170}
<1>1. 1 \in 1..Len(text) /\ text[1] \in 1..255 /\ 1 \in 1..Len(src) /\ src[1] = text[1]
  <2>1. Len(text) \in Nat /\ Len(text) > 0 /\ Len(text) <= Len(src) /\ Len(src) \in Nat
    BY DEF Starts
  <2>2. 1 \in 1..Len(text) /\ 1 \in 1..Len(src)
    BY <2>1
  <2>3. text[1] \in 1..255
    BY <2>2, ElementOfSeq
  <2>4. src[1] = text[1]
    BY <2>2 DEF Starts
  <2> QED
    BY <2>2, <2>3, <2>4
<1>10. ASSUME Len(text) > 1
       PROVE  2 \in 1..Len(src) /\ src[2] = text[2] /\ src[1] # 0 /\ src[2] # 0
  <2>1. Len(text) \in Nat /\ Len(text) > 1 /\ Len(text) <= Len(src) /\ Len(src) \in Nat
    BY <1>10 DEF Starts
  <2>2. 2 \in 1..Len(text) /\ 2 \in 1..Len(src)
    BY <2>1
  <2>3. text[2] \in 1..255
    BY <2>2, ElementOfSeq
  <2>4. src[2] = text[2]
    BY <2>2 DEF Starts
  <2> DEFINE x == text[1]
             y == text[2]
  <2>5. x \in 1..255 /\ y \in 1..255 /\ src[1] = x /\ src[2] = y
    BY <1>1, <2>3, <2>4
  <2> HIDE DEF x, y
  <2>6. src[1] # 0 /\ src[2] # 0
    BY <2>5
  <2> QED
    BY <2>2, <2>4, <2>6
<1>2. /\ c \in Seq(Bytes8) /\ N = Len(src) /\ c[1] = Upper(text[1])
      /\ Len(text) > 1 => c[2] = Upper(text[2])
  <2>1. \A j \in 1..1 : src[j] # 0
    <3> DEFINE x == text[1]
    <3>1. x \in 1..255 /\ src[1] = x
      BY <1>1
    <3> HIDE DEF x
    <3> QED
      BY <3>1
  <2>2. /\ c \in Seq(Bytes8) /\ N = Len(src)
        /\ \A i \in 1..Len(src) : (\A j \in 1..i : src[j] # 0) => c[i] = Upper(src[i])
    BY CapitalBytes
  <2>3. c[1] = Upper(src[1])
    <3> HIDE DEF c
    <3> QED
      BY <1>1, <2>1, <2>2
  <2>4. ASSUME Len(text) > 1
        PROVE  c[2] = Upper(src[2])
    <3>1. \A j \in 1..2 : j = 1 \/ j = 2
      OBVIOUS
    <3>2. \A j \in 1..2 : src[j] # 0
      BY <1>10, <2>4, <3>1
    <3> HIDE DEF c
    <3> QED
      BY <1>10, <2>2, <2>4, <3>2
  <2> HIDE DEF c
  <2> QED
    BY <1>1, <1>10, <2>2, <2>3, <2>4
<1>3. h = [k \in 1..(Min(stops) \div 2) |->
             Or((16 * DigitValue(ByteAt(c, 2*k - 2))) % 256, DigitValue(ByteAt(c, 2*k - 1)))]
  BY DEF sbufDecode
<1>4. h \in Seq(Bytes8)
  BY Decodes
<1> HIDE DEF c, stops, h
<1>5. len \in Nat /\ DOMAIN h = 1..len
  BY <1>4
<1>6. ByteAt(c, 0) = Upper(text[1])
  <2>1. 0 < Len(c) /\ 0 + 1 = 1
    BY <1>1, <1>2
  <2> QED
    BY <1>2, <2>1 DEF ByteAt
<1>7. len > 0 => h[1] # 170
  <2> SUFFICES ASSUME len > 0 PROVE h[1] # 170
    OBVIOUS
  <2>1. 1 \in 1..(Min(stops) \div 2)
    <3>1. 1 \in DOMAIN h
      BY <1>5
    <3> QED
      BY <1>3, <3>1
  <2>2. h[1] = Or((16 * DigitValue(ByteAt(c, 2*1 - 2))) % 256, DigitValue(ByteAt(c, 2*1 - 1)))
    BY <1>3, <2>1
  <2>3. 2*1 - 2 = 0 /\ 2*1 - 1 = 1
    OBVIOUS
  <2> DEFINE low == DigitValue(ByteAt(c, 1))
  <2>4. low \in 0..255
    <3>1. ByteAt(c, 1) \in Int
      <4>1. CASE 1 < Len(c)
        <5>1. 1 + 1 \in 1..Len(c)
          BY <1>2, <4>1
        <5>2. c[1 + 1] \in Bytes8
          BY <1>2, <5>1, ElementOfSeq
        <5>3. ByteAt(c, 1) = c[1 + 1]
          BY <4>1 DEF ByteAt
        <5> DEFINE y == c[1 + 1]
        <5>4. y \in Int
          <6>1. y \in Bytes8
            BY <5>2
          <6> HIDE DEF y
          <6> QED
            BY <6>1 DEF Bytes8
        <5> QED
          BY <5>3, <5>4
      <4>2. CASE ~(1 < Len(c))
        BY <4>2 DEF ByteAt
      <4> QED
        BY <4>1, <4>2
    <3> DEFINE x == ByteAt(c, 1)
    <3>2. x \in Int
      BY <3>1
    <3> HIDE DEF x
    <3>3. DigitValue(x) \in 0..255
      BY <3>2 DEF DigitValue
    <3> QED
      BY <3>3 DEF x
  <2>5. h[1] = Or((16 * DigitValue(Upper(text[1]))) % 256, low)
    BY <1>6, <2>2, <2>3
  <2>6. Len(text) > 1 => low = DigitValue(Upper(text[2]))
    <3> SUFFICES ASSUME Len(text) > 1 PROVE low = DigitValue(Upper(text[2]))
      OBVIOUS
    <3>1. 1 < Len(c) /\ 1 + 1 = 2
      BY <1>2, <1>10
    <3>2. ByteAt(c, 1) = c[2]
      BY <3>1 DEF ByteAt
    <3> QED
      BY <1>2, <3>2
  <2> HIDE DEF low
  <2> QED
    BY <2>4, <2>5, <2>6 DEF Harmless
<1>8. ASSUME heads # {}
      PROVE  Min(heads) > 0
  <2>1. heads \in SUBSET Nat
    OBVIOUS
  <2>2. 0 \notin heads
    <3>1. 0 \in heads => len > 0 /\ ByteAt(h, 0) = 170
      BY <1>5
    <3>2. len > 0 => ByteAt(h, 0) = h[1]
      <4>1. 0 + 1 = 1
        OBVIOUS
      <4> QED
        BY <1>5, <4>1 DEF ByteAt
    <3> QED
      BY <1>7, <3>1, <3>2
  <2> HIDE DEF heads
  <2> DEFINE x == Min(heads)
  <2>3. x \in heads
    BY <1>8, <2>1, MinIsLeast
  <2>4. x \in Nat /\ x # 0
    BY <2>1, <2>2, <2>3
  <2> HIDE DEF x
  <2>5. x > 0
    BY <2>4
  <2> QED
    BY <2>5 DEF x
<1>9. \E n : GetFrame(h) = Cut(n)
  <2>1. CASE len < 4
    <3>1. GetFrame(h) = Cut(0)
      BY <2>1 DEF GetFrame
    <3> QED
      BY <3>1
  <2>2. CASE ~(len < 4) /\ heads = {}
    <3>1. GetFrame(h) = Cut(len)
      BY <2>2 DEF GetFrame
    <3> QED
      BY <3>1
  <2>3. CASE ~(len < 4) /\ heads # {}
    <3>1. Min(heads) > 0
      BY <1>8, <2>3
    <3>2. GetFrame(h) = Cut(Min(heads))
      BY <2>3, <3>1 DEF GetFrame
    <3> QED
      BY <3>2
  <2> QED
    BY <2>1, <2>2, <2>3
<1> QED
  BY <1>9 DEF Cut, h

-----------------------------------------------------------------------------
(* What is on the way for a packet.                                        *)
TopicOf(p) == IF p.kind = "search" THEN SearchTopic ELSE g_tmpMQTTSubscr

DataOf(p) ==
  CASE p.kind = "command" -> CommandText(p) [] p.kind = "search" -> SearchText [] OTHER -> p.text

QosOf(p) == IF p.kind = "command" THEN p.qos ELSE 0
IdOf(p)  == IF p.kind = "command" THEN p.id ELSE 0

LEMMA PublishWire ==
  ASSUME NEW p, Fair(p), IsPublish(p)
  PROVE  /\ Wire(p) = PublishMsg(TopicOf(p), DataOf(p), QosOf(p), IdOf(p))
         /\ TopicOf(p) \in Seq(Bytes8) /\ DataOf(p) \in Seq(Bytes8)
         /\ QosOf(p) \in 0..2 /\ IdOf(p) \in Words
<1>1. 1..255 \subseteq Bytes8 /\ 0 \in Words
  BY DEF Bytes8, Words
<1>2. SearchTopic \in Seq(Bytes8) /\ SearchText \in Seq(Bytes8)
  BY DEF SearchTopic, SearchText, Bytes8
<1>3. g_tmpMQTTSubscr \in Seq(Bytes8)
  <2> HIDE DEF Bytes8
  <2> QED
    BY <1>1, TopicsAssumption, SeqMonotonic
<1>4. TopicOf(p) \in Seq(Bytes8)
  BY <1>2, <1>3 DEF TopicOf
<1>5. p \in Packets /\ p.kind \in {"command", "search", "text"}
  BY DEF Fair, IsPublish
<1>6. CASE p.kind = "command"
  <2>1. p.qos \in 0..2 /\ p.id \in Words
    BY <1>5, <1>6, PacketFields
  <2>2. TopicOf(p) = g_tmpMQTTSubscr /\ DataOf(p) = CommandText(p) /\ QosOf(p) = p.qos
        /\ IdOf(p) = p.id
    BY <1>6 DEF TopicOf, DataOf, QosOf, IdOf
  <2>3. CommandText(p) \in Seq(Bytes8)
    BY <1>6, TextSpells
  <2>4. Wire(p) = PublishMsg(g_tmpMQTTSubscr, CommandText(p), p.qos, p.id)
    BY <1>6 DEF Wire
  <2> QED
    BY <1>4, <2>1, <2>2, <2>3, <2>4
<1>7. CASE p.kind = "search"
  <2>1. TopicOf(p) = SearchTopic /\ DataOf(p) = SearchText /\ QosOf(p) = 0 /\ IdOf(p) = 0
    BY <1>7 DEF TopicOf, DataOf, QosOf, IdOf
  <2>2. Wire(p) = PublishMsg(SearchTopic, SearchText, 0, 0)
    BY <1>7 DEF Wire
  <2>3. 0 \in 0..2
    OBVIOUS
  <2> QED
    BY <1>1, <1>2, <2>1, <2>2, <2>3
<1>8. CASE p.kind = "text"
  <2>1. TopicOf(p) = g_tmpMQTTSubscr /\ DataOf(p) = p.text /\ QosOf(p) = 0 /\ IdOf(p) = 0
    BY <1>8 DEF TopicOf, DataOf, QosOf, IdOf
  <2>2. Wire(p) = PublishMsg(g_tmpMQTTSubscr, p.text, 0, 0)
    BY <1>8 DEF Wire
  <2>3. p.text \in Seq(Bytes8)
    <3>1. p.text \in Seq(1..255)
      BY <1>5, <1>8, PacketFields
    <3> HIDE DEF Bytes8
    <3> QED
      BY <1>1, <3>1, SeqMonotonic
  <2>4. 0 \in 0..2
    OBVIOUS
  <2> QED
    BY <1>1, <1>3, <2>1, <2>2, <2>3, <2>4
<1> QED
  BY <1>5, <1>6, <1>7, <1>8

LEMMA OtherWire ==
  ASSUME NEW p, Fair(p), ~IsPublish(p)
  PROVE  \E type \in 0..15, qos \in 0..3, body \in Seq(Bytes8) :
           ~Delivers(type) /\ Fits(body) /\ Wire(p) = Message(type, qos, body)
<1>1. p \in Packets /\ p.kind \in {"ack", "ping"} /\ Wire(p) # <<>>
  BY PacketFields DEF Fair, IsPublish
<1>2. CASE p.kind = "ack"
  <2>1. p.type \in {PUBACK, PUBREC, PUBREL, PUBCOMP} /\ p.id \in Words
    BY <1>1, <1>2, PacketFields
  <2> DEFINE q == IF p.type = PUBREL THEN 1 ELSE 0
  <2>2. Wire(p) = Message(p.type, q, IdBytes(p.id))
    BY <1>2 DEF Wire, AckMsg
  <2>3. p.type \in 0..15 /\ ~Delivers(p.type)
    BY <2>1 DEF PUBACK, PUBREC, PUBREL, PUBCOMP, SUBACK, UNSUBACK, PUBLISH, Delivers
  <2>4. q \in 0..3
    OBVIOUS
  <2>5. IdBytes(p.id) \in Seq(Bytes8)
    BY <2>1, IdsAreBytes
  <2> HIDE DEF q
  <2>6. Fits(IdBytes(p.id))
    BY <1>1, <2>2 DEF Message
  <2> QED
    BY <2>2, <2>3, <2>4, <2>5, <2>6
<1>3. CASE p.kind = "ping"
  <2>1. p.type \in {PINGREQ, PINGRESP}
    BY <1>1, <1>3, PacketFields
  <2>2. Wire(p) = Message(p.type, 0, <<>>)
    BY <1>3 DEF Wire, PingMsg
  <2>3. p.type \in 0..15 /\ ~Delivers(p.type) /\ 0 \in 0..3 /\ <<>> \in Seq(Bytes8)
    BY <2>1 DEF PINGREQ, PINGRESP, PUBLISH, SUBACK, UNSUBACK, Delivers
  <2>4. Fits(<<>>)
    BY <1>1, <2>2 DEF Message
  <2> QED
    BY <2>2, <2>3, <2>4
<1> QED
  BY <1>1, <1>2, <1>3

LEMMA WireBytes ==
  ASSUME NEW p, Fair(p)
  PROVE  Wire(p) \in Seq(Bytes8) /\ Wire(p) # <<>> /\ Len(Wire(p)) <= MQTT_BUF_SIZE
<1>1. CASE IsPublish(p)
  <2>1. /\ Wire(p) = PublishMsg(TopicOf(p), DataOf(p), QosOf(p), IdOf(p))
        /\ TopicOf(p) \in Seq(Bytes8) /\ DataOf(p) \in Seq(Bytes8)
        /\ QosOf(p) \in 0..2 /\ IdOf(p) \in Words
    BY <1>1, PublishWire
  <2>2. /\ PublishMsg(TopicOf(p), DataOf(p), QosOf(p), IdOf(p)) \in Seq(Bytes8)
        /\ Len(PublishMsg(TopicOf(p), DataOf(p), QosOf(p), IdOf(p))) <= MQTT_BUF_SIZE
    BY <2>1, PublishBytes
  <2> QED
    BY <2>1, <2>2 DEF Fair
<1>2. CASE ~IsPublish(p)
  <2>1. PICK type \in 0..15, qos \in 0..3, body \in Seq(Bytes8) :
           Wire(p) = Message(type, qos, body)
    BY <1>2, OtherWire
  <2>2. Message(type, qos, body) \in Seq(Bytes8) /\ Len(Message(type, qos, body)) <= MQTT_BUF_SIZE
    BY MessageBytes
  <2> QED
    BY <2>1, <2>2 DEF Fair
<1> QED
  BY <1>1, <1>2

-----------------------------------------------------------------------------
(* How the messages of the device read.                                    *)

(* A PUBLISH without an id has its topic and its data.                     *)
LEMMA PublishHeard ==
  ASSUME NEW topic \in Seq(Bytes8), topic # <<>>, NEW data \in Seq(Bytes8),
         5 + Len(topic) + Len(data) <= MQTT_BUF_SIZE
  PROVE  LET m == PublishMsg(topic, data, 0, 0)
             n == Len(m)
         IN  /\ m # <<>> /\ GetType(m) = PUBLISH
             /\ Bytes(m, PublishTopic(m, n).at, PublishTopic(m, n).length) = topic
             /\ Bytes(m, PublishData(m, n).at, PublishData(m, n).length) = data
<1> DEFINE T == Len(topic)
           D == Len(data)
           body == PublishBody(topic, data, 0, 0)
           m == PublishMsg(topic, data, 0, 0)
           n == Len(m)
           t == PublishTopic(m, n)
           c == PublishData(m, n)
           at == TopicAt(topic, data, 0)
           d == DataAt(topic, data, 0)
<1>1. T \in Nat /\ D \in Nat /\ 5 + T + D <= MQTT_BUF_SIZE /\ MQTT_BUF_SIZE \in 3..16386
  BY BufSizeAssumption
<1>2. T \in Words /\ 0 \in Words /\ 0 \in 0..2
  <2> HIDE DEF T, D
  <2> QED
    BY <1>1 DEF Words
<1>3. body \in Seq(Bytes8) /\ Len(body) = 2 + T + D
  <2>1. body \in Seq(Bytes8) /\ HoldsPublish(body, topic, data, 0, 0)
    BY <1>2, BodyOfPublish
  <2>2. IdLength(0) = 0
    BY DEF IdLength
  <2>3. Len(body) = 2 + T + IdLength(0) + D
    BY <2>1 DEF HoldsPublish
  <2> HIDE DEF T, D, body
  <2>4. 2 + T + 0 + D = 2 + T + D
    BY <1>1
  <2> QED
    BY <2>1, <2>2, <2>3, <2>4
<1>4. m = Message(PUBLISH, 0, body)
  BY DEF PublishMsg, PublishBody
<1> HIDE DEF T, D, body
<1>5. Fits(body) /\ Len(body) \in Nat
  BY <1>1, <1>3 DEF Fits
<1>6. PUBLISH \in 0..15 /\ 0 \in 0..3
  BY DEF PUBLISH
<1>7. m \in Seq(Bytes8) /\ n \in Nat /\ n # 0
  <2> HIDE DEF Bytes8
  <2>1. Message(PUBLISH, 0, body) \in Seq(Bytes8)
        /\ Len(Message(PUBLISH, 0, body)) = BodyAt(Len(body)) + Len(body)
    BY <1>3, <1>5, <1>6, MessageBytes
  <2> HIDE DEF m
  <2>2. n \in Nat
    BY <1>4, <2>1
  <2>3. BodyAt(Len(body)) \in {2, 3}
    BY DEF BodyAt
  <2>4. n # 0
    BY <1>4, <1>5, <2>1, <2>3
  <2> QED
    BY <1>4, <2>1, <2>2, <2>4
<1>8. m # <<>>
  BY <1>7
<1>9. Starts(m, m) /\ n <= n
  BY <1>7 DEF Starts
<1>10. /\ GetType(m) = PUBLISH
       /\ t = Piece(at, T)
       /\ \A i \in 1..T : Byte(m, at + i - 1) = topic[i]
       /\ data = <<>> => c.length = 0
       /\ data # <<>> => c = Piece(d, D) /\ d \in 0..n /\ Starts(From(m, d), data)
  <2> DEFINE x == m
  <2>1. x \in Seq(Bytes8) /\ Starts(x, PublishMsg(topic, data, 0, 0)) /\ n \in Nat
        /\ Len(PublishMsg(topic, data, 0, 0)) <= n /\ PublishMsg(topic, data, 0, 0) # <<>>
    BY <1>7, <1>8, <1>9
  <2>2. n = Len(x)
    OBVIOUS
  <2> HIDE DEF x, n, Bytes8
  <2>3. /\ GetType(x) = PUBLISH
        /\ PublishTopic(x, n) = Piece(at, Len(topic))
        /\ \A i \in 1..Len(topic) : Byte(x, at + i - 1) = topic[i]
        /\ data = <<>> => PublishData(x, n).length = 0
        /\ data # <<>> => PublishData(x, n) = Piece(d, Len(data)) /\ d \in 0..Len(x)
                          /\ Starts(From(x, d), data)
    BY <1>2, <2>1, PublishRead
  <2> QED
    BY <2>2, <2>3 DEF x, T, D
<1> HIDE DEF m, at, d, t, c
<1>11. Bytes(m, t.at, t.length) = topic
  <2>1. t.at = at /\ t.length = T
    BY <1>10 DEF Piece
  <2>2. Bytes(m, at, T) = [i \in 1..T |-> Byte(m, at + i - 1)]
    BY DEF Bytes
  <2>3. topic = [i \in 1..T |-> topic[i]]
    BY DEF T
  <2> QED
    BY <1>10, <2>1, <2>2, <2>3
<1>12. Bytes(m, c.at, c.length) = data
  <2>1. CASE data = <<>>
    <3>1. Bytes(m, c.at, 0) = [i \in 1..0 |-> Byte(m, c.at + i - 1)]
      BY DEF Bytes
    <3>2. 1..0 = {}
      OBVIOUS
    <3>3. Bytes(m, c.at, 0) = <<>>
      BY <3>1, <3>2
    <3> QED
      BY <1>10, <2>1, <3>3
  <2>2. CASE data # <<>>
    <3>1. c.at = d /\ c.length = D /\ d \in 0..n /\ Starts(From(m, d), data)
      BY <1>10, <2>2 DEF Piece
    <3>2. Bytes(m, d, D) = [i \in 1..D |-> Byte(m, d + i - 1)]
      BY DEF Bytes
    <3>3. data = [i \in 1..D |-> data[i]]
      BY DEF D
    <3>4. ASSUME NEW i \in 1..D
          PROVE  Byte(m, d + i - 1) = data[i]
      <4>1. /\ \A j \in 1..n-d : From(m, d)[j] = m[d + j]
            /\ Len(From(m, d)) = n - d
        BY <1>7, <3>1, FromParts
      <4>2. D <= n - d /\ From(m, d)[i] = data[i]
        BY <3>1, <4>1 DEF Starts, D
      <4> HIDE DEF n
      <4>3. i \in 1..n-d /\ d + i \in 1..n /\ (d + i - 1) + 1 = d + i
        BY <1>1, <1>7, <3>1, <4>2
      <4>4. DOMAIN m = 1..n
        BY <1>7 DEF n
      <4>5. Byte(m, d + i - 1) = m[d + i]
        BY <4>3, <4>4 DEF Byte
      <4> QED
        BY <4>1, <4>2, <4>3, <4>5
    <3> QED
      BY <3>1, <3>2, <3>3, <3>4
  <2> QED
    BY <2>1, <2>2
<1> QED
  BY <1>8, <1>10, <1>11, <1>12 DEF m, t, c

(* What the broker hears of a message: nothing if it is not queued.        *)
Heard(m) == IF m = <<>> THEN <<>> ELSE <<Reading(m)>>

LEMMA HeardReply ==
  Heard(PublishMsg(ReplyTopic, SearchReply, 0, 0)) = <<[kind |-> "reply", text |-> SearchReply]>>
<1> DEFINE m == PublishMsg(ReplyTopic, SearchReply, 0, 0)
           n == Len(m)
           t == PublishTopic(m, n)
           c == PublishData(m, n)
<1>1. ReplyTopic \in Seq(Bytes8) /\ Len(ReplyTopic) = 5 /\ ReplyTopic # <<>>
  <2>1. ReplyTopic = <<77, 83, 68, 47, 66>>
    BY DEF ReplyTopic
  <2> QED
    BY <2>1 DEF Bytes8
<1>2. SearchReply \in Seq(Bytes8)
  BY TopicsAssumption DEF Bytes8
<1>3. 5 + Len(ReplyTopic) + Len(SearchReply) <= MQTT_BUF_SIZE
  <2> DEFINE l == Len(SearchReply)
  <2>1. l \in Nat /\ l + 10 <= MQTT_BUF_SIZE
    BY <1>2, AnswersAssumption
  <2> HIDE DEF l
  <2>2. 5 + 5 + l = l + 10
    BY <2>1
  <2> QED
    BY <1>1, <2>1, <2>2 DEF l
<1>4. /\ m # <<>> /\ GetType(m) = PUBLISH
      /\ Bytes(m, t.at, t.length) = ReplyTopic
      /\ Bytes(m, c.at, c.length) = SearchReply
  <2> HIDE DEF Bytes8
  <2> QED
    BY <1>1, <1>2, <1>3, PublishHeard
<1> HIDE DEF m
<1>5. Reading(m) = [kind |-> "reply", text |-> SearchReply]
  BY <1>4 DEF Reading
<1> QED
  BY <1>4, <1>5 DEF Heard, m

LEMMA StatusFrame ==
  ASSUME NEW flag \in {Kg(97), Tk(97)}, NEW x \in Bytes8
  PROVE  IsFrame(flag, <<x>>) /\ Len(flag) = 4
<1>1. flag \in Seq(1..255) /\ Len(flag) = 4
  <2>1. flag = <<107, 103, 35, 97>> \/ flag = <<116, 107, 35, 97>>
    BY DEF Kg, Tk
  <2>2. /\ <<107, 103, 35, 97>> \in Seq(1..255) /\ Len(<<107, 103, 35, 97>>) = 4
        /\ <<116, 107, 35, 97>> \in Seq(1..255) /\ Len(<<116, 107, 35, 97>>) = 4
    OBVIOUS
  <2> QED
    BY <2>1, <2>2
<1>2. <<x>> \in Seq(Bytes8) /\ Len(<<x>>) = 1
  OBVIOUS
<1> QED
  BY <1>1, <1>2 DEF IsFrame

LEMMA HeardStatus ==
  ASSUME NEW flag \in {Kg(97), Tk(97)}, NEW x \in Bytes8
  PROVE  Heard(Status(flag, x)) = <<[kind |-> "status", flag |-> flag, told |-> <<x>>]>>
<1> DEFINE y == <<x>>
           fr == CreateFrame(flag, y, TRUE)
           text == sbufEncode(fr)
           m == Status(flag, x)
           n == Len(m)
           t == PublishTopic(m, n)
           c == PublishData(m, n)
           cache == sbufDecode(text)
           f == GetFrame(cache)
           off == Offset(flag, y)
<1>1. IsFrame(flag, <<x>>) /\ Len(flag) = 4
  BY StatusFrame
<1>2. y \in Seq(Bytes8) /\ Len(y) = 1
  OBVIOUS
<1>3. m = PublishMsg(g_tmpMQTTPublish, text, 0, 0)
  BY DEF Status
<1>4. IsFrame(flag, y) /\ TRUE \in BOOLEAN
  BY <1>1
<1> HIDE DEF y, m
<1>5. off = 7
  BY <1>1, <1>2 DEF Offset
<1>6. fr \in Seq(Bytes8) /\ Len(fr) <= 11
  <2>1. fr \in Seq(Bytes8) /\ Len(fr) <= off + Len(y) + 3
    BY <1>4, FrameBytes
  <2> HIDE DEF fr, off
  <2> QED
    BY <1>2, <1>5, <2>1
<1>7. text \in Seq(Bytes8) /\ Len(text) = 2 * Len(fr) /\ Spells(text, fr)
  BY <1>6, EncodedSpells
<1>8. cache \in Seq(Bytes8) /\ Starts(cache, fr)
  <2> HIDE DEF text, fr
  <2> QED
    BY <1>6, <1>7, Decodes
<1> HIDE DEF cache
<1>9. f.flag = flag /\ f.parameter = off /\ f.parameter_len = 1
  <2>1. f.flag = flag /\ f.parameter = off /\ f.parameter_len = Len(y)
    BY <1>4, <1>8, GetsFrame
  <2> QED
    BY <1>2, <2>1
<1>10. Bytes(cache, off, 1) = y
  BY <1>2, <1>4, <1>8, FrameParms
<1>11. g_tmpMQTTPublish \in Seq(Bytes8) /\ g_tmpMQTTPublish # <<>> /\ g_tmpMQTTPublish # ReplyTopic
  <2>1. 1..255 \subseteq Bytes8
    BY DEF Bytes8
  <2> HIDE DEF Bytes8
  <2> QED
    BY <2>1, TopicsAssumption, SeqMonotonic
<1>12. 5 + Len(g_tmpMQTTPublish) + Len(text) <= MQTT_BUF_SIZE
  <2> DEFINE k == Len(g_tmpMQTTPublish)
             l == Len(fr)
  <2>1. k \in Nat /\ k + 27 <= MQTT_BUF_SIZE
    BY <1>11, AnswersAssumption
  <2>2. l \in Nat /\ l <= 11 /\ Len(text) = 2 * l
    <3> HIDE DEF fr, text
    <3> QED
      BY <1>6, <1>7
  <2> HIDE DEF k, l
  <2>3. 5 + k + 2 * l <= MQTT_BUF_SIZE
    BY <2>1, <2>2, BufSizeAssumption
  <2> QED
    BY <2>2, <2>3 DEF k
<1> HIDE DEF text, off, f
<1>13. /\ m # <<>> /\ GetType(m) = PUBLISH
       /\ Bytes(m, t.at, t.length) = g_tmpMQTTPublish
       /\ Bytes(m, c.at, c.length) = text
  <2> HIDE DEF Bytes8
  <2> QED
    BY <1>3, <1>7, <1>11, <1>12, PublishHeard
<1>14. Reading(m) = [kind |-> "status", flag |-> f.flag,
                     told |-> Bytes(cache, f.parameter, f.parameter_len)]
  BY <1>11, <1>13 DEF Reading, cache, f
<1> QED
  BY <1>9, <1>10, <1>13, <1>14 DEF Heard, m, y

AckTypes == {PUBACK, PUBREC, PUBREL, PUBCOMP}

(* An acknowledgement or PINGRESP fits into out_buffer.                    *)
LEMMA AcksFit ==
  ASSUME NEW type \in 0..15, NEW qos \in 0..3, NEW body \in Seq(Bytes8), Len(body) <= 2
  PROVE  Fits(body) /\ Message(type, qos, body) \in Seq(Bytes8) /\ Message(type, qos, body) # <<>>
         /\ Starts(Message(type, qos, body), Message(type, qos, body))
<1> DEFINE n == Len(body)
           m == Message(type, qos, body)
<1>1. n \in Nat /\ n <= 2
  OBVIOUS
<1>2. Fits(body)
  <2> DEFINE k == Len(g_tmpMQTTPublish)
  <2>1. k \in Nat /\ k + 27 <= MQTT_BUF_SIZE
    BY TopicsAssumption, AnswersAssumption
  <2> HIDE DEF k, n
  <2>2. 3 + n <= MQTT_BUF_SIZE
    BY <1>1, <2>1, BufSizeAssumption
  <2> QED
    BY <2>2 DEF Fits, n
<1>3. m \in Seq(Bytes8) /\ Len(m) = BodyAt(n) + n
  <2> HIDE DEF Bytes8
  <2> QED
    BY <1>2, MessageBytes
<1> HIDE DEF m
<1>4. BodyAt(n) \in {2, 3}
  BY DEF BodyAt
<1>5. Len(m) # 0
  BY <1>1, <1>3, <1>4
<1>6. m # <<>>
  BY <1>5
<1>7. Starts(m, m)
  <2>1. Len(m) \in Nat
    BY <1>3
  <2> QED
    BY <2>1 DEF Starts
<1> QED
  BY <1>2, <1>3, <1>6, <1>7 DEF m

(* An acknowledgement at the front of a buffer has its type and its id.    *)
LEMMA AckRead ==
  ASSUME NEW type \in AckTypes, NEW id \in Words, NEW b \in Seq(Bytes8), NEW len \in Nat,
         Starts(b, AckMsg(type, id)), Len(AckMsg(type, id)) <= len
  PROVE  GetType(b) = type /\ type # PUBLISH /\ ~Delivers(type) /\ GetId(b, len) = id
<1> DEFINE q == IF type = PUBREL THEN 1 ELSE 0
           body == IdBytes(id)
           m == Message(type, q, body)
<1>1. type \in 0..15 /\ q \in 0..3 /\ type # PUBLISH /\ ~Delivers(type)
  BY DEF AckTypes, PUBACK, PUBREC, PUBREL, PUBCOMP, SUBACK, UNSUBACK, PUBLISH, Delivers
<1>2. AckMsg(type, id) = m
  BY DEF AckMsg
<1>3. body \in Seq(Bytes8) /\ Len(body) = 2
  BY IdsAreBytes
<1>4. body[1] = id \div 256 /\ body[2] = id % 256 /\ 256 * (id \div 256) + (id % 256) = id
  BY DEF IdBytes, Words
<1> HIDE DEF q, body
<1>5. Fits(body)
  <2>1. Len(body) <= 2
    BY <1>3
  <2> QED
    BY <1>1, <1>3, <2>1, AcksFit
<1> HIDE DEF m
<1>6. BodyAt(2) = 2
  BY DEF BodyAt
<1>7. Len(m) = 4 /\ Starts(b, m) /\ b[2] = 2 /\ Len(m) <= len
  <2>1. Starts(b, m) /\ Len(m) <= len
    BY <1>2
  <2> HIDE DEF Bytes8
  <2>2. /\ Len(Message(type, q, body)) = BodyAt(Len(body)) + Len(body)
        /\ \A x \in Seq(Bytes8) : Starts(x, Message(type, q, body)) =>
             /\ x[1] = 16 * type + 2 * q
             /\ Len(body) <= 127 => x[2] = Len(body)
             /\ Len(body) > 127 => x[2] = 128 + (Len(body) % 128) /\ x[3] = Len(body) \div 128
             /\ \A i \in 1..Len(body) : x[BodyAt(Len(body)) + i] = body[i]
    BY <1>1, <1>3, <1>5, MessageBytes
  <2>3. /\ Len(m) = BodyAt(Len(body)) + Len(body)
        /\ Len(body) <= 127 => b[2] = Len(body)
    BY <2>1, <2>2 DEF m
  <2> QED
    BY <1>3, <1>6, <2>1, <2>3
<1>8. GetType(b) = type /\ \A i \in 0..1 : Byte(b, 2 + i) = body[i + 1]
  <2> HIDE DEF Bytes8
  <2>1. GetType(b) = type /\ \A i \in 0..Len(body)-1 : Byte(b, BodyAt(Len(body)) + i) = body[i + 1]
    BY <1>1, <1>3, <1>5, <1>7, MessageRead DEF m
  <2> QED
    BY <1>3, <1>6, <2>1
<1>9. Word(b, 2) = id
  <2>1. Byte(b, 2) = body[1] /\ Byte(b, 2 + 1) = body[2]
    BY <1>8
  <2> QED
    BY <1>4, <2>1 DEF Word
<1>10. Byte(b, 1) = 2 /\ len >= 4
  <2>1. 4 <= Len(b) /\ Len(b) \in Nat /\ DOMAIN b = 1..Len(b)
    BY <1>7 DEF Starts
  <2>2. 2 \in DOMAIN b
    BY <2>1
  <2>3. Byte(b, 1) = b[2]
    BY <2>2 DEF Byte
  <2> QED
    BY <1>7, <2>3
<1>11. GetId(b, len) = id
  <2>1. GetType(b) \in {PUBACK, PUBREC, PUBREL, PUBCOMP, SUBSCRIBE, SUBACK, UNSUBACK}
    BY <1>8 DEF AckTypes
  <2>2. GetType(b) # PUBLISH
    BY <1>1, <1>8
  <2>3. GetId(b, len) = IF len >= 4 /\ Byte(b, 1) < 128 THEN Word(b, 2) ELSE 0
    BY <2>1, <2>2 DEF GetId
  <2> QED
    BY <1>9, <1>10, <2>3
<1> QED
  BY <1>1, <1>8, <1>11

LEMMA HeardAck ==
  ASSUME NEW type \in AckTypes, NEW id \in Words
  PROVE  Heard(AckMsg(type, id)) = Acked(type, id)
<1> DEFINE m == AckMsg(type, id)
           q == IF type = PUBREL THEN 1 ELSE 0
<1>1. type \in 0..15 /\ q \in 0..3
  BY DEF AckTypes, PUBACK, PUBREC, PUBREL, PUBCOMP, SUBACK, UNSUBACK
<1>2. m = Message(type, q, IdBytes(id))
  BY DEF AckMsg
<1> HIDE DEF q
<1>3. m \in Seq(Bytes8) /\ m # <<>> /\ Starts(m, m)
  <2>1. IdBytes(id) \in Seq(Bytes8) /\ Len(IdBytes(id)) = 2
    BY IdsAreBytes
  <2> DEFINE body == IdBytes(id)
  <2>2. body \in Seq(Bytes8) /\ Len(body) <= 2
    BY <2>1
  <2> HIDE DEF body, Bytes8
  <2>3. Message(type, q, body) \in Seq(Bytes8) /\ Message(type, q, body) # <<>>
        /\ Starts(Message(type, q, body), Message(type, q, body))
    BY <1>1, <2>2, AcksFit
  <2> QED
    BY <1>2, <2>3 DEF body
<1>4. GetType(m) = type /\ type # PUBLISH /\ GetId(m, Len(m)) = id
  <2> DEFINE x == m
             n == Len(x)
  <2>1. x \in Seq(Bytes8) /\ Starts(x, AckMsg(type, id)) /\ n \in Nat /\ Len(AckMsg(type, id)) <= n
    <3>1. Starts(m, AckMsg(type, id)) /\ m = AckMsg(type, id)
      BY <1>3
    <3> HIDE DEF m
    <3>2. n \in Nat
      BY <1>3
    <3> QED
      BY <1>3, <3>1, <3>2
  <2> HIDE DEF x, n
  <2>2. GetType(x) = type /\ type # PUBLISH /\ GetId(x, n) = id
    BY <2>1, AckRead
  <2> QED
    BY <2>2 DEF x, n
<1> HIDE DEF m
<1>5. Reading(m) = [kind |-> "ack", type |-> type, id |-> id]
  BY <1>4 DEF Reading
<1> QED
  BY <1>3, <1>5 DEF Heard, Acked, m

LEMMA HeardPing == Heard(PingMsg(PINGRESP)) = Acked(PINGRESP, 0)
<1> DEFINE m == Message(PINGRESP, 0, <<>>)
           n == Len(m)
<1>1. PINGRESP \in 0..15 /\ 0 \in 0..3 /\ <<>> \in Seq(Bytes8) /\ Len(<<>>) <= 2
  BY DEF PINGRESP
<1>2. Fits(<<>>) /\ m \in Seq(Bytes8) /\ m # <<>> /\ Starts(m, m)
  <2> HIDE DEF Bytes8
  <2> QED
    BY <1>1, AcksFit
<1>3. GetType(m) = PINGRESP
  <2> DEFINE x == m
  <2>1. x \in Seq(Bytes8) /\ n \in Nat /\ Len(m) <= n /\ Starts(x, m)
    <3> HIDE DEF m
    <3>1. n \in Nat
      BY <1>2
    <3> QED
      BY <1>2, <3>1
  <2> HIDE DEF x, n, Bytes8
  <2>2. GetType(x) = PINGRESP
    BY <1>1, <1>2, <2>1, MessageRead
  <2> QED
    BY <2>2 DEF x
<1>4. PingMsg(PINGRESP) = m
  BY DEF PingMsg
<1> HIDE DEF m
<1>5. GetType(m) # PUBLISH /\ GetId(m, n) = 0
  BY <1>3 DEF GetId, PINGRESP, PUBLISH, PUBACK, PUBREC, PUBREL, PUBCOMP, SUBSCRIBE, SUBACK, UNSUBACK
<1>6. Reading(m) = [kind |-> "ack", type |-> PINGRESP, id |-> 0]
  BY <1>3, <1>5 DEF Reading
<1> QED
  BY <1>2, <1>4, <1>6 DEF Heard, Acked

(* What acknowledges a packet, and what the application says to it.        *)
AckOf(p) ==
  IF p.kind = "command"
  THEN IF p.qos = 0 THEN <<>> ELSE Acked(IF p.qos = 1 THEN PUBACK ELSE PUBREC, p.id)
  ELSE IF p.kind = "ack" /\ p.type = PUBREC THEN Acked(PUBREL, p.id)
  ELSE IF p.kind = "ack" /\ p.type = PUBREL THEN Acked(PUBCOMP, p.id)
  ELSE IF p.kind = "ping" /\ p.type = PINGREQ THEN Acked(PINGRESP, 0)
  ELSE <<>>

LEMMA AckAnswers ==
  ASSUME NEW p, Fair(p), NEW b \in Seq(Bytes8), Starts(b, Wire(p)), Len(Wire(p)) < MQTT_BUF_SIZE
  PROVE  Heard(Ack(b)) = AckOf(p)
<1> DEFINE len == MQTT_BUF_SIZE
           id == GetId(b, len)
           a == Ack(b)
           w == Wire(p)
<1>1. p \in Packets /\ w # <<>>
  BY DEF Fair
<1>2. w \in Seq(Bytes8) /\ Len(w) \in Nat /\ Len(w) < len /\ len \in Nat /\ Len(w) <= len
      /\ Len(w) # len
  <2>1. w \in Seq(Bytes8)
    BY WireBytes
  <2> HIDE DEF w
  <2> DEFINE n == Len(w)
  <2>2. n \in Nat /\ n < len /\ len \in Nat
    BY <2>1, BufSizeAssumption DEF w
  <2> HIDE DEF n
  <2>3. n <= len /\ n # len
    BY <2>2, BufSizeAssumption
  <2> QED
    BY <2>1, <2>2, <2>3 DEF n
<1>3. a = CASE Delivers(GetType(b)) /\ GetQos(b) = 1 -> AckMsg(PUBACK, id)
            [] Delivers(GetType(b)) /\ GetQos(b) = 2 -> AckMsg(PUBREC, id)
            [] GetType(b) = PUBREC  -> AckMsg(PUBREL, id)
            [] GetType(b) = PUBREL  -> AckMsg(PUBCOMP, id)
            [] GetType(b) = PINGREQ -> PingMsg(PINGRESP)
            [] OTHER -> <<>>
  BY DEF Ack
<1> HIDE DEF a, id, len, w
<1>4. Heard(<<>>) = <<>>
  BY DEF Heard
<1>5. PUBACK \in AckTypes /\ PUBREC \in AckTypes /\ PUBREL \in AckTypes /\ PUBCOMP \in AckTypes
  BY DEF AckTypes
<1>6. CASE IsPublish(p)
  <2> DEFINE topic == TopicOf(p)
             data == DataOf(p)
             qos == QosOf(p)
  <2>1. /\ w = PublishMsg(topic, data, qos, IdOf(p))
        /\ topic \in Seq(Bytes8) /\ data \in Seq(Bytes8) /\ qos \in 0..2 /\ IdOf(p) \in Words
    BY <1>6, PublishWire DEF w
  <2> HIDE DEF topic, data, qos
  <2>2. /\ Starts(b, PublishMsg(topic, data, qos, IdOf(p)))
        /\ Len(PublishMsg(topic, data, qos, IdOf(p))) <= len
        /\ Len(PublishMsg(topic, data, qos, IdOf(p))) # len
        /\ PublishMsg(topic, data, qos, IdOf(p)) # <<>>
    BY <1>1, <1>2, <2>1 DEF w
  <2>3. GetType(b) = PUBLISH /\ GetQos(b) = qos /\ (qos > 0 => GetId(b, len) = IdOf(p))
    BY <1>2, <2>1, <2>2, PublishRead
  <2>4. CASE p.kind = "command"
    <3>1. qos = p.qos /\ IdOf(p) = p.id /\ p.qos \in 0..2 /\ p.id \in Words
      BY <2>1, <2>4 DEF QosOf, IdOf, qos
    <3>2. AckOf(p) = IF p.qos = 0 THEN <<>> ELSE Acked(IF p.qos = 1 THEN PUBACK ELSE PUBREC, p.id)
      BY <2>4 DEF AckOf
    <3>3. CASE p.qos = 0
      <4>1. a = <<>>
        BY <1>3, <2>3, <3>1, <3>3 DEF PUBLISH, PUBREC, PUBREL, PINGREQ, Delivers, SUBACK, UNSUBACK
      <4> QED
        BY <1>4, <3>2, <3>3, <4>1 DEF a
    <3>4. CASE p.qos = 1
      <4>1. a = AckMsg(PUBACK, p.id)
        BY <1>3, <2>3, <3>1, <3>4 DEF PUBLISH, PUBREC, PUBREL, PINGREQ, Delivers, SUBACK, UNSUBACK, id
      <4> QED
        BY <1>5, <3>1, <3>2, <3>4, <4>1, HeardAck DEF a
    <3>5. CASE p.qos = 2
      <4>1. a = AckMsg(PUBREC, p.id)
        BY <1>3, <2>3, <3>1, <3>5 DEF PUBLISH, PUBREC, PUBREL, PINGREQ, Delivers, SUBACK, UNSUBACK, id
      <4> QED
        BY <1>5, <3>1, <3>2, <3>5, <4>1, HeardAck DEF a
    <3> QED
      BY <3>1, <3>3, <3>4, <3>5
  <2>5. CASE p.kind # "command"
    <3>1. qos = 0 /\ AckOf(p) = <<>>
      BY <1>6, <2>5 DEF QosOf, qos, AckOf, IsPublish
    <3>2. a = <<>>
      BY <1>3, <2>3, <3>1 DEF PUBLISH, PUBREC, PUBREL, PINGREQ, Delivers, SUBACK, UNSUBACK
    <3> QED
      BY <1>4, <3>1, <3>2 DEF a
  <2> QED
    BY <2>4, <2>5
<1>7. CASE p.kind = "ack"
  <2>1. p.type \in AckTypes /\ p.id \in Words
    BY <1>1, <1>7, PacketFields DEF AckTypes
  <2>2. w = AckMsg(p.type, p.id)
    BY <1>7 DEF Wire, w
  <2>3. GetType(b) = p.type /\ p.type # PUBLISH /\ ~Delivers(p.type) /\ id = p.id
    BY <1>2, <2>1, <2>2, AckRead DEF w, id
  <2>4. CASE p.type = PUBREC
    <3>1. a = AckMsg(PUBREL, p.id)
      BY <1>3, <2>3, <2>4 DEF PUBLISH, PUBREC, PUBREL, PINGREQ, Delivers, SUBACK, UNSUBACK
    <3>2. AckOf(p) = Acked(PUBREL, p.id)
      BY <1>7, <2>4 DEF AckOf
    <3> QED
      BY <1>5, <2>1, <3>1, <3>2, HeardAck DEF a
  <2>5. CASE p.type = PUBREL
    <3>1. a = AckMsg(PUBCOMP, p.id)
      BY <1>3, <2>3, <2>5 DEF PUBLISH, PUBREC, PUBREL, PINGREQ, Delivers, SUBACK, UNSUBACK
    <3>2. AckOf(p) = Acked(PUBCOMP, p.id)
      BY <1>7, <2>5 DEF AckOf, PUBREC, PUBREL
    <3> QED
      BY <1>5, <2>1, <3>1, <3>2, HeardAck DEF a
  <2>6. CASE p.type \notin {PUBREC, PUBREL}
    <3>1. a = <<>>
      BY <1>3, <2>1, <2>3, <2>6 DEF AckTypes, PUBACK, PUBCOMP, SUBACK, UNSUBACK, PINGREQ, PUBLISH, Delivers
    <3>2. AckOf(p) = <<>>
      BY <1>7, <2>6 DEF AckOf
    <3> QED
      BY <1>4, <3>1, <3>2 DEF a
  <2> QED
    BY <2>4, <2>5, <2>6
<1>8. CASE p.kind = "ping"
  <2>1. p.type \in {PINGREQ, PINGRESP}
    BY <1>1, <1>8, PacketFields
  <2>2. p.type \in 0..15 /\ p.type # PUBLISH /\ 0 \in 0..3 /\ <<>> \in Seq(Bytes8) /\ Len(<<>>) <= 2
    BY <2>1 DEF PINGREQ, PINGRESP, PUBLISH
  <2>3. w = Message(p.type, 0, <<>>)
    BY <1>8 DEF Wire, PingMsg, w
  <2>4. GetType(b) = p.type
    <3>1. Fits(<<>>)
      BY <2>2, AcksFit
    <3>2. Starts(b, Message(p.type, 0, <<>>)) /\ Len(Message(p.type, 0, <<>>)) <= len
      BY <1>2, <2>3 DEF w
    <3> HIDE DEF Bytes8
    <3> QED
      BY <1>2, <2>2, <3>1, <3>2, MessageRead
  <2>5. CASE p.type = PINGREQ
    <3>1. a = PingMsg(PINGRESP)
      BY <1>3, <2>4, <2>5 DEF PUBLISH, PUBREC, PUBREL, PINGREQ, Delivers, SUBACK, UNSUBACK
    <3>2. AckOf(p) = Acked(PINGRESP, 0)
      BY <1>8, <2>5 DEF AckOf
    <3> QED
      BY <3>1, <3>2, HeardPing DEF a
  <2>6. CASE p.type = PINGRESP
    <3>1. a = <<>>
      BY <1>3, <2>4, <2>6 DEF PUBLISH, PUBREC, PUBREL, PINGREQ, Delivers, SUBACK, UNSUBACK, PINGRESP
    <3>2. AckOf(p) = <<>>
      BY <1>8, <2>6 DEF AckOf, PINGREQ, PINGRESP
    <3> QED
      BY <1>4, <3>1, <3>2 DEF a
  <2> QED
    BY <2>1, <2>5, <2>6
<1> QED
  BY <1>1, <1>6, <1>7, <1>8, PacketFields DEF IsPublish

(* What the application says to a packet when the state is b, and the state*)
(* behind it.                                                              *)
TellOf(p, b) ==
  IF p.kind = "command" THEN Told(p, b)
  ELSE IF p.kind = "search" THEN <<[kind |-> "reply", text |-> SearchReply]>> ELSE <<>>

After(p, b) == IF p.kind = "command" THEN Wanted(p, b) ELSE b

LEMMA FlagsDiffer ==
  /\ Kg(48) # Kg(49) /\ Kg(48) # Kg(50) /\ Kg(49) # Kg(50)
  /\ Tk(48) # Tk(49) /\ Tk(48) # Tk(50) /\ Tk(49) # Tk(50)
  /\ \A c, d : Kg(c)[1] = 107 /\ Tk(d)[1] = 116 /\ Kg(c) # Tk(d)
BY DEF Kg, Tk

(* mcu_proc does what a command with its parameters asks for.              *)
LEMMA McuProcTells ==
  ASSUME NEW p, p.kind = "command", IsComplete(p), p.parm \in Seq(Bytes8),
         NEW cache, NEW f, f.flag = p.flag, f.parameter \in Nat,
         \A i \in 1..Len(p.parm) : ByteAt(cache, f.parameter + i - 1) = p.parm[i],
         g_kg1 \in Bytes8
  PROVE  /\ McuProc(cache, f).kg1 = Wanted(p, g_kg1)
         /\ Heard(McuProc(cache, f).msg) = Told(p, g_kg1)
<1> DEFINE r == McuProc(cache, f)
           off == f.parameter
           x == ByteAt(cache, off + 0)
           y == ByteAt(cache, off + 1)
           n == Len(p.parm)
           v == p.parm[1]
           u == p.parm[2]
           flag == p.flag
           now == g_kg1
           w == Wanted(p, now)
           is == IsAnswered(p)
           lead == IF flag[1] = 107 THEN Kg(97) ELSE Tk(97)
<1>1. r = CASE flag = Kg(48) -> [kg1 |-> now, msg |-> Status(Kg(97), now)]
            [] flag = Kg(49) -> [kg1 |-> x, msg |-> Status(Kg(97), x)]
            [] flag = Kg(50) /\ x = 0 -> [kg1 |-> y, msg |-> Status(Kg(97), y)]
            [] flag = Tk(48) -> [kg1 |-> now, msg |-> Status(Tk(97), now)]
            [] flag = Tk(49) -> [kg1 |-> 1, msg |-> Status(Tk(97), 1)]
            [] flag = Tk(50) /\ x = 0 -> [kg1 |-> 1, msg |-> Status(Tk(97), 1)]
            [] OTHER -> [kg1 |-> now, msg |-> <<>>]
  BY DEF McuProc
<1>2. n \in Nat /\ (flag \in {Kg(49), Tk(50)} => n >= 1) /\ (flag = Kg(50) => n >= 2)
  BY DEF IsComplete
<1>3. (n >= 1 => x = v /\ v \in Bytes8) /\ (n >= 2 => y = u /\ u \in Bytes8)
  <2>1. ASSUME n >= 1
        PROVE  x = v /\ v \in Bytes8
    <3>1. 1 \in 1..n /\ off + 1 - 1 = off + 0
      BY <1>2, <2>1
    <3> HIDE DEF Bytes8
    <3> QED
      BY <3>1, ElementOfSeq
  <2>2. ASSUME n >= 2
        PROVE  y = u /\ u \in Bytes8
    <3>1. 2 \in 1..n /\ off + 2 - 1 = off + 1
      BY <1>2, <2>2
    <3> HIDE DEF Bytes8
    <3> QED
      BY <3>1, ElementOfSeq
  <2> QED
    BY <2>1, <2>2
<1>4. w = IF flag = Kg(49) THEN v
          ELSE IF flag = Kg(50) /\ v = 0 THEN u
          ELSE IF flag = Tk(49) \/ (flag = Tk(50) /\ v = 0) THEN 1
          ELSE now
  BY DEF Wanted
<1>5. is <=> \/ flag \in {Kg(48), Kg(49), Tk(48), Tk(49)}
             \/ flag \in {Kg(50), Tk(50)} /\ v = 0
  BY DEF IsAnswered
<1>6. Told(p, now) = IF ~is THEN <<>> ELSE <<[kind |-> "status", flag |-> lead, told |-> <<w>>]>>
  BY DEF Told
<1>7. 1 \in Bytes8 /\ now \in Bytes8
  BY DEF Bytes8
<1> HIDE DEF r, x, y, n, v, u, flag, now, w, is
<1>8. ASSUME is
      PROVE  w \in Bytes8 /\ lead \in {Kg(97), Tk(97)} /\ r = [kg1 |-> w, msg |-> Status(lead, w)]
  <2>1. w \in Bytes8
    BY <1>2, <1>3, <1>4, <1>7, <1>8, <1>5
  <2>2. CASE flag = Kg(48)
    <3>1. w = now /\ lead = Kg(97)
      BY <1>4, <2>2, FlagsDiffer
    <3>2. flag \notin {Kg(49), Kg(50), Tk(48), Tk(49), Tk(50)}
      BY <2>2, FlagsDiffer
    <3> HIDE DEF lead
    <3>3. r = [kg1 |-> now, msg |-> Status(Kg(97), now)]
      BY <1>1, <2>2, <3>2
    <3> QED
      BY <2>1, <3>1, <3>3
  <2>3. CASE flag = Kg(49)
    <3>1. w = v /\ x = v /\ lead = Kg(97) /\ flag # Kg(48)
      BY <1>2, <1>3, <1>4, <2>3, FlagsDiffer
    <3> QED
      BY <1>1, <2>1, <2>3, <3>1, FlagsDiffer
  <2>4. CASE flag = Kg(50) /\ v = 0
    <3>1. w = u /\ x = v /\ y = u /\ lead = Kg(97) /\ flag # Kg(48) /\ flag # Kg(49)
      BY <1>2, <1>3, <1>4, <2>4, FlagsDiffer
    <3>2. flag # Tk(48) /\ flag # Tk(49) /\ flag # Tk(50)
      BY <2>4, FlagsDiffer
    <3> HIDE DEF lead
    <3>3. r = [kg1 |-> y, msg |-> Status(Kg(97), y)]
      BY <1>1, <2>4, <3>1, <3>2
    <3> QED
      BY <2>1, <3>1, <3>3
  <2>5. CASE flag = Tk(48)
    <3>1. w = now /\ lead = Tk(97)
      BY <1>4, <2>5, FlagsDiffer
    <3> QED
      BY <1>1, <2>1, <2>5, <3>1, FlagsDiffer
  <2>6. CASE flag = Tk(49)
    <3>1. w = 1 /\ lead = Tk(97)
      BY <1>4, <2>6, FlagsDiffer
    <3> QED
      BY <1>1, <2>1, <2>6, <3>1, FlagsDiffer
  <2>7. CASE flag = Tk(50) /\ v = 0
    <3>1. w = 1 /\ x = v /\ lead = Tk(97)
      BY <1>2, <1>3, <1>4, <2>7, FlagsDiffer
    <3> QED
      BY <1>1, <2>1, <2>7, <3>1, FlagsDiffer
  <2> QED
    BY <1>5, <1>8, <2>2, <2>3, <2>4, <2>5, <2>6, <2>7
<1>9. ASSUME ~is
      PROVE  w = now /\ r = [kg1 |-> now, msg |-> <<>>]
  <2>1. /\ flag \notin {Kg(48), Kg(49), Tk(48), Tk(49)}
        /\ flag \in {Kg(50), Tk(50)} => v # 0 /\ x = v
    BY <1>2, <1>3, <1>5, <1>9
  <2> QED
    BY <1>1, <1>4, <2>1
<1>10. r.kg1 = w
  BY <1>8, <1>9
<1>11. Heard(r.msg) = Told(p, now)
  <2>1. CASE is
    <3> HIDE DEF lead
    <3>1. r.msg = Status(lead, w) /\ w \in Bytes8 /\ lead \in {Kg(97), Tk(97)}
      BY <1>8, <2>1
    <3>2. Heard(Status(lead, w)) = <<[kind |-> "status", flag |-> lead, told |-> <<w>>]>>
      BY <3>1, HeardStatus
    <3> QED
      BY <1>6, <2>1, <3>1, <3>2
  <2>2. CASE ~is
    <3>1. r.msg = <<>>
      BY <1>9, <2>2
    <3> QED
      BY <1>6, <2>2, <3>1 DEF Heard
  <2> QED
    BY <2>1, <2>2
<1> QED
  BY <1>10, <1>11 DEF r, w, now

-----------------------------------------------------------------------------
(* Handling a packet.                                                      *)
IsMsg(m) == m \in Seq(Bytes8) /\ Len(m) <= MQTT_BUF_SIZE

(* A result that leaves the types as they are.                             *)
Sound(r, b) == /\ r.buf \in Seq(Bytes8) /\ Len(r.buf) = Len(b)
               /\ r.kg1 \in Bytes8 /\ IsMsg(r.msg)

(* One that says to a packet what should be said.                          *)
Says(r, p) == IsComplete(p) => r.kg1 = After(p, g_kg1) /\ Heard(r.msg) = TellOf(p, g_kg1)

LEMMA NoMsg == IsMsg(<<>>)
<1>1. <<>> \in Seq(Bytes8) /\ Len(<<>>) = 0
  OBVIOUS
<1> QED
  BY <1>1, BufSizeAssumption DEF IsMsg

LEMMA StatusIsMsg ==
  ASSUME NEW flag \in {Kg(97), Tk(97)}, NEW x \in Bytes8
  PROVE  IsMsg(Status(flag, x))
<1> DEFINE t == sbufEncode(CreateFrame(flag, <<x>>, TRUE))
<1>1. IsFrame(flag, <<x>>)
  BY StatusFrame
<1>2. CreateFrame(flag, <<x>>, TRUE) \in Seq(Bytes8)
  <2> DEFINE y == <<x>>
  <2> HIDE DEF y, Bytes8
  <2>1. IsFrame(flag, y) /\ TRUE \in BOOLEAN
    BY <1>1 DEF y
  <2>2. CreateFrame(flag, y, TRUE) \in Seq(Bytes8)
    BY <2>1, FrameBytes
  <2> QED
    BY <2>2 DEF y
<1>3. t \in Seq(1..255)
  BY <1>2, EncodesBytes
<1> HIDE DEF t
<1>4. 1..255 \subseteq Bytes8 /\ 0 \in Words
  BY DEF Bytes8, Words
<1>5. t \in Seq(Bytes8) /\ g_tmpMQTTPublish \in Seq(Bytes8)
  <2> HIDE DEF Bytes8
  <2> QED
    BY <1>3, <1>4, TopicsAssumption, SeqMonotonic
<1>6. 0 \in 0..2
  OBVIOUS
<1>7. /\ PublishMsg(g_tmpMQTTPublish, t, 0, 0) \in Seq(Bytes8)
      /\ Len(PublishMsg(g_tmpMQTTPublish, t, 0, 0)) <= MQTT_BUF_SIZE
  BY <1>4, <1>5, <1>6, PublishBytes
<1> QED
  BY <1>7 DEF IsMsg, Status, t

LEMMA McuProcSound ==
  ASSUME NEW cache \in Seq(Bytes8), NEW f, f.parameter \in Nat, g_kg1 \in Bytes8
  PROVE  McuProc(cache, f).kg1 \in Bytes8 /\ IsMsg(McuProc(cache, f).msg)
<1> DEFINE Param(i) == ByteAt(cache, f.parameter + i)
           r == McuProc(cache, f)
           x == Param(0)
           y == Param(1)
<1>1. \A i \in Nat : ByteAt(cache, i) \in Bytes8
  <2> TAKE i \in Nat
  <2>1. CASE i < Len(cache)
    <3>1. i + 1 \in 1..Len(cache)
      BY <2>1
    <3>2. cache[i + 1] \in Bytes8
      BY <3>1, ElementOfSeq
    <3> QED
      BY <2>1, <3>2 DEF ByteAt
  <2>2. CASE ~(i < Len(cache))
    BY <2>2 DEF ByteAt, Bytes8
  <2> QED
    BY <2>1, <2>2
<1>2. x \in Bytes8 /\ y \in Bytes8 /\ 1 \in Bytes8
  <2>1. f.parameter + 0 \in Nat /\ f.parameter + 1 \in Nat /\ 1 \in Bytes8
    BY DEF Bytes8
  <2> QED
    BY <1>1, <2>1
<1>3. r = CASE f.flag = Kg(48) -> [kg1 |-> g_kg1, msg |-> Status(Kg(97), g_kg1)]
            [] f.flag = Kg(49) -> [kg1 |-> x, msg |-> Status(Kg(97), x)]
            [] f.flag = Kg(50) /\ x = 0 -> [kg1 |-> y, msg |-> Status(Kg(97), y)]
            [] f.flag = Tk(48) -> [kg1 |-> g_kg1, msg |-> Status(Tk(97), g_kg1)]
            [] f.flag = Tk(49) -> [kg1 |-> 1, msg |-> Status(Tk(97), 1)]
            [] f.flag = Tk(50) /\ x = 0 -> [kg1 |-> 1, msg |-> Status(Tk(97), 1)]
            [] OTHER -> [kg1 |-> g_kg1, msg |-> <<>>]
  BY DEF McuProc
<1> HIDE DEF x, y, r
<1>4. \/ \E z \in {g_kg1, x, y, 1}, flag \in {Kg(97), Tk(97)} :
           r = [kg1 |-> z, msg |-> Status(flag, z)]
      \/ r = [kg1 |-> g_kg1, msg |-> <<>>]
  BY <1>3
<1>5. CASE r = [kg1 |-> g_kg1, msg |-> <<>>]
  BY <1>5, NoMsg DEF r
<1>6. CASE \E z \in {g_kg1, x, y, 1}, flag \in {Kg(97), Tk(97)} :
             r = [kg1 |-> z, msg |-> Status(flag, z)]
  <2>1. PICK z \in {g_kg1, x, y, 1}, flag \in {Kg(97), Tk(97)} :
               r = [kg1 |-> z, msg |-> Status(flag, z)]
    BY <1>6
  <2>2. z \in Bytes8
    BY <1>2
  <2>3. r.kg1 = z /\ r.msg = Status(flag, z)
    BY <2>1
  <2>4. IsMsg(Status(flag, z))
    BY <2>2, StatusIsMsg
  <2> QED
    BY <2>2, <2>3, <2>4 DEF r
<1> QED
  BY <1>4, <1>5, <1>6

LEMMA CapitalsLeft ==
  ASSUME NEW b \in Seq(Bytes8), NEW at \in 0..Len(b)
  PROVE  LET left == SubSeq(b, 1, at) \o Capitals(From(b, at))
         IN  left \in Seq(Bytes8) /\ Len(left) = Len(b)
<1> DEFINE n == Len(b)
           u == SubSeq(b, 1, at)
           v == Capitals(From(b, at))
<1>1. n \in Nat /\ at \in 0..n
  OBVIOUS
<1>2. u \in Seq(Bytes8) /\ Len(u) = at
  <2>1. \A i \in 1..at : b[i] \in Bytes8
    <3> TAKE i \in 1..at
    <3>1. i \in 1..Len(b)
      BY <1>1
    <3> HIDE DEF Bytes8
    <3> QED
      BY <3>1, ElementOfSeq
  <2>2. /\ u \in Seq(Bytes8)
        /\ Len(u) = IF 1 <= at THEN at - 1 + 1 ELSE 0
    <3> HIDE DEF Bytes8, u
    <3>1. /\ SubSeq(b, 1, at) \in Seq(Bytes8)
          /\ Len(SubSeq(b, 1, at)) = IF 1 <= at THEN at - 1 + 1 ELSE 0
      BY <2>1, SubSeqProperties
    <3> QED
      BY <3>1 DEF u
  <2>3. (IF 1 <= at THEN at - 1 + 1 ELSE 0) = at
    BY <1>1
  <2> QED
    BY <2>2, <2>3
<1>3. v \in Seq(Bytes8) /\ Len(v) = n - at
  <2> DEFINE w == From(b, at)
  <2>1. w \in Seq(Bytes8) /\ Len(w) = n - at
    <3> HIDE DEF Bytes8
    <3> QED
      BY FromParts
  <2> HIDE DEF w
  <2>2. Capitals(w) \in Seq(Bytes8) /\ Len(Capitals(w)) = Len(w)
    BY <2>1, CapitalBytes
  <2> QED
    BY <2>1, <2>2 DEF w
<1> HIDE DEF u, v, Bytes8
<1>4. u \o v \in Seq(Bytes8) /\ Len(u \o v) = Len(u) + Len(v)
  BY <1>2, <1>3, ConcatParts
<1>5. at + (n - at) = n
  BY <1>1
<1>6. Len(u \o v) = n
  BY <1>2, <1>3, <1>4, <1>5
<1> QED
  BY <1>4, <1>6 DEF u, v, n

(* The frame of a command is found and handed on.                          *)
LEMMA CommandTransferred ==
  ASSUME NEW p, Fair(p), p.kind = "command",
         NEW b \in Seq(Bytes8), NEW at \in 0..Len(b), Starts(From(b, at), CommandText(p)),
         g_kg1 \in Bytes8
  PROVE  /\ Sound(TransToMcu(b, at), b)
         /\ TransToMcu(b, at).did = <<[flag |-> p.flag, parm |-> p.parm]>>
         /\ Says(TransToMcu(b, at), p)
<1> DEFINE src == From(b, at)
           cache == sbufDecode(src)
           f == GetFrame(cache)
           left == SubSeq(b, 1, at) \o Capitals(src)
           fr == CreateFrame(p.flag, p.parm, p.crc)
           mcu == McuProc(cache, f)
           n == Len(p.parm)
           off == Offset(p.flag, p.parm)
           got == Bytes(cache, f.parameter, f.parameter_len)
<1>1. IsFrame(p.flag, p.parm) /\ p.crc \in BOOLEAN
  BY PacketFields DEF Fair
<1>2. src \in Seq(Bytes8) /\ Starts(src, CommandText(p))
  BY FromParts
<1>3. left \in Seq(Bytes8) /\ Len(left) = Len(b)
  BY CapitalsLeft
<1> HIDE DEF src, left
<1>4. cache \in Seq(Bytes8)
  BY <1>2, Decodes
<1>5. Starts(cache, fr)
  <2>1. Spells(src, fr)
    BY <1>2, TextSpells
  <2>2. fr \in Seq(Bytes8)
    BY <1>1, FrameBytes
  <2> HIDE DEF fr
  <2> QED
    BY <1>2, <2>1, <2>2, Decodes
<1> HIDE DEF cache
<1>6. f.ok /\ f.flag = p.flag /\ f.parameter = off /\ f.parameter_len = n
  BY <1>1, <1>4, <1>5, GetsFrame
<1>7. /\ off \in Nat
      /\ Bytes(cache, off, n) = p.parm
      /\ \A i \in 1..n : ByteAt(cache, off + i - 1) = p.parm[i]
  BY <1>1, <1>4, <1>5, FrameParms
<1> HIDE DEF fr, f
<1>8. mcu.kg1 \in Bytes8 /\ IsMsg(mcu.msg)
  BY <1>4, <1>6, <1>7, McuProcSound
<1>9. got = p.parm
  BY <1>6, <1>7
<1>10. TransToMcu(b, at) = [buf |-> left, kg1 |-> mcu.kg1, msg |-> mcu.msg,
                            did |-> <<[flag |-> f.flag, parm |-> got]>>]
  BY <1>6 DEF TransToMcu, cache, f, left, src
<1> HIDE DEF mcu, got
<1> DEFINE r == TransToMcu(b, at)
<1>11. r.buf = left /\ r.kg1 = mcu.kg1 /\ r.msg = mcu.msg
       /\ r.did = <<[flag |-> f.flag, parm |-> got]>>
  BY <1>10
<1>12. ASSUME IsComplete(p)
       PROVE  r.kg1 = After(p, g_kg1) /\ Heard(r.msg) = TellOf(p, g_kg1)
  <2> HIDE DEF r, off
  <2>1. p.parm \in Seq(Bytes8) /\ f.flag = p.flag /\ f.parameter \in Nat
        /\ \A i \in 1..Len(p.parm) : ByteAt(cache, f.parameter + i - 1) = p.parm[i]
    <3>1. p.parm \in Seq(Bytes8)
      BY <1>1 DEF IsFrame
    <3>2. f.flag = p.flag /\ f.parameter \in Nat
      BY <1>6, <1>7
    <3> QED
      BY <1>6, <1>7, <3>1, <3>2
  <2>2. /\ McuProc(cache, f).kg1 = Wanted(p, g_kg1)
        /\ Heard(McuProc(cache, f).msg) = Told(p, g_kg1)
    BY <1>12, <2>1, McuProcTells
  <2>3. After(p, g_kg1) = Wanted(p, g_kg1) /\ TellOf(p, g_kg1) = Told(p, g_kg1)
    BY DEF After, TellOf
  <2> QED
    BY <1>11, <2>2, <2>3 DEF mcu
<1> HIDE DEF r
<1> QED
  BY <1>3, <1>6, <1>8, <1>9, <1>11, <1>12 DEF Sound, Says, r

(* The commands that a packet is.                                          *)
Order(p) == IF p.kind = "command" THEN <<[flag |-> p.flag, parm |-> p.parm]>> ELSE <<>>

LEMMA NothingSound ==
  ASSUME NEW b \in Seq(Bytes8), g_kg1 \in Bytes8
  PROVE  Sound(Nothing(b), b) /\ Nothing(b).did = <<>>
<1> DEFINE r == Nothing(b)
<1>1. r.buf = b /\ r.kg1 = g_kg1 /\ r.msg = <<>> /\ r.did = <<>>
  BY DEF Nothing
<1> HIDE DEF r
<1> QED
  BY <1>1, NoMsg DEF Sound, r

(* To other packets, the application says nothing.                         *)
LEMMA NothingSaid ==
  ASSUME NEW p, p.kind \notin {"command", "search"}
  PROVE  \A b : Says(Nothing(b), p)
<1> TAKE b
<1> DEFINE r == Nothing(b)
<1>1. r.kg1 = g_kg1 /\ r.msg = <<>>
  BY DEF Nothing
<1>2. After(p, g_kg1) = g_kg1 /\ TellOf(p, g_kg1) = <<>> /\ Heard(<<>>) = <<>>
  BY DEF After, TellOf, Heard
<1> HIDE DEF r
<1> QED
  BY <1>1, <1>2 DEF Says, r

LEMMA Delivered ==
  ASSUME NEW p, Fair(p), IsPublish(p), NEW b \in Seq(Bytes8), Starts(b, Wire(p)),
         NEW len \in Nat, Len(Wire(p)) <= len, g_kg1 \in Bytes8
  PROVE  /\ GetType(b) = PUBLISH /\ TotalLength(b, len) = Len(Wire(p))
         /\ Sound(Deliver(b, len), b) /\ Deliver(b, len).did = Order(p)
         /\ Says(Deliver(b, len), p)
<1> DEFINE topic == TopicOf(p)
           data == DataOf(p)
           qos == QosOf(p)
           id == IdOf(p)
           at == TopicAt(topic, data, qos)
           d == DataAt(topic, data, qos)
           msg == PublishMsg(topic, data, qos, id)
           T == Len(topic)
           t == PublishTopic(b, len)
           c == PublishData(b, len)
           r == Deliver(b, len)
<1>1. /\ Wire(p) = msg /\ topic \in Seq(Bytes8) /\ data \in Seq(Bytes8)
      /\ qos \in 0..2 /\ id \in Words /\ msg # <<>>
  BY PublishWire DEF Fair
<1>2. p \in Packets /\ p.kind \in {"command", "search", "text"}
  BY DEF Fair, IsPublish
<1>3. /\ GetType(b) = PUBLISH /\ TotalLength(b, len) = Len(msg)
      /\ t = Piece(at, T)
      /\ \A i \in 1..T : Byte(b, at + i - 1) = topic[i]
      /\ data = <<>> /\ qos = 0 => c.length = 0
      /\ data # <<>> => c = Piece(d, Len(data)) /\ d \in 0..Len(b) /\ Starts(From(b, d), data)
  <2> HIDE DEF topic, data, qos, id
  <2>1. Starts(b, msg) /\ Len(msg) <= len
    BY <1>1
  <2> QED
    BY <1>1, <2>1, PublishRead
<1>4. t.at = at /\ t.length = T
  BY <1>3 DEF Piece
<1> HIDE DEF at, d, msg, t, c, r
<1>5. Sound(Nothing(b), b) /\ Nothing(b).did = <<>>
  BY NothingSound
<1>6. CASE p.kind = "search"
  <2>1. topic = SearchTopic /\ SearchTopic \in Seq(Bytes8) /\ T = 5
    <3>1. topic = SearchTopic
      BY <1>6 DEF TopicOf
    <3>2. Len(SearchTopic) = 5
      BY DEF SearchTopic
    <3> QED
      BY <1>1, <3>1, <3>2
  <2>2. Bytes(b, t.at, 5) = SearchTopic
    <3>1. Bytes(b, t.at, 5) = [i \in 1..5 |-> Byte(b, at + i - 1)]
      BY <1>4 DEF Bytes
    <3>2. SearchTopic = [i \in 1..5 |-> SearchTopic[i]]
      BY <2>1 DEF T
    <3> HIDE DEF topic
    <3>3. \A i \in 1..5 : Byte(b, at + i - 1) = SearchTopic[i]
      BY <1>3, <2>1
    <3> QED
      BY <3>1, <3>2, <3>3
  <2>3. Order(p) = <<>>
    BY <1>6 DEF Order
  <2> DEFINE reply == PublishMsg(ReplyTopic, SearchReply, 0, 0)
             said == [buf |-> b, kg1 |-> g_kg1, msg |-> reply, did |-> <<>>]
  <2>4. r = said
    <3>1. data = SearchText /\ SearchText \in Seq(Bytes8) /\ Len(SearchText) = 5
      <4>1. data = SearchText
        BY <1>6 DEF DataOf
      <4>2. Len(SearchText) = 5
        BY DEF SearchText
      <4> QED
        BY <1>1, <4>1, <4>2
    <3> DEFINE text == SearchText
    <3>2. data = text /\ text \in Seq(Bytes8) /\ Len(text) = 5
      BY <3>1
    <3> HIDE DEF data, text
    <3>3. data # <<>>
      <4>1. Len(data) # Len(<<>>)
        BY <3>2
      <4> QED
        BY <4>1, Zenon
    <3>4. c = Piece(d, 5) /\ d \in 0..Len(b) /\ Starts(From(b, d), text)
      BY <1>3, <3>2, <3>3
    <3>5. c.at = d /\ c.length = 5
      BY <3>4 DEF Piece
    <3>6. Bytes(b, d, 5) = [i \in 1..5 |-> Byte(b, d + i - 1)]
      BY DEF Bytes
    <3>7. text = [i \in 1..5 |-> text[i]]
      BY <3>2
    <3>8. ASSUME NEW i \in 1..5
          PROVE  Byte(b, d + i - 1) = text[i]
      <4> DEFINE n == Len(b)
      <4>1. /\ \A j \in 1..n-d : From(b, d)[j] = b[d + j]
            /\ Len(From(b, d)) = n - d
        BY <3>4, FromParts
      <4>2. 5 <= n - d /\ From(b, d)[i] = text[i]
        BY <3>2, <3>4, <4>1 DEF Starts
      <4>3. n \in Nat /\ DOMAIN b = 1..n /\ d \in 0..n
        BY <3>4
      <4> HIDE DEF n
      <4>4. i \in 1..n-d /\ d + i \in 1..n /\ (d + i - 1) + 1 = d + i
        BY <4>2, <4>3
      <4>5. Byte(b, d + i - 1) = b[d + i]
        BY <4>3, <4>4 DEF Byte
      <4> QED
        BY <4>1, <4>2, <4>4, <4>5
    <3>9. Bytes(b, c.at, 5) = SearchText /\ c.length >= 4
      BY <3>5, <3>6, <3>7, <3>8 DEF text
    <3> QED
      BY <2>2, <3>9 DEF Deliver, r, t, c
  <2>5. IsMsg(reply)
    <3>1. ReplyTopic \in Seq(Bytes8)
      BY DEF ReplyTopic, Bytes8
    <3>2. SearchReply \in Seq(Bytes8)
      BY TopicsAssumption DEF Bytes8
    <3>3. 0 \in 0..2 /\ 0 \in Words
      BY DEF Words
    <3>4. reply \in Seq(Bytes8) /\ Len(reply) <= MQTT_BUF_SIZE
      BY <3>1, <3>2, <3>3, PublishBytes
    <3> QED
      BY <3>4 DEF IsMsg
  <2> HIDE DEF reply
  <2>6. said.buf = b /\ said.kg1 = g_kg1 /\ said.msg = reply /\ said.did = <<>>
    OBVIOUS
  <2> HIDE DEF said
  <2>7. Sound(said, b) /\ said.did = <<>>
    BY <2>5, <2>6 DEF Sound
  <2>8. Says(said, p)
    <3>1. Heard(reply) = TellOf(p, g_kg1) /\ g_kg1 = After(p, g_kg1)
      BY <1>6, HeardReply DEF TellOf, After, reply
    <3> QED
      BY <2>6, <3>1 DEF Says
  <2> QED
    BY <1>1, <1>3, <2>3, <2>4, <2>7, <2>8 DEF r
<1>7. CASE p.kind # "search"
  <2>1. topic = g_tmpMQTTSubscr
    BY <1>7 DEF TopicOf
  <2>2. Bytes(b, t.at, 5) # SearchTopic
    <3>1. PICK i \in DOMAIN g_tmpMQTTSubscr : i <= 5 /\ g_tmpMQTTSubscr[i] # SearchTopic[i]
      BY TopicsAssumption
    <3>2. i \in 1..T /\ i \in 1..5
      <4>1. DOMAIN topic = 1..T
        <5> HIDE DEF topic
        <5> QED
          BY <1>1
      <4>2. i \in 1..T
        BY <2>1, <3>1, <4>1
      <4> HIDE DEF T
      <4> QED
        BY <3>1, <4>2
    <3>3. Bytes(b, t.at, 5)[i] = Byte(b, at + i - 1)
      BY <1>4, <3>2 DEF Bytes
    <3>4. Byte(b, at + i - 1) = topic[i]
      BY <1>3, <3>2
    <3> HIDE DEF topic
    <3> QED
      BY <2>1, <3>1, <3>3, <3>4
  <2>3. Bytes(b, t.at, t.length) = Bytes(g_tmpMQTTSubscr, 0, t.length)
    <3>1. Bytes(b, t.at, t.length) = [i \in 1..T |-> Byte(b, at + i - 1)]
      BY <1>4 DEF Bytes
    <3>2. Bytes(g_tmpMQTTSubscr, 0, t.length) = [i \in 1..T |-> Byte(topic, 0 + i - 1)]
      BY <1>4, <2>1 DEF Bytes
    <3> HIDE DEF topic
    <3>3. \A i \in 1..T : Byte(topic, 0 + i - 1) = topic[i]
      <4> TAKE i \in 1..T
      <4>1. (0 + i - 1) + 1 = i /\ i \in DOMAIN topic
        BY <1>1
      <4> QED
        BY <4>1 DEF Byte
    <3> QED
      BY <1>3, <3>1, <3>2, <3>3
  <2>4. r = IF c.length > 0 THEN TransToMcu(b, c.at) ELSE Nothing(b)
    BY <2>2, <2>3 DEF Deliver, r, t, c
  <2>5. CASE p.kind = "command"
    <3>1. data = CommandText(p)
      BY <2>5 DEF DataOf
    <3>2. data # <<>>
      BY <2>5, <3>1, TextSpells
    <3> HIDE DEF data
    <3>3. Len(data) > 0
      BY <1>1, <3>2
    <3>4. c.at = d /\ c.length = Len(data) /\ d \in 0..Len(b) /\ Starts(From(b, d), data)
      BY <1>3, <3>2 DEF Piece
    <3>5. r = TransToMcu(b, d)
      BY <2>4, <3>3, <3>4
    <3>6. /\ Sound(TransToMcu(b, d), b) /\ Says(TransToMcu(b, d), p)
          /\ TransToMcu(b, d).did = <<[flag |-> p.flag, parm |-> p.parm]>>
      BY <2>5, <3>1, <3>4, CommandTransferred
    <3>7. Order(p) = <<[flag |-> p.flag, parm |-> p.parm]>>
      BY <2>5 DEF Order
    <3> QED
      BY <1>1, <1>3, <3>5, <3>6, <3>7 DEF r
  <2>6. CASE p.kind = "text"
    <3>1. data = p.text /\ qos = 0 /\ Order(p) = <<>>
      BY <2>6 DEF DataOf, QosOf, Order
    <3>2. p.text \in Seq(1..255) /\ Harmless(p.text)
      BY <1>2, <2>6, PacketFields DEF Fair
    <3> HIDE DEF data, qos
    <3>3. \A x : Says(Nothing(x), p)
      BY <2>6, NothingSaid
    <3>4. CASE data = <<>>
      <4>1. r = Nothing(b)
        BY <1>3, <2>4, <3>1, <3>4
      <4> QED
        BY <1>1, <1>3, <1>5, <3>1, <3>3, <4>1 DEF r
    <3>5. CASE data # <<>>
      <4>1. Len(data) > 0
        BY <1>1, <3>5
      <4>2. c.at = d /\ c.length = Len(data) /\ d \in 0..Len(b) /\ Starts(From(b, d), data)
        BY <1>3, <3>5 DEF Piece
      <4>3. r = TransToMcu(b, d)
        BY <2>4, <4>1, <4>2
      <4> DEFINE src == From(b, d)
                 left == SubSeq(b, 1, d) \o Capitals(src)
      <4>4. src \in Seq(Bytes8)
        BY <4>2, FromParts
      <4>5. ~GetFrame(sbufDecode(src)).ok
        <5> HIDE DEF src
        <5> QED
          BY <3>1, <3>2, <3>5, <4>2, <4>4, HarmlessText DEF src
      <4>6. left \in Seq(Bytes8) /\ Len(left) = Len(b)
        BY <4>2, CapitalsLeft
      <4>7. r = Nothing(left)
        BY <4>3, <4>5 DEF TransToMcu
      <4> HIDE DEF left
      <4>8. Sound(Nothing(left), left) /\ Nothing(left).did = <<>>
        BY <4>6, NothingSound
      <4>9. Sound(Nothing(left), b)
        BY <4>6, <4>8 DEF Sound
      <4> QED
        BY <1>1, <1>3, <3>1, <3>3, <4>7, <4>8, <4>9 DEF r
    <3> QED
      BY <3>4, <3>5
  <2> QED
    BY <1>2, <1>7, <2>5, <2>6
<1> QED
  BY <1>6, <1>7

LEMMA NotDelivered ==
  ASSUME NEW p, Fair(p), ~IsPublish(p), NEW b \in Seq(Bytes8), Starts(b, Wire(p))
  PROVE  ~Delivers(GetType(b))
<1>1. PICK type \in 0..15, qos \in 0..3, body \in Seq(Bytes8) :
         ~Delivers(type) /\ Fits(body) /\ Wire(p) = Message(type, qos, body)
  BY OtherWire
<1>2. Len(Wire(p)) \in Nat /\ Len(Wire(p)) <= Len(Wire(p))
  <2> DEFINE w == Wire(p)
  <2>1. w \in Seq(Bytes8)
    BY WireBytes
  <2> HIDE DEF w
  <2>2. Len(w) \in Nat
    BY <2>1
  <2> QED
    BY <2>2 DEF w
<1> DEFINE len == Len(Wire(p))
<1>3. len \in Nat /\ Len(Message(type, qos, body)) <= len /\ Starts(b, Message(type, qos, body))
  BY <1>1, <1>2
<1> HIDE DEF len
<1>4. GetType(b) = type
  BY <1>1, <1>3, MessageRead
<1> QED
  BY <1>1, <1>4

-----------------------------------------------------------------------------
(* What should be answered to a segment.                                   *)

Readings ==
  [kind : {"ack"}, type : 0..15, id : Words] \cup [kind : {"reply"}, text : Seq(Bytes8)]
  \cup [kind : {"status"}, flag : {Kg(97), Tk(97)}, told : Seq(Bytes8)]

LEMMA AckedIs ==
  ASSUME NEW type \in 0..15, NEW id \in Words
  PROVE  Acked(type, id) \in Seq(Readings)
<1> DEFINE x == [kind |-> "ack", type |-> type, id |-> id]
<1>1. x \in Readings
  BY DEF Readings
<1> HIDE DEF x, Readings
<1>2. <<x>> \in Seq(Readings)
  BY <1>1
<1> QED
  BY <1>2 DEF Acked, x

LEMMA WantedIs ==
  ASSUME NEW p, p.kind = "command", p.parm \in Seq(Bytes8), IsComplete(p), NEW b \in Bytes8
  PROVE  Wanted(p, b) \in Bytes8
<1> DEFINE n == Len(p.parm)
           w == Wanted(p, b)
           v == p.parm[1]
           u == p.parm[2]
<1>1. n \in Nat /\ (p.flag \in {Kg(49), Tk(50)} => n >= 1) /\ (p.flag = Kg(50) => n >= 2)
  BY DEF IsComplete
<1>2. (n >= 1 => v \in Bytes8) /\ (n >= 2 => u \in Bytes8)
  <2>1. n >= 1 => 1 \in 1..n
    BY <1>1
  <2>2. n >= 2 => 2 \in 1..n
    BY <1>1
  <2> HIDE DEF Bytes8
  <2> QED
    BY <2>1, <2>2, ElementOfSeq
<1>3. w = IF p.flag = Kg(49) THEN v
          ELSE IF p.flag = Kg(50) /\ v = 0 THEN u
          ELSE IF p.flag = Tk(49) \/ (p.flag = Tk(50) /\ v = 0) THEN 1
          ELSE b
  BY DEF Wanted
<1>4. 1 \in Bytes8
  BY DEF Bytes8
<1> HIDE DEF n, w, v, u
<1> QED
  BY <1>1, <1>2, <1>3, <1>4 DEF w

LEMMA AnswerParts ==
  ASSUME NEW p, Fair(p), IsComplete(p), NEW b \in Bytes8
  PROVE  /\ After(p, b) \in Bytes8
         /\ AckOf(p) \in Seq(Readings) /\ TellOf(p, b) \in Seq(Readings)
         /\ Answer(p, b) = AckOf(p) \o TellOf(p, b)
<1> DEFINE a == AckOf(p)
           t == TellOf(p, b)
           N == Seq(Readings)
<1>1. p \in Packets /\ <<>> \in N
  BY DEF Fair
<1>2. \A x \in N : x \o <<>> = x /\ <<>> \o x = x
  <2> HIDE DEF Readings
  <2> QED
    BY ConcatEmptySeq
<1>3. \A type \in 0..15, id \in Words : Acked(type, id) \in N
  BY AckedIs
<1>4. /\ PUBACK \in 0..15 /\ PUBREC \in 0..15 /\ PUBREL \in 0..15 /\ PUBCOMP \in 0..15
      /\ PINGRESP \in 0..15 /\ 0 \in Words
  BY DEF PUBACK, PUBREC, PUBREL, PUBCOMP, PINGRESP, Words
<1> HIDE DEF N
<1>5. CASE p.kind = "command"
  <2>1. IsFrame(p.flag, p.parm) /\ p.qos \in 0..2 /\ p.id \in Words
    BY <1>1, <1>5, PacketFields DEF Fair
  <2> DEFINE w == Wanted(p, b)
             lead == IF p.flag[1] = 107 THEN Kg(97) ELSE Tk(97)
             x == [kind |-> "status", flag |-> lead, told |-> <<w>>]
  <2>2. w \in Bytes8
    BY <1>5, <2>1, WantedIs DEF IsFrame
  <2>3. x \in Readings
    <3> HIDE DEF w, Bytes8
    <3>1. <<w>> \in Seq(Bytes8) /\ lead \in {Kg(97), Tk(97)}
      BY <2>2
    <3> QED
      BY <3>1 DEF Readings
  <2>4. Told(p, b) = IF ~IsAnswered(p) THEN <<>> ELSE <<x>>
    BY DEF Told
  <2>5. Told(p, b) \in N
    <3> HIDE DEF x, Readings
    <3>1. <<x>> \in N
      BY <2>3 DEF N
    <3> QED
      BY <1>1, <2>4, <3>1
  <2>6. a = IF p.qos = 0 THEN <<>> ELSE Acked(IF p.qos = 1 THEN PUBACK ELSE PUBREC, p.id)
    BY <1>5 DEF AckOf
  <2>7. a \in N
    BY <1>1, <1>3, <1>4, <2>1, <2>6
  <2>8. t = Told(p, b) /\ After(p, b) = w
    BY <1>5 DEF TellOf, After
  <2>9. Answer(p, b) = a \o t
    BY <1>5, <2>6, <2>8 DEF Answer
  <2> QED
    BY <2>2, <2>5, <2>7, <2>8, <2>9 DEF N
<1>6. CASE p.kind = "search"
  <2> DEFINE x == [kind |-> "reply", text |-> SearchReply]
  <2>1. x \in Readings
    BY TopicsAssumption DEF Readings, Bytes8
  <2>2. a = <<>> /\ t = <<x>> /\ After(p, b) = b /\ Answer(p, b) = <<x>>
    BY <1>6 DEF AckOf, TellOf, After, Answer
  <2> HIDE DEF x, Readings, a, t
  <2>3. <<x>> \in N
    BY <2>1 DEF N
  <2>4. Answer(p, b) = a \o t
    BY <1>2, <2>2, <2>3
  <2> QED
    BY <1>1, <2>2, <2>3, <2>4 DEF N, a, t
<1>7. CASE p.kind \notin {"command", "search"}
  <2>1. t = <<>> /\ After(p, b) = b
    BY <1>7 DEF TellOf, After
  <2>2. a = IF p.kind = "ack" /\ p.type = PUBREC THEN Acked(PUBREL, p.id)
            ELSE IF p.kind = "ack" /\ p.type = PUBREL THEN Acked(PUBCOMP, p.id)
            ELSE IF p.kind = "ping" /\ p.type = PINGREQ THEN Acked(PINGRESP, 0)
            ELSE <<>>
    BY <1>7 DEF AckOf
  <2>3. p.kind = "ack" => p.id \in Words
    BY <1>1, PacketFields
  <2>4. a \in N
    BY <1>1, <1>3, <1>4, <2>2, <2>3
  <2>5. Answer(p, b) = a
    <3>1. Answer(p, b) = CASE p.kind = "ack" /\ p.type = PUBREC -> Acked(PUBREL, p.id)
                           [] p.kind = "ack" /\ p.type = PUBREL -> Acked(PUBCOMP, p.id)
                           [] p.kind = "ping" /\ p.type = PINGREQ -> Acked(PINGRESP, 0)
                           [] OTHER -> <<>>
      BY <1>7 DEF Answer
    <3>2. PUBREC # PUBREL
      BY DEF PUBREC, PUBREL
    <3> HIDE DEF a
    <3> QED
      BY <2>2, <3>1, <3>2
  <2>6. a \o <<>> = a
    BY <1>2, <2>4
  <2> HIDE DEF a, t
  <2>7. Answer(p, b) = a \o t
    BY <2>1, <2>5, <2>6
  <2> QED
    BY <1>1, <2>1, <2>4, <2>7 DEF N, a, t
<1> QED
  BY <1>5, <1>6, <1>7

(* Packets that the device can be sent, with all their parameters.         *)
Good(s) == Len(s) \in Nat /\ DOMAIN s = 1..Len(s) /\ \A i \in 1..Len(s) : Fair(s[i]) /\ IsComplete(s[i])

(* The state behind each packet is what the packet makes of the one before.*)
LEMMA StatesOf ==
  ASSUME NEW s, Good(s), NEW b \in Bytes8
  PROVE  /\ States(s, b)[0] = b
         /\ \A k \in 1..Len(s) : States(s, b)[k] = After(s[k], States(s, b)[k - 1])
         /\ \A k \in 0..Len(s) : States(s, b)[k] \in Bytes8
<1> DEFINE N == Len(s)
           step == [p \in Bytes8 \X (1..N) |-> After(s[p[2]], p[1])]
           G == CHOOSE f : f = [k \in 0..N |-> IF k = 0 THEN b
                                  ELSE IF s[k].kind = "command" THEN Wanted(s[k], f[k - 1])
                                  ELSE f[k - 1]]
           H(f) == [k \in 0..N |-> IF k = 0 THEN b
                                  ELSE IF s[k].kind = "command" THEN Wanted(s[k], f[k - 1])
                                  ELSE f[k - 1]]
<1>1. States(s, b) = G
  BY DEF States
<1>2. N \in Nat /\ \A i \in 1..N : Fair(s[i]) /\ IsComplete(s[i])
  BY DEF Good
<1> HIDE DEF N
<1>3. \A c \in Bytes8, i \in 1..N : After(s[i], c) \in Bytes8
  BY <1>2, AnswerParts
<1>4. step \in [Bytes8 \X (1..N) -> Bytes8]
  <2> HIDE DEF Bytes8
  <2> QED
    BY <1>3
<1>5. PICK f \in [0..N -> Bytes8] : Recursive(f, N, b, step)
  <2> HIDE DEF step, Bytes8
  <2> QED
    BY <1>2, <1>4, RecursionExists
<1> HIDE DEF Bytes8
<1>6. ASSUME NEW k \in 1..N
      PROVE  f[k] = IF s[k].kind = "command" THEN Wanted(s[k], f[k - 1]) ELSE f[k - 1]
  <2>1. k - 1 \in 0..N /\ f[k - 1] \in Bytes8
    BY <1>2
  <2>2. f[k] = step[<<f[k - 1], k>>]
    BY <1>5 DEF Recursive
  <2>3. f[k] = After(s[k], f[k - 1])
    BY <2>1, <2>2
  <2> QED
    BY <2>3 DEF After
<1> HIDE DEF step
<1>7. f = H(f)
  <2>1. f[0] = b
    BY <1>5 DEF Recursive
  <2>2. \A k \in 0..N : k = 0 \/ k \in 1..N
    BY <1>2
  <2> QED
    BY <1>6, <2>1, <2>2
<1>8. G = H(G)
  BY <1>7
<1> HIDE DEF G
<1>9. G[0] = b
  <2>1. 0 \in 0..N
    BY <1>2
  <2> QED
    BY <1>8, <2>1, Zenon
<1>10. ASSUME NEW k \in 1..N
       PROVE  G[k] = After(s[k], G[k - 1])
  <2>1. k \in 0..N /\ k # 0
    BY <1>2
  <2>2. G[k] = IF s[k].kind = "command" THEN Wanted(s[k], G[k - 1]) ELSE G[k - 1]
    BY <1>8, <2>1, Zenon
  <2> QED
    BY <2>2 DEF After
<1>11. \A k \in 0..N : G[k] \in Bytes8
  <2> DEFINE X == {k \in 0..N : G[k] \in Bytes8}
  <2>1. 0 \in X
    BY <1>2, <1>9
  <2>2. ASSUME NEW k \in 0..N-1, k \in X
        PROVE  k + 1 \in X
    <3>1. k + 1 \in 1..N /\ (k + 1) - 1 = k /\ k + 1 \in 0..N
      BY <1>2
    <3>2. G[k + 1] = After(s[k + 1], G[k])
      BY <1>10, <3>1
    <3>3. G[k + 1] \in Bytes8
      BY <1>3, <2>2, <3>1, <3>2
    <3> QED
      BY <3>1, <3>3
  <2> HIDE DEF X
  <2>3. \A k \in 0..N : k \in X
    BY <1>2, <2>1, <2>2, Induction
  <2> QED
    BY <2>3 DEF X
<1> QED
  BY <1>1, <1>9, <1>10, <1>11 DEF N

LEMMA AnswersOf ==
  ASSUME NEW s, Good(s), NEW b \in Bytes8
  PROVE  /\ Answers(s, b) \in Seq(Seq(Readings)) /\ Len(Answers(s, b)) = Len(s)
         /\ \A i \in 1..Len(s) : Answers(s, b)[i] = Answer(s[i], States(s, b)[i - 1])
<1> DEFINE N == Len(s)
           S == Seq(Readings)
           A == Answers(s, b)
           T == States(s, b)
<1>1. N \in Nat /\ DOMAIN s = 1..N /\ \A i \in 1..N : Fair(s[i]) /\ IsComplete(s[i])
  BY DEF Good
<1>2. \A k \in 0..N : T[k] \in Bytes8
  BY StatesOf
<1>3. A = [i \in 1..N |-> Answer(s[i], T[i - 1])]
  BY <1>1 DEF Answers
<1> HIDE DEF A, N, T, Bytes8
<1>4. ASSUME NEW i \in 1..N
      PROVE  Answer(s[i], T[i - 1]) \in S
  <2>1. i - 1 \in 0..N /\ T[i - 1] \in Bytes8
    BY <1>1, <1>2
  <2> DEFINE a == AckOf(s[i])
             t == TellOf(s[i], T[i - 1])
  <2>2. a \in S /\ t \in S /\ Answer(s[i], T[i - 1]) = a \o t
    BY <1>1, <2>1, AnswerParts
  <2> HIDE DEF a, t, Readings
  <2>3. a \o t \in S
    BY <2>2
  <2> QED
    BY <2>2, <2>3
<1> HIDE DEF S
<1>5. A \in [1..N -> S]
  BY <1>3, <1>4
<1>6. A \in Seq(S) /\ Len(A) = N
  BY <1>1, <1>5
<1> QED
  BY <1>3, <1>6 DEF A, N, S, T

(* Of the first packets, it is the first answers.                          *)
LEMMA AnswersOfPrefix ==
  ASSUME NEW s, Good(s), s \in Seq(Packets), NEW b \in Bytes8, NEW j \in 0..Len(s)
  PROVE  /\ Len(SubSeq(s, 1, j)) = j
         /\ States(SubSeq(s, 1, j), b)[j] = States(s, b)[j]
         /\ FlattenSeq(Answers(SubSeq(s, 1, j), b)) = FlatTo(Answers(s, b), j)
<1> DEFINE N == Len(s)
           t == SubSeq(s, 1, j)
           A == Answers(s, b)
           T == States(s, b)
           U == States(t, b)
<1>1. N \in Nat /\ j \in 0..N /\ \A i \in 1..N : Fair(s[i]) /\ IsComplete(s[i])
  BY DEF Good
<1>2. Len(t) = j /\ DOMAIN t = 1..j /\ \A i \in 1..j : t[i] = s[i]
  <2>1. t = [i \in 1..j |-> s[i]]
    BY <1>1 DEF N
  <2> HIDE DEF t
  <2> QED
    BY <1>1, <2>1
<1> HIDE DEF t
<1>3. Good(t)
  <2>1. \A i \in 1..j : i \in 1..N
    BY <1>1
  <2> QED
    BY <1>1, <1>2, <2>1 DEF Good
<1>4. /\ T[0] = b /\ \A k \in 1..N : T[k] = After(s[k], T[k - 1])
  BY StatesOf
<1>5. /\ U[0] = b /\ \A k \in 1..j : U[k] = After(t[k], U[k - 1])
  BY <1>2, <1>3, StatesOf
<1>6. A \in Seq(Seq(Readings)) /\ Len(A) = N /\ \A i \in 1..N : A[i] = Answer(s[i], T[i - 1])
  BY AnswersOf
<1>7. Answers(t, b) = [i \in 1..j |-> Answer(t[i], U[i - 1])]
  BY <1>2 DEF Answers
<1> HIDE DEF N, A, T, U
<1>8. \A k \in 0..j : U[k] = T[k]
  <2> DEFINE X == {k \in 0..j : U[k] = T[k]}
  <2>1. 0 \in X /\ j \in Nat
    BY <1>1, <1>4, <1>5
  <2>2. ASSUME NEW k \in 0..j-1, k \in X
        PROVE  k + 1 \in X
    <3>1. k + 1 \in 1..j /\ (k + 1) - 1 = k /\ k + 1 \in 0..j /\ k + 1 \in 1..N
      BY <1>1
    <3>2. U[k + 1] = After(s[k + 1], U[k]) /\ T[k + 1] = After(s[k + 1], T[k])
      BY <1>2, <1>4, <1>5, <3>1
    <3> QED
      BY <2>2, <3>1, <3>2
  <2> HIDE DEF X
  <2>3. \A k \in 0..j : k \in X
    BY <2>1, <2>2, Induction
  <2> QED
    BY <2>3 DEF X
<1>9. ASSUME NEW i \in 1..j
      PROVE  Answer(t[i], U[i - 1]) = A[i]
  <2>1. i \in 1..N /\ i - 1 \in 0..j
    BY <1>1
  <2>2. t[i] = s[i] /\ U[i - 1] = T[i - 1]
    BY <1>2, <1>8, <2>1
  <2> QED
    BY <1>6, <2>1, <2>2
<1>10. SubSeq(A, 1, j) = [i \in 1..j |-> A[i]]
  BY <1>1, <1>6
<1>11. Answers(t, b) = SubSeq(A, 1, j)
  BY <1>7, <1>9, <1>10
<1>12. j \in 0..j
  BY <1>1
<1> QED
  BY <1>2, <1>8, <1>11, <1>12 DEF FlatTo, A, T, U, t

(* What the broker hears of the messages queued.                           *)
Read(box) == [i \in DOMAIN box |-> Reading(box[i])]

LEMMA ReadMore ==
  ASSUME NEW box \in Seq(Seq(Bytes8)), NEW m \in Seq(Bytes8)
  PROVE  Read(More(box, m)) = Read(box) \o Heard(m)
<1> DEFINE B == Seq(Bytes8)
           R == {Reading(x) : x \in B}
           N == Len(box)
           r == Read(box)
           more == Append(box, m)
<1>1. N \in Nat /\ DOMAIN box = 1..N /\ \A i \in 1..N : box[i] \in B
  BY ElementOfSeq
<1>2. r = [i \in 1..N |-> Reading(box[i])]
  BY <1>1 DEF Read
<1>3. r \in Seq(R) /\ Len(r) = N
  <2> HIDE DEF N, r, B
  <2>1. \A i \in 1..N : Reading(box[i]) \in R
    BY <1>1
  <2> HIDE DEF R
  <2>2. r \in [1..N -> R]
    BY <1>2, <2>1
  <2> QED
    BY <1>1, <2>2
<1>4. CASE m = <<>>
  <2>1. More(box, m) = box /\ Heard(m) = <<>>
    BY <1>4 DEF More, Heard
  <2> HIDE DEF r, R
  <2>2. r \o <<>> = r
    BY <1>3, ConcatEmptySeq
  <2> QED
    BY <2>1, <2>2 DEF r
<1>5. CASE m # <<>>
  <2> DEFINE y == Reading(m)
             h == <<y>>
  <2>1. More(box, m) = more /\ Heard(m) = h
    BY <1>5 DEF More, Heard
  <2>2. y \in R
    OBVIOUS
  <2>3. /\ DOMAIN more = 1..N+1 /\ more[N + 1] = m /\ \A i \in 1..N : more[i] = box[i]
    <3> HIDE DEF B
    <3>1. box \in Seq(B) /\ m \in B
      BY DEF B
    <3> QED
      BY <3>1
  <2> HIDE DEF y, R, more, N, r
  <2>4. h \in Seq(R) /\ Len(h) = 1 /\ h[1] = y
    BY <2>2
  <2> HIDE DEF h
  <2> DEFINE z == r \o h
  <2>5. /\ z \in Seq(R) /\ Len(z) = N + 1
        /\ \A i \in 1..N : z[i] = r[i]
        /\ z[N + 1] = y
    <3>1. /\ z \in Seq(R) /\ Len(z) = Len(r) + Len(h)
          /\ \A i \in 1..Len(r) : z[i] = r[i]
          /\ \A i \in 1..Len(h) : z[Len(r) + i] = h[i]
      <4>1. r \in Seq(R) /\ h \in Seq(R)
        BY <1>3, <2>4
      <4> QED
        BY <4>1, ConcatParts
    <3> QED
      BY <1>3, <2>4, <3>1
  <2> HIDE DEF z
  <2>6. Read(more) = [i \in 1..N+1 |-> Reading(more[i])]
    BY <2>3 DEF Read
  <2>7. z = [i \in 1..N+1 |-> z[i]]
    BY <2>5
  <2>8. \A i \in 1..N+1 : Reading(more[i]) = z[i]
    <3> TAKE i \in 1..N+1
    <3>1. i = N + 1 \/ i \in 1..N
      BY <1>1
    <3> QED
      BY <1>2, <2>3, <2>5, <3>1 DEF y
  <2>9. Read(more) = z
    BY <2>6, <2>7, <2>8
  <2> QED
    BY <2>1, <2>9 DEF z, r
<1> QED
  BY <1>4, <1>5

(* What is read, when both messages for a packet have been queued.         *)
LEMMA AnswerMore ==
  ASSUME NEW box \in Seq(Seq(Bytes8)), NEW a \in Seq(Bytes8), NEW m \in Seq(Bytes8),
         NEW p, Fair(p), IsComplete(p), NEW b \in Bytes8,
         Heard(a) = AckOf(p), Heard(m) = TellOf(p, b), Read(box) \in Seq(Readings)
  PROVE  Read(More(More(box, a), m)) = Read(box) \o Answer(p, b)
<1> DEFINE x == AckOf(p)
           y == TellOf(p, b)
           r == Read(box)
           one == More(box, a)
<1>1. x \in Seq(Readings) /\ y \in Seq(Readings) /\ Answer(p, b) = x \o y
  BY AnswerParts
<1>2. one \in Seq(Seq(Bytes8))
  <2> DEFINE B == Seq(Bytes8)
  <2> HIDE DEF B
  <2>1. box \in Seq(B) /\ a \in B
    BY DEF B
  <2>2. Append(box, a) \in Seq(B)
    BY <2>1
  <2>3. one \in Seq(B)
    BY <2>1, <2>2 DEF More
  <2> QED
    BY <2>3 DEF B
<1>3. Read(one) = r \o x
  BY ReadMore
<1> HIDE DEF one
<1>4. Read(More(one, m)) = Read(one) \o Heard(m)
  BY <1>2, ReadMore
<1> HIDE DEF x, y, r, Readings
<1>5. (r \o x) \o y = r \o (x \o y)
  BY <1>1, ConcatAssociative DEF r
<1> QED
  BY <1>1, <1>3, <1>4, <1>5 DEF one, r, x, y

-----------------------------------------------------------------------------
(* The inductive invariant: where the device is in a segment.              *)
Wires(s)  == [i \in DOMAIN s |-> Wire(s[i])]
Orders(s) == [i \in DOMAIN s |-> Order(s[i])]

(* If its commands have their parameters, the first k packets of s, which  *)
(* came when the state was b, have been answered by the messages in box,   *)
(* and the state is now.                                                   *)
Complete(s) == \A i \in DOMAIN s : IsComplete(s[i])

AnsweredTo(s, b, box, now, k) ==
  Complete(s) => Read(box) = FlatTo(Answers(s, b), k) /\ now = States(s, b)[k]

(* All have been that the device takes notice of.                          *)
AnsweredAll(s, b, box, now) ==
  Complete(s) => /\ Read(box) = FlattenSeq(Answers(Taken(s), b))
                 /\ now = States(Taken(s), b)[Len(Taken(s))]

(* Past the first k packets: what is left is what lies behind them, they   *)
(* all were for the application, and their commands have been carried out; *)
(* past the first, the segment is known to have fitted; and the messages   *)
(* made answer them.                                                       *)
Handling(k) ==
  /\ FlattenSeq(Wires(segment)) = FlatTo(Wires(segment), k) \o pdata
  /\ \A i \in 1..k : IsPublish(segment[i])
  /\ done = FlatTo(Orders(segment), k)
  /\ k > 0 => Length(segment) < MQTT_BUF_SIZE
  /\ AnsweredTo(segment, before, made, g_kg1, k)

Handled ==
  /\ pdata = <<>> /\ done = Commanded(segment)
  /\ AnsweredAll(segment, before, made, g_kg1)

(* The types, but for what is known of the queue.                          *)
Types ==
  /\ in_buffer \in Seq(0..255) /\ Len(in_buffer) < MQTT_BUF_SIZE
  /\ pdata \in Seq(0..255)
  /\ g_kg1 \in 0..255 /\ before \in 0..255
  /\ segment \in Segments \cup {<<>>}
  /\ made \in Seq(Seq(0..255))
  /\ \A i \in DOMAIN made : Len(made[i]) <= MQTT_BUF_SIZE

IInv == Types /\ (Handled \/ \E k \in 0..Len(segment) : Handling(k))

Cmds == [flag : Seq(1..255), parm : Seq(Bytes8)]

LEMMA OrderOf ==
  ASSUME NEW p, Fair(p)
  PROVE  Order(p) \in Seq(Cmds) /\ (~IsPublish(p) => Order(p) = <<>>)
<1>1. CASE p.kind = "command"
  <2>1. p.flag \in Seq(1..255) /\ p.parm \in Seq(Bytes8)
    BY <1>1 DEF Fair, IsFrame
  <2> DEFINE c == [flag |-> p.flag, parm |-> p.parm]
  <2>2. c \in Cmds
    BY <2>1 DEF Cmds
  <2> HIDE DEF c
  <2>3. Order(p) = <<c>> /\ IsPublish(p)
    BY <1>1 DEF Order, IsPublish, c
  <2> HIDE DEF Cmds
  <2> QED
    BY <2>2, <2>3
<1>2. CASE p.kind # "command"
  BY <1>2 DEF Order
<1> QED
  BY <1>1, <1>2

Segment == Segments \cup {<<>>}

LEMMA PacketsOf ==
  ASSUME NEW s \in Segment
  PROVE  /\ s \in Seq(Packets) /\ Len(s) \in Nat /\ DOMAIN s = 1..Len(s)
         /\ \A i \in 1..Len(s) : Fair(s[i])
<1>1. CASE s \in Segments
  BY <1>1, FairPackets
<1>2. CASE s = <<>>
  BY <1>2
<1> QED
  BY <1>1, <1>2 DEF Segment

LEMMA WiresOf ==
  ASSUME NEW s \in Segment
  PROVE  /\ Wires(s) \in Seq(Seq(Bytes8)) /\ Len(Wires(s)) = Len(s)
         /\ \A i \in 1..Len(s) : Wires(s)[i] = Wire(s[i])
         /\ Orders(s) \in Seq(Seq(Cmds)) /\ Len(Orders(s)) = Len(s)
         /\ \A i \in 1..Len(s) : Orders(s)[i] = Order(s[i])
<1> DEFINE N == Len(s)
           B == Seq(Bytes8)
           C == Seq(Cmds)
<1>1. N \in Nat /\ DOMAIN s = 1..N /\ \A i \in 1..N : Fair(s[i])
  BY PacketsOf
<1>2. \A i \in 1..N : Wire(s[i]) \in B /\ Order(s[i]) \in C
  BY <1>1, WireBytes, OrderOf
<1> HIDE DEF N, B, C
<1>3. Wires(s) = [i \in 1..N |-> Wire(s[i])] /\ Orders(s) = [i \in 1..N |-> Order(s[i])]
  BY <1>1 DEF Wires, Orders
<1>4. Wires(s) \in [1..N -> B] /\ Orders(s) \in [1..N -> C]
  BY <1>2, <1>3
<1> DEFINE w == Wires(s)
           o == Orders(s)
<1>5. w \in [1..N -> B] /\ o \in [1..N -> C]
  BY <1>4
<1> HIDE DEF w, o
<1>6. w \in Seq(B) /\ Len(w) = N /\ o \in Seq(C) /\ Len(o) = N
  BY <1>1, <1>5
<1>7. \A i \in 1..N : Wires(s)[i] = Wire(s[i]) /\ Orders(s)[i] = Order(s[i])
  BY <1>3
<1> QED
  BY <1>6, <1>7 DEF w, o, N, B, C

LEMMA PrefixOrders ==
  ASSUME NEW s \in Segment, NEW j \in 0..Len(s)
  PROVE  FlattenSeq(Orders(SubSeq(s, 1, j))) = FlatTo(Orders(s), j)
<1> DEFINE N == Len(s)
           t == SubSeq(s, 1, j)
           o == Orders(s)
<1>1. N \in Nat /\ DOMAIN s = 1..N /\ s \in Seq(Packets) /\ j \in 0..N
  BY PacketsOf
<1>2. o \in Seq(Seq(Cmds)) /\ Len(o) = N
  BY WiresOf
<1>3. o = [i \in 1..N |-> Order(s[i])]
  BY <1>1 DEF Orders
<1> HIDE DEF N, o
<1>4. DOMAIN t = 1..j /\ \A i \in 1..j : t[i] = s[i]
  <2>1. t = [i \in 1..j |-> s[i]]
    BY <1>1 DEF N
  <2> HIDE DEF t
  <2> QED
    BY <2>1
<1> HIDE DEF t
<1>5. Orders(t) = [i \in 1..j |-> Order(s[i])]
  BY <1>4 DEF Orders
<1>6. SubSeq(o, 1, j) = [i \in 1..j |-> Order(s[i])]
  <2>1. SubSeq(o, 1, j) = [i \in 1..j |-> o[i]]
    BY <1>1, <1>2
  <2>2. \A i \in 1..j : o[i] = Order(s[i])
    BY <1>1, <1>3
  <2> QED
    BY <2>1, <2>2
<1> QED
  BY <1>5, <1>6 DEF FlatTo, o, t

(* The packets that count: all before the first that is not a PUBLISH, and *)
(* that one.                                                               *)
UpTo(s, j) ==
  /\ \A i \in 1..j-1 : IsPublish(s[i])
  /\ j = Len(s) \/ (j >= 1 /\ ~IsPublish(s[j]))

LEMMA CommandedUpTo ==
  ASSUME NEW s \in Segment
  PROVE  /\ Length(s) >= MQTT_BUF_SIZE => Taken(s) = <<>> /\ Commanded(s) = <<>>
         /\ Length(s) < MQTT_BUF_SIZE =>
              \E j \in 0..Len(s) : /\ UpTo(s, j) /\ Taken(s) = SubSeq(s, 1, j)
                                   /\ Commanded(s) = FlatTo(Orders(s), j)
<1> DEFINE others == {i \in DOMAIN s : ~IsPublish(s[i])}
           N == Len(s)
<1>1. s \in Seq(Packets) /\ N \in Nat /\ DOMAIN s = 1..N
  BY PacketsOf
<1>2. Commanded(s) = FlattenSeq(Orders(Taken(s)))
  BY DEF Commanded, Orders, Order
<1>3. Taken(s) = IF Length(s) >= MQTT_BUF_SIZE THEN <<>>
                 ELSE IF others = {} THEN s ELSE SubSeq(s, 1, Min(others))
  BY DEF Taken
<1>4. ASSUME Length(s) >= MQTT_BUF_SIZE
      PROVE  Taken(s) = <<>> /\ Commanded(s) = <<>>
  <2>1. Taken(s) = <<>>
    BY <1>3, <1>4
  <2>2. Orders(<<>>) = <<>>
    BY DEF Orders
  <2>3. FlattenSeq(<<>>) = <<>>
    BY DEF FlattenSeq
  <2> QED
    BY <1>2, <2>1, <2>2, <2>3
<1>5. ASSUME Length(s) < MQTT_BUF_SIZE
      PROVE  \E j \in 0..N : /\ UpTo(s, j) /\ Taken(s) = SubSeq(s, 1, j)
                             /\ Commanded(s) = FlatTo(Orders(s), j)
  <2>1. ~(Length(s) >= MQTT_BUF_SIZE)
    <3> DEFINE l == Length(s)
    <3>1. l \in Nat
      <4>1. FlatTo(Wires(s), Len(Wires(s))) \in Seq(Bytes8)
            /\ FlatTo(Wires(s), Len(Wires(s))) = FlattenSeq(Wires(s))
        <5>1. Wires(s) \in Seq(Seq(Bytes8)) /\ Len(Wires(s)) = N
          BY WiresOf
        <5> DEFINE w == Wires(s)
        <5>2. w \in Seq(Seq(Bytes8)) /\ Len(w) \in 0..Len(w)
          BY <1>1, <5>1
        <5> HIDE DEF w
        <5>3. FlatTo(w, Len(w)) = FlattenSeq(w) /\ \A k \in 0..Len(w) : FlatTo(w, k) \in Seq(Bytes8)
          BY <5>2, FlatPrefixes
        <5>4. FlatTo(w, Len(w)) \in Seq(Bytes8)
          BY <5>2, <5>3
        <5> QED
          BY <5>3, <5>4 DEF w
      <4>2. FlattenSeq(Wires(s)) \in Seq(Bytes8)
        BY <4>1
      <4>3. l = Len(FlattenSeq(Wires(s)))
        BY DEF Length, Wires
      <4> HIDE DEF l
      <4> QED
        BY <4>2, <4>3
    <3>2. l < MQTT_BUF_SIZE
      BY <1>5
    <3> HIDE DEF l
    <3>3. ~(l >= MQTT_BUF_SIZE)
      BY <3>1, <3>2, BufSizeAssumption
    <3> QED
      BY <3>3 DEF l
  <2>2. CASE others = {}
    <3>1. Taken(s) = s /\ s = SubSeq(s, 1, N) /\ N \in 0..N
      BY <1>1, <1>3, <2>1, <2>2
    <3>2. Commanded(s) = FlatTo(Orders(s), N)
      BY <1>2, <3>1, PrefixOrders
    <3>3. UpTo(s, N)
      BY <1>1, <2>2 DEF UpTo
    <3> QED
      BY <3>1, <3>2, <3>3
  <2>3. CASE others # {}
    <3> DEFINE j == Min(others)
    <3>1. j \in others /\ \A y \in others : j <= y
      <4>1. others \in SUBSET Nat
        BY <1>1
      <4> HIDE DEF others
      <4> QED
        BY <2>3, <4>1, MinIsLeast
    <3>2. Taken(s) = SubSeq(s, 1, j)
      BY <1>3, <2>1, <2>3
    <3> HIDE DEF j
    <3>3. j \in 1..N /\ ~IsPublish(s[j])
      BY <1>1, <3>1
    <3>4. \A i \in 1..j-1 : IsPublish(s[i])
      <4> TAKE i \in 1..j-1
      <4>1. i \in DOMAIN s /\ ~(j <= i)
        BY <1>1, <3>3
      <4> QED
        BY <3>1, <4>1
    <3>5. j \in 0..N /\ j >= 1
      BY <1>1, <3>3
    <3>6. Commanded(s) = FlatTo(Orders(s), j)
      BY <1>2, <3>2, <3>5, PrefixOrders
    <3>7. UpTo(s, j)
      BY <3>3, <3>4, <3>5 DEF UpTo
    <3> QED
      BY <3>2, <3>5, <3>6, <3>7
  <2> QED
    BY <2>2, <2>3
<1> QED
  BY <1>4, <1>5

LEMMA PrefixOfConcat ==
  ASSUME NEW S, NEW u \in Seq(S), NEW t \in Seq(S)
  PROVE  IsPrefix(u, u \o t)
<1> DEFINE w == u \o t
           k == Len(u)
<1>1. /\ w \in Seq(S) /\ Len(t) \in Nat /\ Len(w) = k + Len(t)
      /\ k \in Nat /\ \A i \in 1..k : w[i] = u[i]
  BY ConcatParts
<1>2. SubSeq(u, 1, k) = u
  OBVIOUS
<1> HIDE DEF w
<1>3. k <= Len(w)
  BY <1>1
<1>4. Starts(w, u)
  BY <1>1, <1>3 DEF Starts
<1>5. SubSeq(w, 1, k) = u
  BY <1>1, <1>4, StartsSubSeq
<1> QED
  BY <1>2, <1>3, <1>5 DEF IsPrefix, w

LEMMA GoodSegment ==
  ASSUME NEW s \in Segment, Complete(s)
  PROVE  Good(s) /\ s \in Seq(Packets)
BY PacketsOf DEF Good, Complete

LEMMA NoneAnswered ==
  ASSUME NEW s \in Segment, NEW b \in Bytes8
  PROVE  AnsweredTo(s, b, <<>>, b, 0)
<1> SUFFICES ASSUME Complete(s)
             PROVE  Read(<<>>) = FlatTo(Answers(s, b), 0) /\ b = States(s, b)[0]
  BY DEF AnsweredTo
<1>1. Good(s)
  BY GoodSegment
<1> DEFINE A == Answers(s, b)
<1>2. A \in Seq(Seq(Readings)) /\ States(s, b)[0] = b
  BY <1>1, AnswersOf, StatesOf
<1> HIDE DEF A, Readings
<1>3. FlatTo(A, 0) = <<>>
  BY <1>2, FlatPrefixes
<1>4. Read(<<>>) = <<>>
  BY DEF Read
<1> QED
  BY <1>2, <1>3, <1>4 DEF A

(* One packet more.                                                        *)
LEMMA NextAnswered ==
  ASSUME NEW s \in Segment, NEW b \in Bytes8, NEW k \in 0..Len(s)-1,
         NEW box \in Seq(Seq(Bytes8)), NEW a \in Seq(Bytes8), NEW m \in Seq(Bytes8),
         NEW now, NEW new, AnsweredTo(s, b, box, now, k), Heard(a) = AckOf(s[k + 1]),
         IsComplete(s[k + 1]) => new = After(s[k + 1], now) /\ Heard(m) = TellOf(s[k + 1], now)
  PROVE  AnsweredTo(s, b, More(More(box, a), m), new, k + 1)
<1> SUFFICES ASSUME Complete(s)
             PROVE  /\ Read(More(More(box, a), m)) = FlatTo(Answers(s, b), k + 1)
                    /\ new = States(s, b)[k + 1]
  BY DEF AnsweredTo
<1> DEFINE A == Answers(s, b)
           T == States(s, b)
           N == Len(s)
           p == s[k + 1]
           u == FlatTo(A, k)
<1>1. Good(s) /\ N \in Nat /\ DOMAIN s = 1..N
  BY GoodSegment DEF Good
<1>2. k + 1 \in 1..N /\ k \in 0..N /\ (k + 1) - 1 = k
  BY <1>1
<1>3. Fair(p) /\ IsComplete(p)
  BY <1>1, <1>2 DEF Good
<1>4. T[k] \in Bytes8 /\ T[k + 1] = After(p, T[k])
  BY <1>1, <1>2, StatesOf
<1>5. A \in Seq(Seq(Readings)) /\ Len(A) = N /\ A[k + 1] = Answer(p, T[k])
  BY <1>1, <1>2, AnswersOf
<1>6. Read(box) = u /\ now = T[k]
  BY DEF AnsweredTo
<1>7. new = After(p, now) /\ Heard(m) = TellOf(p, now) /\ Heard(a) = AckOf(p)
  BY <1>3
<1> HIDE DEF A, T, N, p, Bytes8, Readings
<1>8. /\ \A i \in 0..Len(A) : FlatTo(A, i) \in Seq(Readings)
      /\ \A i \in 0..Len(A)-1 : FlatTo(A, i + 1) = FlatTo(A, i) \o A[i + 1]
  BY <1>5, FlatPrefixes
<1>9. u \in Seq(Readings) /\ FlatTo(A, k + 1) = u \o A[k + 1]
  BY <1>2, <1>5, <1>8 DEF N
<1> HIDE DEF u
<1>10. Read(More(More(box, a), m)) = Read(box) \o Answer(p, now)
  <2>1. Read(box) \in Seq(Readings) /\ now \in Bytes8
    BY <1>4, <1>6, <1>9
  <2> QED
    BY <1>3, <1>7, <2>1, AnswerMore
<1> QED
  BY <1>4, <1>5, <1>6, <1>7, <1>9, <1>10 DEF A, T

LEMMA LastAnswered ==
  ASSUME NEW s \in Segment, NEW b \in Bytes8, NEW j \in 0..Len(s), Taken(s) = SubSeq(s, 1, j),
         NEW box, NEW now, AnsweredTo(s, b, box, now, j)
  PROVE  AnsweredAll(s, b, box, now)
<1> SUFFICES ASSUME Complete(s)
             PROVE  /\ Read(box) = FlattenSeq(Answers(Taken(s), b))
                    /\ now = States(Taken(s), b)[Len(Taken(s))]
  BY DEF AnsweredAll
<1>1. /\ Len(SubSeq(s, 1, j)) = j
      /\ States(SubSeq(s, 1, j), b)[j] = States(s, b)[j]
      /\ FlattenSeq(Answers(SubSeq(s, 1, j), b)) = FlatTo(Answers(s, b), j)
  BY GoodSegment, AnswersOfPrefix
<1>2. Read(box) = FlatTo(Answers(s, b), j) /\ now = States(s, b)[j]
  BY DEF AnsweredTo
<1> QED
  BY <1>1, <1>2

(* What acknowledges a packet, of whatever bytes.                          *)
LEMMA AckIs ==
  ASSUME NEW b \in Seq(Bytes8)
  PROVE  \E id \in Words : Ack(b) \in {AckMsg(PUBACK, id), AckMsg(PUBREC, id), AckMsg(PUBREL, id),
                                      AckMsg(PUBCOMP, id), PingMsg(PINGRESP), <<>>}
<1> DEFINE id == GetId(b, MQTT_BUF_SIZE)
<1>1. \A i : Byte(b, i) \in Bytes8
  <2> TAKE i
  <2>1. CASE i + 1 \in DOMAIN b
    <3>1. b[i + 1] \in Bytes8
      <4> HIDE DEF Bytes8
      <4> QED
        BY <2>1
    <3> QED
      BY <2>1, <3>1 DEF Byte
  <2>2. CASE i + 1 \notin DOMAIN b
    BY <2>2 DEF Byte, Bytes8
  <2> QED
    BY <2>1, <2>2
<1>2. \A x, y \in Bytes8 : 256 * x + y \in Words
  BY DEF Bytes8, Words
<1>3. \A i : Word(b, i) \in Words
  BY <1>1, <1>2 DEF Word
<1>4. id \in Words
  <2>1. 0 \in Words
    BY DEF Words
  <2>2. (\E i : id = Word(b, i)) \/ id = 0
    BY DEF GetId
  <2> HIDE DEF id
  <2> QED
    BY <1>3, <2>1, <2>2
<1> HIDE DEF id
<1>5. Ack(b) \in {AckMsg(PUBACK, id), AckMsg(PUBREC, id), AckMsg(PUBREL, id),
                  AckMsg(PUBCOMP, id), PingMsg(PINGRESP), <<>>}
  BY DEF Ack, id
<1> QED
  BY <1>4, <1>5

LEMMA AckIsMsg ==
  ASSUME NEW b \in Seq(Bytes8)
  PROVE  IsMsg(Ack(b))
<1>1. PICK id \in Words : Ack(b) \in {AckMsg(PUBACK, id), AckMsg(PUBREC, id), AckMsg(PUBREL, id),
                                     AckMsg(PUBCOMP, id), PingMsg(PINGRESP), <<>>}
  BY AckIs
<1>2. IdBytes(id) \in Seq(Bytes8) /\ <<>> \in Seq(Bytes8)
  BY <1>1, IdsAreBytes
<1>3. \A type \in 0..15, qos \in 0..3, body \in Seq(Bytes8) : IsMsg(Message(type, qos, body))
  BY MessageBytes DEF IsMsg
<1>4. /\ PUBACK \in 0..15 /\ PUBREC \in 0..15 /\ PUBREL \in 0..15 /\ PUBCOMP \in 0..15
      /\ PINGRESP \in 0..15 /\ 0 \in 0..3 /\ 1 \in 0..3
  BY DEF PUBACK, PUBREC, PUBREL, PUBCOMP, PINGRESP
<1>5. /\ IsMsg(AckMsg(PUBACK, id)) /\ IsMsg(AckMsg(PUBREC, id)) /\ IsMsg(AckMsg(PUBREL, id))
      /\ IsMsg(AckMsg(PUBCOMP, id))
  <2>1. \A type \in 0..15 : IsMsg(AckMsg(type, id))
    <3> TAKE type \in 0..15
    <3>1. (IF type = PUBREL THEN 1 ELSE 0) \in 0..3
      OBVIOUS
    <3>2. IsMsg(Message(type, IF type = PUBREL THEN 1 ELSE 0, IdBytes(id)))
      BY <1>2, <1>3, <3>1
    <3> QED
      BY <3>2 DEF AckMsg
  <2> QED
    BY <1>4, <2>1
<1>6. IsMsg(PingMsg(PINGRESP))
  <2>1. IsMsg(Message(PINGRESP, 0, <<>>))
    BY <1>2, <1>3, <1>4
  <2> QED
    BY <2>1 DEF PingMsg
<1> QED
  BY <1>1, <1>5, <1>6, NoMsg

(* A box of messages.                                                      *)
IsBox(box) == box \in Seq(Seq(Bytes8)) /\ \A i \in DOMAIN box : Len(box[i]) <= MQTT_BUF_SIZE

LEMMA MoreBox ==
  ASSUME NEW box, IsBox(box), NEW m, IsMsg(m)
  PROVE  IsBox(More(box, m))
<1>1. CASE m = <<>>
  BY <1>1 DEF More
<1>2. CASE m # <<>>
  <2> DEFINE B == Seq(Bytes8)
             more == Append(box, m)
  <2>1. box \in Seq(B) /\ m \in B /\ \A i \in DOMAIN box : Len(box[i]) <= MQTT_BUF_SIZE
    BY DEF IsBox, IsMsg
  <2> HIDE DEF B
  <2>2. /\ more \in Seq(B) /\ DOMAIN more = 1..Len(box)+1 /\ DOMAIN box = 1..Len(box)
        /\ more[Len(box) + 1] = m /\ Len(box) \in Nat
        /\ \A i \in 1..Len(box) : more[i] = box[i]
    BY <2>1
  <2> HIDE DEF more
  <2>3. \A i \in 1..Len(box)+1 : i = Len(box) + 1 \/ i \in 1..Len(box)
    BY <2>2
  <2>4. Len(m) <= MQTT_BUF_SIZE
    BY DEF IsMsg
  <2>5. \A i \in DOMAIN more : Len(more[i]) <= MQTT_BUF_SIZE
    BY <2>1, <2>2, <2>3, <2>4
  <2>6. More(box, m) = more
    BY <1>2 DEF More, more
  <2> QED
    BY <2>2, <2>5, <2>6 DEF IsBox, B
<1> QED
  BY <1>1, <1>2

LEMMA TypeIs ==
  Types <=> /\ in_buffer \in Seq(Bytes8) /\ Len(in_buffer) < MQTT_BUF_SIZE
             /\ pdata \in Seq(Bytes8) /\ g_kg1 \in Bytes8 /\ before \in Bytes8
             /\ segment \in Segment /\ IsBox(made)
BY DEF Types, Bytes8, Segment, IsBox

(* A segment over what earlier ones have left.                             *)
LEMMA OverBytes ==
  ASSUME NEW new \in Seq(Bytes8), NEW old \in Seq(Bytes8)
  PROVE  /\ Over(new, old) \in Seq(Bytes8)
         /\ \A w \in Seq(Bytes8), t \in Seq(Bytes8) : new = w \o t => Starts(Over(new, old), w)
         /\ \A n \in Nat : Len(new) < n /\ Len(old) < n => Len(Over(new, old)) < n
<1> DEFINE k == Len(new)
           l == Len(old)
           rest == SubSeq(old, k + 1, l)
           b == new \o rest
<1>1. k \in Nat /\ l \in Nat
  OBVIOUS
<1>2. rest \in Seq(Bytes8) /\ Len(rest) = IF k + 1 <= l THEN l - (k + 1) + 1 ELSE 0
  <2>1. \A i \in k+1..l : old[i] \in Bytes8
    <3> TAKE i \in k+1..l
    <3>1. i \in 1..Len(old)
      BY <1>1
    <3> HIDE DEF Bytes8
    <3> QED
      BY <3>1, ElementOfSeq
  <2> HIDE DEF Bytes8
  <2>2. k + 1 \in Int /\ l \in Int
    BY <1>1
  <2> DEFINE e == k + 1
  <2> HIDE DEF e, l
  <2>3. e \in Int /\ l \in Int /\ \A i \in e..l : old[i] \in Bytes8
    BY <2>1, <2>2 DEF e
  <2>4. SubSeq(old, e, l) \in Seq(Bytes8) /\ Len(SubSeq(old, e, l)) = IF e <= l THEN l - e + 1 ELSE 0
    BY <2>3, SubSeqProperties
  <2> QED
    BY <2>4 DEF e
<1> HIDE DEF rest, Bytes8
<1>3. /\ b \in Seq(Bytes8) /\ Len(b) = k + Len(rest)
      /\ \A i \in 1..k : b[i] = new[i]
  <2>1. new \in Seq(Bytes8) /\ rest \in Seq(Bytes8)
    BY <1>2
  <2> QED
    BY <2>1, ConcatParts
<1>4. Over(new, old) = b
  BY DEF Over, rest
<1> HIDE DEF b, k, l
<1>5. k + Len(rest) = k \/ k + Len(rest) = l
  BY <1>1, <1>2
<1>6. k <= Len(b)
  <2> DEFINE r == Len(rest)
  <2>1. r \in Nat
    BY <1>2
  <2> HIDE DEF r
  <2>2. k <= k + r
    BY <1>1, <2>1
  <2> QED
    BY <1>3, <2>2 DEF r
<1>7. ASSUME NEW w \in Seq(Bytes8), NEW t \in Seq(Bytes8), new = w \o t
      PROVE  Starts(b, w)
  <2>1. Starts(b, new)
    BY <1>3, <1>6 DEF Starts, k
  <2>2. Starts(b, w \o t)
    BY <1>7, <2>1
  <2> QED
    BY <1>3, <2>2, StartsConcat
<1>8. ASSUME NEW n \in Nat, k < n, l < n
      PROVE  Len(b) < n
  BY <1>3, <1>5, <1>8
<1> QED
  BY <1>3, <1>4, <1>7, <1>8 DEF k, l

-----------------------------------------------------------------------------
(* The invariant holds.                                                    *)

LEMMA InitInv == Init => IInv
<1> SUFFICES ASSUME Init PROVE IInv
  OBVIOUS
<1>1. Types
  <2>1. /\ in_buffer = <<>> /\ pdata = <<>> /\ made = <<>> /\ segment = <<>>
        /\ g_kg1 \in Bytes8 /\ before \in Bytes8
    BY DEF Init, Bytes8
  <2>2. /\ <<>> \in Seq(Bytes8) /\ Len(<<>>) = 0 /\ <<>> \in Seq(Seq(Bytes8)) /\ DOMAIN <<>> = {}
        /\ <<>> \in Segment
    BY DEF Segment
  <2>3. 0 < MQTT_BUF_SIZE
    BY BufSizeAssumption
  <2>4. IsBox(made)
    BY <2>1, <2>2 DEF IsBox
  <2> QED
    BY <2>1, <2>2, <2>3, <2>4, TypeIs
<1>2. 0 \in 0..Len(segment) /\ Handling(0)
  <2>1. segment = <<>> /\ segment \in Segment /\ pdata = <<>> /\ done = <<>> /\ Len(segment) = 0
    BY DEF Init, Segment
  <2>2. /\ Wires(segment) \in Seq(Seq(Bytes8)) /\ Len(Wires(segment)) = 0
        /\ Orders(segment) \in Seq(Seq(Cmds))
    BY <2>1, WiresOf
  <2> DEFINE w == Wires(segment)
             o == Orders(segment)
  <2>3. w \in Seq(Seq(Bytes8)) /\ Len(w) = 0 /\ o \in Seq(Seq(Cmds))
    BY <2>2
  <2> HIDE DEF w, o
  <2>4. FlatTo(w, 0) = <<>> /\ FlatTo(w, Len(w)) = FlattenSeq(w)
    BY <2>3, FlatPrefixes
  <2>5. FlatTo(o, 0) = <<>>
    BY <2>3, FlatPrefixes
  <2>6. <<>> \o <<>> = <<>>
    OBVIOUS
  <2>7. FlattenSeq(w) = FlatTo(w, 0) \o pdata
    BY <2>1, <2>3, <2>4, <2>6
  <2>8. AnsweredTo(segment, before, made, g_kg1, 0)
    <3>1. made = <<>> /\ before = g_kg1 /\ g_kg1 \in Bytes8
      BY DEF Init, Bytes8
    <3> QED
      BY <2>1, <3>1, NoneAnswered
  <2> QED
    BY <2>1, <2>5, <2>7, <2>8 DEF Handling, w, o
<1> QED
  BY <1>1, <1>2 DEF IInv

LEMMA ArriveInv == Types /\ Arrive => IInv'
<1> SUFFICES ASSUME Types, Arrive PROVE IInv'
  OBVIOUS
<1>1. PICK s \in Segments : segment' = s /\ pdata' = FlattenSeq(Wires(s))
  BY DEF Arrive, Wires
<1>2. /\ s \in Segment /\ made' = <<>> /\ done' = <<>> /\ in_buffer' = in_buffer
      /\ g_kg1' = g_kg1 /\ before' = g_kg1
  BY DEF Segment, Arrive
<1>3. Wires(s) \in Seq(Seq(Bytes8)) /\ Orders(s) \in Seq(Seq(Cmds))
  BY <1>2, WiresOf
<1> DEFINE w == Wires(s)
           o == Orders(s)
<1>4. w \in Seq(Seq(Bytes8)) /\ o \in Seq(Seq(Cmds)) /\ pdata' = FlattenSeq(w)
  BY <1>1, <1>3
<1> HIDE DEF w, o
<1>5. /\ FlatTo(w, 0) = <<>> /\ FlatTo(w, Len(w)) = FlattenSeq(w)
      /\ \A k \in 0..Len(w) : FlatTo(w, k) \in Seq(Bytes8)
  BY <1>4, FlatPrefixes
<1>6. pdata' \in Seq(Bytes8)
  <2>1. Len(w) \in 0..Len(w)
    BY <1>4
  <2> QED
    BY <1>4, <1>5, <2>1
<1>7. FlatTo(o, 0) = <<>>
  BY <1>4, FlatPrefixes
<1>8. IsBox(<<>>)
  <2>1. <<>> \in Seq(Seq(Bytes8)) /\ DOMAIN <<>> = {}
    OBVIOUS
  <2> QED
    BY <2>1 DEF IsBox
<1>9. Types'
  <2>1. /\ in_buffer' \in Seq(Bytes8) /\ Len(in_buffer') < MQTT_BUF_SIZE
        /\ g_kg1' \in Bytes8 /\ before' \in Bytes8 /\ segment' \in Segment /\ IsBox(made')
    BY <1>1, <1>2, <1>8, TypeIs
  <2> QED
    BY <1>6, <2>1 DEF Types, Bytes8, Segment, IsBox
<1>10. FlattenSeq(w) = FlatTo(w, 0) \o pdata'
  BY <1>4, <1>5, <1>6, ConcatEmptySeq
<1>11. Handling(0)'
  <2>1. AnsweredTo(s, g_kg1, <<>>, g_kg1, 0)
    BY <1>2, NoneAnswered, TypeIs
  <2> QED
    BY <1>1, <1>2, <1>7, <1>10, <2>1 DEF Handling, w, o
<1>12. 0 \in 0..Len(segment)'
  BY <1>1, <1>2, PacketsOf
<1> QED
  BY <1>9, <1>11, <1>12 DEF IInv

(* What follows a common beginning is the same.                            *)
LEMMA CancelLeft ==
  ASSUME NEW X, NEW a \in Seq(X), NEW b \in Seq(X), NEW c \in Seq(X), a \o b = a \o c
  PROVE  b = c
BY ConcatSimplifications

(* Within a segment, there is a packet at the front of what is left.       *)
LEMMA NextPacket ==
  ASSUME IInv, pdata # <<>>
  PROVE  \E k \in 0..Len(segment)-1 : \E t \in Seq(Bytes8) :
           /\ Handling(k) /\ pdata = Wire(segment[k + 1]) \o t
           /\ FlattenSeq(Wires(segment)) = FlatTo(Wires(segment), k + 1) \o t
           /\ FlatTo(Wires(segment), k) \in Seq(Bytes8)
           /\ k = 0 => FlatTo(Wires(segment), k) = <<>> /\ done = <<>>
           /\ FlatTo(Orders(segment), k + 1) = done \o Order(segment[k + 1])
           /\ done \in Seq(Cmds)
<1> DEFINE W == Wires(segment)
           O == Orders(segment)
           N == Len(segment)
<1>1. PICK k \in 0..N : Handling(k)
  BY DEF IInv, Handled
<1>2. segment \in Segment /\ pdata \in Seq(Bytes8)
  BY TypeIs DEF IInv
<1>3. N \in Nat
  BY <1>2, PacketsOf
<1>4. /\ W \in Seq(Seq(Bytes8)) /\ Len(W) = N /\ \A i \in 1..N : W[i] = Wire(segment[i])
      /\ O \in Seq(Seq(Cmds)) /\ Len(O) = N /\ \A i \in 1..N : O[i] = Order(segment[i])
  BY <1>2, WiresOf
<1>5. FlattenSeq(W) = FlatTo(W, k) \o pdata /\ done = FlatTo(O, k)
  BY <1>1 DEF Handling
<1> HIDE DEF W, O, N
<1>6. /\ FlatTo(W, 0) = <<>> /\ FlatTo(W, Len(W)) = FlattenSeq(W)
      /\ \A i \in 0..Len(W) : FlatTo(W, i) \in Seq(Bytes8)
      /\ \A i \in 0..Len(W)-1 : W[i + 1] \in Seq(Bytes8) /\ FlatTo(W, i + 1) = FlatTo(W, i) \o W[i + 1]
  BY <1>4, FlatPrefixes
<1>7. /\ FlatTo(O, 0) = <<>>
      /\ \A i \in 0..Len(O) : FlatTo(O, i) \in Seq(Cmds)
      /\ \A i \in 0..Len(O)-1 : FlatTo(O, i + 1) = FlatTo(O, i) \o O[i + 1]
  BY <1>4, FlatPrefixes
<1> DEFINE u == FlatTo(W, k)
<1>8. u \in Seq(Bytes8) /\ FlattenSeq(W) = u \o pdata
  BY <1>4, <1>5, <1>6
<1>9. k # N
  <2> SUFFICES ASSUME k = N PROVE FALSE
    OBVIOUS
  <2>1. FlattenSeq(W) = u
    BY <1>4, <1>6
  <2>2. u \o pdata = u
    BY <1>8, <2>1
  <2> HIDE DEF u
  <2>3. pdata = <<>>
    BY <1>2, <1>8, <2>2, ConcatSimplifications!idRight
  <2> QED
    BY <2>3
<1>10. k \in 0..N-1 /\ k + 1 \in 1..N /\ k + 1 \in 0..N /\ N \in 0..N /\ k + 1 <= N
  BY <1>3, <1>9
<1> DEFINE x == W[k + 1]
<1>11. x = Wire(segment[k + 1]) /\ x \in Seq(Bytes8) /\ FlatTo(W, k + 1) = u \o x
  BY <1>4, <1>6, <1>10
<1>12. PICK t \in Seq(Bytes8) : FlatTo(W, N) = FlatTo(W, k + 1) \o t
  <2>1. k + 1 \in 0..Len(W) /\ N \in 0..Len(W)
    BY <1>4, <1>10
  <2> QED
    BY <1>4, <1>10, <2>1, FlatTails
<1>13. FlattenSeq(W) = FlatTo(W, k + 1) \o t
  BY <1>4, <1>6, <1>12
<1> HIDE DEF u, x
<1>14. x \o t \in Seq(Bytes8) /\ (u \o x) \o t = u \o (x \o t)
  <2>1. x \o t \in Seq(Bytes8)
    BY <1>11, ConcatProperties
  <2>2. (u \o x) \o t = u \o (x \o t)
    <3>1. u \in Seq(Bytes8) /\ x \in Seq(Bytes8) /\ t \in Seq(Bytes8)
      BY <1>8, <1>11
    <3> QED
      BY <3>1, ConcatAssociative
  <2> QED
    BY <2>1, <2>2
<1>15. u \o pdata = u \o (x \o t)
  BY <1>8, <1>11, <1>13, <1>14
<1>16. pdata = x \o t
  <2> DEFINE y == x \o t
  <2>1. y \in Seq(Bytes8) /\ u \o pdata = u \o y
    BY <1>14, <1>15
  <2> HIDE DEF y
  <2>2. u \in Seq(Bytes8) /\ pdata \in Seq(Bytes8)
    BY <1>2, <1>8
  <2> HIDE DEF u
  <2>3. pdata = y
    BY <2>1, <2>2, CancelLeft
  <2> QED
    BY <2>3 DEF y
<1>17. /\ FlatTo(O, k + 1) = done \o Order(segment[k + 1])
       /\ done \in Seq(Cmds) /\ (k = 0 => done = <<>>)
  BY <1>4, <1>5, <1>7, <1>10
<1>18. k = 0 => u = <<>>
  BY <1>6 DEF u
<1> QED
  BY <1>1, <1>8, <1>10, <1>11, <1>13, <1>16, <1>17, <1>18 DEF W, O, N, u

LEMMA LengthOf ==
  ASSUME NEW s \in Segment
  PROVE  /\ FlattenSeq(Wires(s)) \in Seq(Bytes8) /\ Length(s) = Len(FlattenSeq(Wires(s)))
         /\ Length(s) \in Nat
<1> DEFINE w == Wires(s)
<1>1. w \in Seq(Seq(Bytes8))
  BY WiresOf
<1> HIDE DEF w
<1>2. FlatTo(w, Len(w)) = FlattenSeq(w) /\ \A k \in 0..Len(w) : FlatTo(w, k) \in Seq(Bytes8)
  BY <1>1, FlatPrefixes
<1>3. Len(w) \in 0..Len(w)
  BY <1>1
<1>4. FlattenSeq(w) \in Seq(Bytes8)
  BY <1>2, <1>3
<1> DEFINE f == FlattenSeq(w)
<1>5. f \in Seq(Bytes8) /\ Length(s) = Len(f)
  BY <1>4 DEF Length, Wires, w
<1> HIDE DEF f
<1> QED
  BY <1>5 DEF f, w

(* Such a packet is handled in a segment that fits.                        *)
LEMMA SegmentFits ==
  ASSUME IInv, pdata # <<>>, NEW k \in 0..Len(segment)-1, Handling(k),
         k = 0 => FlatTo(Wires(segment), k) = <<>>
  PROVE  (Len(pdata) < MQTT_BUF_SIZE => Length(segment) < MQTT_BUF_SIZE)
         /\ (~(Len(pdata) < MQTT_BUF_SIZE) => k = 0 /\ ~(Length(segment) < MQTT_BUF_SIZE))
<1> DEFINE u == FlatTo(Wires(segment), k)
           f == FlattenSeq(Wires(segment))
           n == Len(pdata)
           l == Length(segment)
<1>1. segment \in Segment /\ pdata \in Seq(Bytes8)
  BY TypeIs DEF IInv
<1>2. l \in Nat /\ f = u \o pdata /\ l = Len(f)
  BY <1>1, LengthOf DEF Handling
<1>3. u \in Seq(Bytes8)
  <2> DEFINE w == Wires(segment)
  <2>1. w \in Seq(Seq(Bytes8)) /\ Len(w) = Len(segment) /\ Len(segment) \in Nat
    BY <1>1, WiresOf, PacketsOf
  <2> HIDE DEF w
  <2>2. \A i \in 0..Len(w) : FlatTo(w, i) \in Seq(Bytes8)
    BY <2>1, FlatPrefixes
  <2>3. k \in 0..Len(w)
    BY <2>1
  <2> QED
    BY <2>2, <2>3 DEF w
<1> HIDE DEF u, f
<1>4. n \in Nat /\ Len(u) \in Nat /\ l = Len(u) + n
  BY <1>1, <1>2, <1>3, ConcatParts
<1>5. k = 0 => l = n
  <2>1. k = 0 => u = <<>>
    BY DEF u
  <2>2. u = <<>> => Len(u) = 0
    OBVIOUS
  <2> QED
    BY <1>4, <2>1, <2>2
<1>6. k > 0 => l < MQTT_BUF_SIZE
  BY DEF Handling
<1> HIDE DEF l, n
<1>7. k = 0 \/ k > 0
  OBVIOUS
<1>8. (n < MQTT_BUF_SIZE => l < MQTT_BUF_SIZE)
      /\ (~(n < MQTT_BUF_SIZE) => k = 0 /\ ~(l < MQTT_BUF_SIZE))
  BY <1>4, <1>5, <1>6, <1>7, BufSizeAssumption
<1> QED
  BY <1>8 DEF l, n

LEMMA TooLongInv == IInv /\ TooLong => IInv'
<1> SUFFICES ASSUME IInv, TooLong PROVE IInv'
  OBVIOUS
<1>1. /\ ~(Len(pdata) < MQTT_BUF_SIZE) /\ pdata' = <<>>
      /\ UNCHANGED <<in_buffer, g_kg1, made, segment, before, done>>
  BY DEF TooLong, Holds
<1>2. Types'
  <2>1. <<>> \in Seq(0..255)
    OBVIOUS
  <2> QED
    BY <1>1, <2>1 DEF IInv, Types
<1>3. pdata # <<>>
  <2>1. Len(<<>>) = 0 /\ 0 < MQTT_BUF_SIZE
    BY BufSizeAssumption
  <2> QED
    BY <1>1, <2>1
<1>4. PICK k \in 0..Len(segment)-1 : /\ Handling(k)
                                     /\ k = 0 => FlatTo(Wires(segment), k) = <<>>
                                     /\ k = 0 => done = <<>>
  BY <1>3, NextPacket
<1>5. k = 0 /\ ~(Length(segment) < MQTT_BUF_SIZE)
  BY <1>1, <1>3, <1>4, SegmentFits
<1>6. segment \in Segment /\ Length(segment) \in Nat
  BY TypeIs, LengthOf DEF IInv
<1> DEFINE l == Length(segment)
<1>7. l \in Nat /\ ~(l < MQTT_BUF_SIZE)
  BY <1>5, <1>6
<1> HIDE DEF l
<1>8. l >= MQTT_BUF_SIZE
  BY <1>7, BufSizeAssumption
<1>9. Commanded(segment) = <<>>
  BY <1>6, <1>8, CommandedUpTo DEF l
<1>10. Handled'
  <2>1. Commanded(segment)' = Commanded(segment)
    BY <1>1 DEF Commanded, Taken, Length
  <2>2. before \in Bytes8 /\ 0 \in 0..Len(segment) /\ Taken(segment) = <<>>
    BY <1>6, <1>8, CommandedUpTo, PacketsOf, TypeIs DEF l, IInv
  <2>3. Taken(segment) = SubSeq(segment, 1, 0)
    BY <1>6, <2>2, PacketsOf
  <2>4. AnsweredAll(segment, before, made, g_kg1)
    <3>1. AnsweredTo(segment, before, made, g_kg1, 0)
      BY <1>4, <1>5 DEF Handling
    <3> QED
      BY <1>6, <2>2, <2>3, <3>1, LastAnswered
  <2> QED
    BY <1>1, <1>4, <1>5, <1>9, <2>1, <2>4 DEF Handled
<1> QED
  BY <1>2, <1>10 DEF IInv

(* What lies behind the first part.                                        *)
LEMMA BehindPart ==
  ASSUME NEW X, NEW w \in Seq(X), NEW t \in Seq(X)
  PROVE  /\ w \o t \in Seq(X) /\ Len(w) <= Len(w \o t)
         /\ t = IF Len(w) < Len(w \o t) THEN From(w \o t, Len(w)) ELSE <<>>
<1> DEFINE b == w \o t
           d == Len(w)
           n == Len(t)
           v == From(b, d)
<1>1. /\ b \in Seq(X) /\ d \in Nat /\ n \in Nat /\ Len(b) = d + n
      /\ \A i \in 1..n : b[d + i] = t[i]
  BY ConcatParts
<1> HIDE DEF b, d
<1>2. d \in 0..Len(b) /\ Len(b) - d = n
  BY <1>1 DEF n
<1>3. v \in Seq(X) /\ Len(v) = n /\ \A i \in 1..n : v[i] = b[d + i]
  BY <1>1, <1>2, FromParts
<1> HIDE DEF v
<1>4. \A i \in 1..n : v[i] = t[i]
  BY <1>1, <1>3
<1>5. v = t
  BY <1>3, <1>4 DEF n
<1>6. ~(d < Len(b)) => t = <<>>
  <2>1. ~(d < Len(b)) => Len(t) = 0
    BY <1>1 DEF n
  <2> QED
    BY <2>1
<1>7. d <= Len(b)
  BY <1>1, <1>2
<1> QED
  BY <1>1, <1>5, <1>6, <1>7 DEF b, d, v

(* A round for a packet in b in which the application answers with m.      *)
Makes(b, m) ==
  /\ made' = More(More(made, Ack(b)), m)
  /\ msgQueue' \in Published(Answered(msgQueue, Len(More(made, Ack(b))), Ack(b)), Len(made'), m)
  /\ spare' = spare - FrameLength(Ack(b)) - FrameLength(m)

LEMMA ReadPacketInv ==
  IInv /\ ReadPacket => IInv' /\ \E b, m \in Seq(Bytes8) : Makes(b, m)
<1> SUFFICES ASSUME IInv, ReadPacket PROVE IInv' /\ \E b, m \in Seq(Bytes8) : Makes(b, m)
  OBVIOUS
<1> DEFINE len == Len(pdata)
           b == Over(pdata, in_buffer)
           r == IF Delivers(GetType(b)) THEN Deliver(b, len) ELSE Nothing(b)
<1>1. /\ pdata # <<>> /\ len < MQTT_BUF_SIZE
      /\ in_buffer' = r.buf /\ g_kg1' = r.kg1
      /\ made' = More(More(made, Ack(b)), r.msg)
      /\ done' = done \o r.did /\ pdata' = Rest(b, len) /\ segment' = segment /\ before' = before
      /\ Makes(b, r.msg)
  BY DEF ReadPacket, Holds, Makes
<1>2. /\ in_buffer \in Seq(Bytes8) /\ Len(in_buffer) < MQTT_BUF_SIZE /\ pdata \in Seq(Bytes8)
      /\ g_kg1 \in Bytes8 /\ before \in Bytes8 /\ segment \in Segment /\ IsBox(made)
  BY TypeIs DEF IInv
<1>3. PICK k \in 0..Len(segment)-1 : \E t \in Seq(Bytes8) :
           /\ Handling(k) /\ pdata = Wire(segment[k + 1]) \o t
           /\ FlattenSeq(Wires(segment)) = FlatTo(Wires(segment), k + 1) \o t
           /\ FlatTo(Wires(segment), k) \in Seq(Bytes8)
           /\ k = 0 => FlatTo(Wires(segment), k) = <<>> /\ done = <<>>
           /\ FlatTo(Orders(segment), k + 1) = done \o Order(segment[k + 1])
           /\ done \in Seq(Cmds)
  BY <1>1, NextPacket
<1>4. PICK t \in Seq(Bytes8) :
           /\ Handling(k) /\ pdata = Wire(segment[k + 1]) \o t
           /\ FlattenSeq(Wires(segment)) = FlatTo(Wires(segment), k + 1) \o t
           /\ k = 0 => FlatTo(Wires(segment), k) = <<>>
           /\ FlatTo(Orders(segment), k + 1) = done \o Order(segment[k + 1])
           /\ done \in Seq(Cmds)
  BY <1>3
<1> DEFINE p == segment[k + 1]
<1>5. Len(segment) \in Nat /\ k + 1 \in 1..Len(segment) /\ Fair(p)
  <2>1. Len(segment) \in Nat /\ \A i \in 1..Len(segment) : Fair(segment[i])
    BY <1>2, PacketsOf
  <2>2. k + 1 \in 1..Len(segment)
    BY <2>1
  <2> QED
    BY <2>1, <2>2
<1>6. Length(segment) < MQTT_BUF_SIZE
  BY <1>1, <1>4, SegmentFits
<1> HIDE DEF p, r, b, len
<1>7. Wire(p) \in Seq(Bytes8) /\ Wire(p) # <<>>
  BY <1>5, WireBytes
<1> DEFINE w == Wire(p)
<1>8. w \in Seq(Bytes8) /\ pdata = w \o t
  BY <1>4, <1>7 DEF p
<1>9. /\ b \in Seq(Bytes8) /\ Starts(b, w) /\ Len(b) < MQTT_BUF_SIZE
  <2>1. /\ b \in Seq(Bytes8)
        /\ \A w1 \in Seq(Bytes8), t1 \in Seq(Bytes8) : pdata = w1 \o t1 => Starts(b, w1)
        /\ \A n \in Nat : len < n /\ Len(in_buffer) < n => Len(b) < n
    BY <1>2, OverBytes DEF b, len
  <2>2. MQTT_BUF_SIZE \in Nat
    BY BufSizeAssumption
  <2> HIDE DEF w
  <2> QED
    BY <1>1, <1>2, <1>8, <2>1, <2>2
<1>10. len \in Nat /\ Len(w) <= len /\ t = IF Len(w) < len THEN From(pdata, Len(w)) ELSE <<>>
  <2> HIDE DEF w
  <2>1. len \in Nat
    BY <1>2 DEF len
  <2>2. Len(w) <= len /\ t = IF Len(w) < len THEN From(pdata, Len(w)) ELSE <<>>
    BY <1>8, BehindPart DEF len
  <2> QED
    BY <2>1, <2>2
<1>11. ASSUME Says(r, p), Sound(r, b)
       PROVE  AnsweredTo(segment, before, made', g_kg1', k + 1)
  <2> DEFINE a == Ack(b)
             m == r.msg
             new == r.kg1
  <2>1. Heard(a) = AckOf(p)
    <3>1. Len(w) \in Nat /\ Len(w) < MQTT_BUF_SIZE
      <4> HIDE DEF w
      <4> DEFINE n == Len(w)
      <4>1. n \in Nat /\ n <= len /\ len \in Nat /\ len < MQTT_BUF_SIZE
        BY <1>1, <1>8, <1>10
      <4> HIDE DEF n
      <4>2. n < MQTT_BUF_SIZE
        BY <4>1, BufSizeAssumption
      <4> QED
        BY <4>1, <4>2 DEF n
    <3> QED
      BY <1>5, <1>9, <3>1, AckAnswers
  <2>2. /\ made \in Seq(Seq(Bytes8)) /\ a \in Seq(Bytes8) /\ m \in Seq(Bytes8)
        /\ k \in 0..Len(segment)-1
    BY <1>2, <1>9, <1>11, AckIsMsg DEF IsBox, IsMsg, Sound
  <2>3. IsComplete(p) => new = After(p, g_kg1) /\ Heard(m) = TellOf(p, g_kg1)
    BY <1>11 DEF Says
  <2>4. AnsweredTo(segment, before, made, g_kg1, k)
    BY <1>4 DEF Handling
  <2> HIDE DEF a, m, new, w
  <2>5. AnsweredTo(segment, before, More(More(made, a), m), new, k + 1)
    BY <1>2, <2>1, <2>2, <2>3, <2>4, NextAnswered DEF p
  <2> QED
    BY <1>1, <2>5 DEF a, m, new
<1>12. ASSUME IsPublish(p)
       PROVE  /\ Sound(r, b) /\ pdata' \in Seq(Bytes8)
              /\ Handled' \/ \E i \in 0..Len(segment)' : Handling(i)'
  <2>1. /\ GetType(b) = PUBLISH /\ TotalLength(b, len) = Len(w)
        /\ Sound(Deliver(b, len), b) /\ Deliver(b, len).did = Order(p)
        /\ Says(Deliver(b, len), p)
    BY <1>2, <1>5, <1>9, <1>10, <1>12, Delivered
  <2>2. Sound(r, b) /\ r.did = Order(p) /\ Says(r, p)
    BY <2>1 DEF r, Delivers
  <2>3. pdata' = t
    BY <1>1, <1>10, <2>1 DEF Rest
  <2>4. Handling(k + 1)'
    <3>1. (\A i \in 1..k : IsPublish(segment[i])) /\ k \in Nat
      BY <1>4, <1>5 DEF Handling
    <3>2. \A i \in 1..k+1 : IsPublish(segment[i])
      <4> TAKE i \in 1..k+1
      <4>1. i \in 1..k \/ i = k + 1
        BY <3>1
      <4> QED
        BY <1>12, <3>1, <4>1 DEF p
    <3>3. done' = FlatTo(Orders(segment), k + 1)
      BY <1>1, <1>4, <2>2 DEF p
    <3>4. Length(segment)' = Length(segment) /\ Wires(segment)' = Wires(segment)
          /\ Orders(segment)' = Orders(segment)
      BY <1>1 DEF Length, Wires, Orders
    <3>5. FlattenSeq(Wires(segment)) = FlatTo(Wires(segment), k + 1) \o t
      BY <1>4
    <3>6. AnsweredTo(segment, before, made', g_kg1', k + 1)
      BY <1>11, <2>2
    <3> QED
      BY <1>1, <1>6, <2>3, <3>2, <3>3, <3>4, <3>5, <3>6 DEF Handling
  <2>5. \E i \in 0..Len(segment)' : Handling(i)'
    <3>1. k + 1 \in 0..Len(segment)'
      BY <1>1, <1>5
    <3> QED
      BY <2>4, <3>1
  <2> QED
    BY <1>4, <2>2, <2>3, <2>5
<1>13. ASSUME ~IsPublish(p)
       PROVE  /\ Sound(r, b) /\ pdata' \in Seq(Bytes8)
              /\ Handled' \/ \E i \in 0..Len(segment)' : Handling(i)'
  <2>1. ~Delivers(GetType(b))
    BY <1>5, <1>9, <1>13, NotDelivered
  <2>2. r = Nothing(b) /\ pdata' = <<>>
    BY <1>1, <2>1 DEF r, Rest, Delivers
  <2>3. Sound(r, b) /\ r.did = <<>> /\ Says(r, p)
    <3>1. p.kind \notin {"command", "search"}
      BY <1>13 DEF IsPublish
    <3> QED
      BY <1>2, <1>9, <2>2, <3>1, NothingSound, NothingSaid
  <2>4. Order(p) = <<>>
    BY <1>5, <1>13, OrderOf
  <2>5. FlatTo(Orders(segment), k + 1) = done'
    BY <1>1, <1>4, <2>3, <2>4 DEF p
  <2>6. PICK j \in 0..Len(segment) :
           /\ UpTo(segment, j) /\ Taken(segment) = SubSeq(segment, 1, j)
           /\ Commanded(segment) = FlatTo(Orders(segment), j)
    BY <1>2, <1>6, CommandedUpTo
  <2>7. j = k + 1
    <3>1. (\A i \in 1..k : IsPublish(segment[i])) /\ k \in Nat
      BY <1>4, <1>5 DEF Handling
    <3>2. (\A i \in 1..j-1 : IsPublish(segment[i]))
          /\ (j = Len(segment) \/ (j >= 1 /\ ~IsPublish(segment[j])))
      BY <2>6 DEF UpTo
    <3>3. ~(k + 1 \in 1..j-1)
      BY <1>13, <3>2 DEF p
    <3>4. j = Len(segment) \/ ~(j \in 1..k)
      BY <3>1, <3>2
    <3> QED
      BY <1>5, <3>1, <3>2, <3>3, <3>4
  <2>8. Commanded(segment)' = Commanded(segment)
    BY <1>1 DEF Commanded, Taken, Length
  <2>9. AnsweredAll(segment, before, made', g_kg1')
    <3>1. AnsweredTo(segment, before, made', g_kg1', k + 1)
      BY <1>11, <2>3
    <3> QED
      BY <1>2, <2>6, <2>7, <3>1, LastAnswered
  <2>10. Handled'
    BY <1>1, <2>2, <2>5, <2>6, <2>7, <2>8, <2>9 DEF Handled
  <2>11. <<>> \in Seq(Bytes8)
    OBVIOUS
  <2> QED
    BY <2>2, <2>3, <2>10, <2>11
<1>14. /\ Sound(r, b) /\ pdata' \in Seq(Bytes8)
       /\ Handled' \/ \E i \in 0..Len(segment)' : Handling(i)'
  BY <1>12, <1>13
<1>15. Types'
  <2>1. r.buf \in Seq(Bytes8) /\ Len(r.buf) < MQTT_BUF_SIZE /\ r.kg1 \in Bytes8 /\ IsMsg(r.msg)
    BY <1>9, <1>14 DEF Sound
  <2>2. IsMsg(Ack(b))
    BY <1>9, AckIsMsg
  <2>3. IsBox(More(made, Ack(b)))
    BY <1>2, <2>2, MoreBox
  <2>4. IsBox(More(More(made, Ack(b)), r.msg))
    BY <2>1, <2>3, MoreBox
  <2>5. /\ in_buffer' \in Seq(Bytes8) /\ Len(in_buffer') < MQTT_BUF_SIZE
        /\ g_kg1' \in Bytes8 /\ before' \in Bytes8 /\ segment' \in Segment /\ IsBox(made')
    BY <1>1, <1>2, <2>1, <2>4
  <2> QED
    BY <1>14, <2>5 DEF Types, Bytes8, Segment, IsBox
<1>16. \E c, m \in Seq(Bytes8) : Makes(c, m)
  <2>1. r.msg \in Seq(Bytes8)
    BY <1>14 DEF Sound, IsMsg
  <2> QED
    BY <1>1, <1>9, <2>1
<1> QED
  BY <1>14, <1>15, <1>16 DEF IInv

LEMMA StutterInv == IInv /\ UNCHANGED vars => IInv'
<1> SUFFICES ASSUME IInv, UNCHANGED vars PROVE IInv'
  OBVIOUS
<1>1. UNCHANGED <<in_buffer, pdata, g_kg1, made, segment, before, done>>
  BY DEF vars
<1>2. Types'
  BY <1>1 DEF IInv, Types
<1>3. ASSUME Handled PROVE Handled'
  BY <1>1, <1>3 DEF Handled
<1>4. ASSUME NEW k \in 0..Len(segment), Handling(k)
      PROVE  k \in 0..Len(segment)' /\ Handling(k)'
  BY <1>1, <1>4 DEF Handling
<1> QED
  BY <1>2, <1>3, <1>4 DEF IInv

(* When nothing is left of a segment, none of its packets is.              *)
LEMMA NothingLeft ==
  ASSUME IInv, pdata = <<>>, NEW k \in 0..Len(segment), Handling(k)
  PROVE  k = Len(segment)
<1> DEFINE W == Wires(segment)
           N == Len(segment)
<1>1. segment \in Segment
  BY TypeIs DEF IInv
<1>2. N \in Nat /\ \A i \in 1..N : Fair(segment[i])
  BY <1>1, PacketsOf
<1>3. W \in Seq(Seq(Bytes8)) /\ Len(W) = N /\ \A i \in 1..N : W[i] = Wire(segment[i])
  BY <1>1, WiresOf
<1>4. FlattenSeq(W) = FlatTo(W, k) \o <<>>
  BY DEF Handling
<1> HIDE DEF W, N
<1>5. /\ FlatTo(W, Len(W)) = FlattenSeq(W)
      /\ \A i \in 0..Len(W) : FlatTo(W, i) \in Seq(Bytes8)
      /\ \A i \in 0..Len(W)-1 : W[i + 1] \in Seq(Bytes8) /\ FlatTo(W, i + 1) = FlatTo(W, i) \o W[i + 1]
  BY <1>3, FlatPrefixes
<1> SUFFICES ASSUME k # N PROVE FALSE
  BY DEF N
<1>6. k \in 0..N /\ k \in 0..N-1 /\ k + 1 \in 0..N /\ k + 1 \in 1..N /\ N \in 0..N /\ k + 1 <= N
  BY <1>2 DEF N
<1> DEFINE u == FlatTo(W, k)
           x == W[k + 1]
           v == FlatTo(W, k + 1)
<1>7. u \in Seq(Bytes8) /\ x \in Seq(Bytes8) /\ v = u \o x /\ v \in Seq(Bytes8)
  BY <1>3, <1>5, <1>6
<1>8. x # <<>>
  BY <1>2, <1>3, <1>6, WireBytes
<1>9. PICK t \in Seq(Bytes8) : FlatTo(W, N) = v \o t
  <2>1. k + 1 \in 0..Len(W) /\ N \in 0..Len(W)
    BY <1>3, <1>6
  <2>2. \E t \in Seq(Bytes8) : FlatTo(W, N) = FlatTo(W, k + 1) \o t
    <3> DEFINE m == k + 1
    <3>1. W \in Seq(Seq(Bytes8)) /\ m \in 0..Len(W) /\ N \in 0..Len(W) /\ m <= N
      BY <1>3, <1>6, <2>1
    <3> HIDE DEF u, x, v, m, Bytes8
    <3>2. \E t \in Seq(Bytes8) : FlatTo(W, N) = FlatTo(W, m) \o t
      BY <3>1, FlatTails
    <3> QED
      BY <3>2 DEF m
  <2> QED
    BY <2>2
<1> HIDE DEF u, x, v
<1>10. u \o <<>> = v \o t
  BY <1>3, <1>4, <1>5, <1>9 DEF u
<1>11. Len(u \o <<>>) = Len(u) /\ Len(v) = Len(u) + Len(x) /\ Len(v \o t) = Len(v) + Len(t)
  <2>1. u \o <<>> = u
    BY <1>7, ConcatEmptySeq
  <2> QED
    BY <1>7, <2>1, ConcatParts
<1>12. Len(u) \in Nat /\ Len(x) \in Nat /\ Len(t) \in Nat /\ Len(x) # 0
  BY <1>7, <1>8
<1> DEFINE a == Len(u)
           c == Len(x)
           d == Len(t)
<1>13. a = (a + c) + d /\ a \in Nat /\ c \in Nat /\ d \in Nat /\ c # 0
  BY <1>10, <1>11, <1>12
<1> HIDE DEF a, c, d
<1> QED
  BY <1>13

(* The packets handled are among those that the device takes notice of,    *)
(* and in the end all of them.                                             *)
LEMMA FarEnough ==
  ASSUME IInv, NEW k \in 0..Len(segment), Handling(k)
  PROVE  \E j \in 0..Len(segment) :
           /\ k <= j /\ Taken(segment) = SubSeq(segment, 1, j)
           /\ Commanded(segment) = FlatTo(Orders(segment), j)
           /\ pdata = <<>> => k = j
<1> DEFINE O == Orders(segment)
           N == Len(segment)
           l == Length(segment)
<1>1. segment \in Segment /\ segment \in Seq(Packets) /\ N \in Nat /\ l \in Nat
  BY TypeIs, PacketsOf, LengthOf DEF IInv
<1>2. k > 0 => l < MQTT_BUF_SIZE
  BY DEF Handling
<1> HIDE DEF l
<1>3. CASE l >= MQTT_BUF_SIZE
  <2>1. k = 0
    BY <1>1, <1>2, <1>3, BufSizeAssumption
  <2>2. Taken(segment) = <<>> /\ Commanded(segment) = <<>>
    BY <1>1, <1>3, CommandedUpTo DEF l
  <2>3. SubSeq(segment, 1, 0) = <<>>
    BY <1>1
  <2>4. FlatTo(O, 0) = <<>>
    <3>1. O \in Seq(Seq(Cmds))
      BY <1>1, WiresOf
    <3> HIDE DEF O
    <3> QED
      BY <3>1, FlatPrefixes
  <2> QED
    BY <2>1, <2>2, <2>3, <2>4
<1>4. CASE ~(l >= MQTT_BUF_SIZE)
  <2>1. l < MQTT_BUF_SIZE
    BY <1>1, <1>4, BufSizeAssumption
  <2>2. PICK j \in 0..N : /\ UpTo(segment, j) /\ Taken(segment) = SubSeq(segment, 1, j)
                          /\ Commanded(segment) = FlatTo(O, j)
    BY <1>1, <2>1, CommandedUpTo DEF l
  <2>3. j = N \/ (j >= 1 /\ ~(j \in 1..k))
    BY <2>2 DEF UpTo, Handling
  <2>4. pdata = <<>> => k = N
    BY NothingLeft
  <2> HIDE DEF N
  <2>5. k <= j
    BY <1>1, <2>2, <2>3 DEF N
  <2>6. pdata = <<>> => k = j
    BY <1>1, <2>2, <2>4, <2>5
  <2> QED
    BY <2>2, <2>5, <2>6 DEF N
<1> QED
  BY <1>3, <1>4

LEMMA FlatsPrefix ==
  ASSUME NEW S, NEW q \in Seq(Seq(S)), NEW j \in 0..Len(q), NEW k \in 0..Len(q), k <= j
  PROVE  IsPrefix(FlatTo(q, k), FlatTo(q, j))
<1> DEFINE u == FlatTo(q, k)
<1>1. PICK t \in Seq(S) : FlatTo(q, j) = u \o t
  BY FlatTails
<1>2. u \in Seq(S)
  BY FlatPrefixes
<1> HIDE DEF u
<1>3. IsPrefix(u, u \o t)
  BY <1>2, PrefixOfConcat
<1> QED
  BY <1>1, <1>3 DEF u

LEMMA DoneFollows == IInv => DoneAsSent
<1> SUFFICES ASSUME IInv PROVE DoneAsSent
  OBVIOUS
<1> DEFINE O == Orders(segment)
           N == Len(segment)
           all == Commanded(segment)
<1>1. segment \in Segment /\ N \in Nat
  BY TypeIs, PacketsOf DEF IInv
<1>2. O \in Seq(Seq(Cmds)) /\ Len(O) = N
  BY <1>1, WiresOf
<1> HIDE DEF O, all
<1>3. ASSUME NEW k \in 0..N, Handling(k)
      PROVE  IsPrefix(done, all) /\ (pdata = <<>> => done = all)
  <2>1. PICK j \in 0..N : k <= j /\ all = FlatTo(O, j) /\ (pdata = <<>> => k = j)
    BY <1>3, FarEnough DEF O, all
  <2>2. done = FlatTo(O, k)
    BY <1>3 DEF Handling, O
  <2>3. IsPrefix(FlatTo(O, k), FlatTo(O, j))
    BY <1>2, <2>1, FlatsPrefix
  <2> QED
    BY <2>1, <2>2, <2>3
<1>4. ASSUME Handled
      PROVE  IsPrefix(done, all) /\ (pdata = <<>> => done = all)
  <2>1. PICK j \in 0..N : all = FlatTo(O, j)
    <3>1. Length(segment) >= MQTT_BUF_SIZE \/ Length(segment) < MQTT_BUF_SIZE
      <4> DEFINE l == Length(segment)
      <4>1. l \in Nat
        BY <1>1, LengthOf
      <4> HIDE DEF l
      <4>2. l >= MQTT_BUF_SIZE \/ l < MQTT_BUF_SIZE
        BY <4>1, BufSizeAssumption
      <4> QED
        BY <4>2 DEF l
    <3>2. FlatTo(O, 0) = <<>> /\ 0 \in 0..N
      BY <1>1, <1>2, FlatPrefixes
    <3> QED
      BY <1>1, <3>1, <3>2, CommandedUpTo DEF O, all
  <2>2. j \in 0..Len(O) /\ j <= j
    BY <1>1, <1>2
  <2>3. IsPrefix(FlatTo(O, j), FlatTo(O, j))
    BY <1>2, <2>2, FlatsPrefix
  <2> QED
    BY <1>4, <2>1, <2>3 DEF Handled, all
<1>5. Handled \/ \E k \in 0..N : Handling(k)
  BY DEF IInv
<1> QED
  BY <1>3, <1>4, <1>5 DEF DoneAsSent, all

LEMMA AnswersFollow == IInv => AnswersRead
<1> DEFINE taken == Taken(segment)
           all == FlattenSeq(Answers(taken, before))
           now == States(taken, before)[Len(taken)]
           read == Read(made)
           A == Answers(segment, before)
           N == Len(segment)
<1> SUFFICES ASSUME IInv, Complete(segment)
             PROVE  IsPrefix(read, all) /\ (pdata = <<>> => read = all /\ g_kg1 = now)
  BY DEF AnswersRead, Complete, Read
<1>1. segment \in Segment /\ N \in Nat /\ before \in Bytes8
  BY TypeIs, PacketsOf DEF IInv
<1>2. Good(segment) /\ segment \in Seq(Packets)
  BY <1>1, GoodSegment
<1>3. A \in Seq(Seq(Readings)) /\ Len(A) = N
  BY <1>1, <1>2, AnswersOf
<1> HIDE DEF A, Readings
<1>4. ASSUME NEW j \in 0..N, taken = SubSeq(segment, 1, j)
      PROVE  all = FlatTo(A, j) /\ now = States(segment, before)[j]
  <2>1. /\ Len(SubSeq(segment, 1, j)) = j
        /\ States(SubSeq(segment, 1, j), before)[j] = States(segment, before)[j]
        /\ FlattenSeq(Answers(SubSeq(segment, 1, j), before)) = FlatTo(A, j)
    BY <1>1, <1>2, AnswersOfPrefix DEF A
  <2> QED
    BY <1>4, <2>1
<1> HIDE DEF taken, all, now, read
<1>5. ASSUME NEW k \in 0..N, Handling(k)
      PROVE  IsPrefix(read, all) /\ (pdata = <<>> => read = all /\ g_kg1 = now)
  <2>1. PICK j \in 0..N : k <= j /\ taken = SubSeq(segment, 1, j) /\ (pdata = <<>> => k = j)
    BY <1>5, FarEnough DEF taken
  <2>2. read = FlatTo(A, k) /\ g_kg1 = States(segment, before)[k]
    BY <1>5 DEF Handling, AnsweredTo, read, A
  <2>3. all = FlatTo(A, j) /\ now = States(segment, before)[j]
    BY <1>4, <2>1
  <2>4. IsPrefix(FlatTo(A, k), FlatTo(A, j))
    BY <1>3, <2>1, FlatsPrefix
  <2> QED
    BY <2>1, <2>2, <2>3, <2>4
<1>6. ASSUME Handled
      PROVE  IsPrefix(read, all) /\ (pdata = <<>> => read = all /\ g_kg1 = now)
  <2>1. read = all /\ g_kg1 = now
    BY <1>6 DEF Handled, AnsweredAll, read, all, now, taken
  <2>2. PICK j \in 0..N : taken = SubSeq(segment, 1, j)
    <3>1. Length(segment) >= MQTT_BUF_SIZE \/ Length(segment) < MQTT_BUF_SIZE
      BY <1>1, LengthOf, BufSizeAssumption
    <3>2. <<>> = SubSeq(segment, 1, 0) /\ 0 \in 0..N
      BY <1>1, <1>2
    <3> QED
      BY <1>1, <3>1, <3>2, CommandedUpTo DEF taken
  <2>3. all = FlatTo(A, j)
    BY <1>4, <2>2
  <2>4. IsPrefix(FlatTo(A, j), FlatTo(A, j))
    <3>1. j \in 0..Len(A) /\ j <= j
      BY <1>1, <1>3
    <3> QED
      BY <1>3, <3>1, FlatsPrefix
  <2> QED
    BY <2>1, <2>3, <2>4
<1>7. Handled \/ \E k \in 0..N : Handling(k)
  BY DEF IInv
<1> QED
  BY <1>5, <1>6, <1>7

-----------------------------------------------------------------------------
(* The queue.                                                              *)

LEMMA FrameLengths ==
  ASSUME NEW m \in Seq(Bytes8)
  PROVE  FrameLength(m) \in Nat /\ (m = <<>> => FrameLength(m) = 0)
<1> DEFINE E == {i \in DOMAIN m : m[i] \in 125..127}
           n == Len(m)
<1>1. n \in Nat /\ DOMAIN m = 1..n
  OBVIOUS
<1>2. IsFiniteSet(1..n)
  BY <1>1, FS_Interval
<1>3. E \in SUBSET (1..n)
  BY <1>1
<1>4. FrameLength(m) = IF m = <<>> THEN 0 ELSE n + 2 + Cardinality(E)
  BY DEF FrameLength
<1> HIDE DEF E, n
<1>5. Cardinality(E) \in Nat
  BY <1>2, <1>3, FS_Subset, FS_CardinalityType
<1> QED
  BY <1>1, <1>4, <1>5

(* What is known of a queue q, when box are the messages made for the      *)
(* segment and left is what spare is: as long as nothing had to be lost,   *)
(* it has just that much room.                                             *)
Kept(box, q, left) ==
  /\ q \in [held : SUBSET DOMAIN box, room : 0..QUEUE_BUFFER_SIZE] /\ left \in Int
  /\ left >= 0 => q.room = left /\ q.held = DOMAIN box
  /\ \A n \in DOMAIN box \ q.held : GetType(box[n]) = PUBLISH => \A i \in q.held : i > n

LEMMA MoreParts ==
  ASSUME NEW box \in Seq(Seq(Bytes8)), NEW m \in Seq(Bytes8), m # <<>>
  PROVE  /\ Len(box) \in Nat /\ DOMAIN box = 1..Len(box)
         /\ Len(More(box, m)) = Len(box) + 1 /\ DOMAIN More(box, m) = 1..Len(box)+1
         /\ More(box, m)[Len(box) + 1] = m
         /\ \A i \in 1..Len(box) : More(box, m)[i] = box[i]
<1> DEFINE B == Seq(Bytes8)
<1>1. More(box, m) = Append(box, m)
  BY DEF More
<1> HIDE DEF B
<1>2. box \in Seq(B) /\ m \in B
  BY DEF B
<1> QED
  BY <1>1, <1>2

(* A message that is no publication, or fits.                              *)
LEMMA AnsweredKept ==
  ASSUME NEW box \in Seq(Seq(Bytes8)), NEW m \in Seq(Bytes8), NEW q, NEW left, Kept(box, q, left),
         m = <<>> \/ GetType(m) # PUBLISH \/ FrameLength(m) <= q.room
  PROVE  Kept(More(box, m), Answered(q, Len(More(box, m)), m), left - FrameLength(m))
<1> DEFINE f == FrameLength(m)
           N == Len(box)
           more == More(box, m)
           x == Answered(q, Len(more), m)
<1>1. f \in Nat
  BY FrameLengths
<1>2. /\ q.held \subseteq DOMAIN box /\ q.room \in 0..QUEUE_BUFFER_SIZE /\ left \in Int
      /\ left >= 0 => q.room = left /\ q.held = DOMAIN box
      /\ \A n \in DOMAIN box \ q.held : GetType(box[n]) = PUBLISH => \A i \in q.held : i > n
      /\ q = [held |-> q.held, room |-> q.room]
  BY DEF Kept
<1>3. CASE m = <<>>
  <2>1. more = box /\ x = q /\ f = 0
    BY <1>3, FrameLengths DEF More, Answered
  <2> HIDE DEF more, x, f
  <2>2. left - f = left
    BY <1>2, <2>1
  <2>3. Kept(more, x, left - f)
    BY <2>1, <2>2
  <2> QED
    BY <2>3 DEF more, x, f
<1>4. CASE m # <<>>
  <2>1. /\ N \in Nat /\ DOMAIN box = 1..N /\ Len(more) = N + 1 /\ DOMAIN more = 1..N+1
        /\ more[N + 1] = m /\ \A i \in 1..N : more[i] = box[i]
    BY <1>4, MoreParts
  <2>2. x = IF f <= q.room THEN [held |-> q.held \cup {N + 1}, room |-> q.room - f]
            ELSE [held |-> q.held, room |-> 0]
    BY <1>2, <1>4, <2>1 DEF Answered, Put
  <2>3. GetType(m) # PUBLISH \/ f <= q.room
    BY <1>4
  <2> HIDE DEF more, x, f, N
  <2>4. \A n \in 1..N+1 : n = N + 1 \/ (n \in 1..N /\ n < N + 1)
    BY <2>1
  <2>5. CASE f <= q.room
    <3>1. x.held = q.held \cup {N + 1} /\ x.room = q.room - f
      BY <2>2, <2>5
    <3>2. x \in [held : SUBSET (1..N+1), room : 0..QUEUE_BUFFER_SIZE]
      <4>1. q.held \cup {N + 1} \subseteq 1..N+1
        BY <1>2, <2>1
      <4>2. q.room - f \in 0..QUEUE_BUFFER_SIZE
        BY <1>1, <1>2, <2>5, QueueAssumption
      <4> QED
        BY <2>2, <2>5, <4>1, <4>2
    <3>3. left - f \in Int /\ (left - f >= 0 => x.room = left - f /\ x.held = 1..N+1)
      <4>1. left - f >= 0 => left >= 0
        BY <1>1, <1>2
      <4>2. left >= 0 => x.held = 1..N+1
        BY <1>2, <2>1, <2>4, <3>1
      <4> QED
        BY <1>1, <1>2, <3>1, <4>1, <4>2
    <3>4. ASSUME NEW n \in DOMAIN more \ x.held, GetType(more[n]) = PUBLISH, NEW i \in x.held
          PROVE  i > n
      <4>1. n \in 1..N /\ n \notin q.held /\ more[n] = box[n] /\ n < N + 1
        BY <2>1, <2>4, <3>1, <3>4
      <4>2. i = N + 1 \/ i \in q.held
        BY <3>1
      <4> QED
        BY <1>2, <2>1, <3>4, <4>1, <4>2
    <3>5. Kept(more, x, left - f)
      BY <2>1, <3>2, <3>3, <3>4 DEF Kept
    <3> QED
      BY <3>5 DEF more, x, f
  <2>6. CASE ~(f <= q.room)
    <3>1. x.held = q.held /\ x.room = 0
      BY <2>2, <2>6
    <3>2. x \in [held : SUBSET (1..N+1), room : 0..QUEUE_BUFFER_SIZE]
      <4>1. q.held \subseteq 1..N+1
        BY <1>2, <2>1
      <4>2. 0 \in 0..QUEUE_BUFFER_SIZE
        BY QueueAssumption
      <4> QED
        BY <2>2, <2>6, <4>1, <4>2
    <3>3. left - f \in Int /\ ~(left - f >= 0)
      BY <1>1, <1>2, <2>6
    <3>4. ASSUME NEW n \in DOMAIN more \ x.held, GetType(more[n]) = PUBLISH, NEW i \in x.held
          PROVE  i > n
      <4>1. n # N + 1
        BY <2>1, <2>3, <2>6, <3>4
      <4>2. n \in 1..N /\ n \notin q.held /\ more[n] = box[n]
        BY <2>1, <2>4, <3>1, <3>4, <4>1
      <4> QED
        BY <1>2, <2>1, <3>1, <3>4, <4>2
    <3>5. Kept(more, x, left - f)
      BY <2>1, <3>2, <3>3, <3>4 DEF Kept
    <3> QED
      BY <3>5 DEF more, x, f
  <2> QED
    BY <2>5, <2>6
<1> QED
  BY <1>3, <1>4

(* A publication.                                                          *)
LEMMA PublishedKept ==
  ASSUME NEW box \in Seq(Seq(Bytes8)), NEW m \in Seq(Bytes8), NEW q, NEW left, Kept(box, q, left),
         NEW x \in Published(q, Len(More(box, m)), m)
  PROVE  Kept(More(box, m), x, left - FrameLength(m))
<1> DEFINE f == FrameLength(m)
           N == Len(box)
           more == More(box, m)
<1>1. f \in Nat
  BY FrameLengths
<1>2. CASE m = <<>> \/ f <= q.room
  <2>1. x = Answered(q, Len(more), m)
    BY <1>2 DEF Published
  <2> QED
    BY <1>2, <2>1, AnsweredKept
<1>3. CASE ~(m = <<>> \/ f <= q.room)
  <2>1. /\ N \in Nat /\ DOMAIN box = 1..N /\ Len(more) = N + 1 /\ DOMAIN more = 1..N+1
        /\ more[N + 1] = m /\ \A i \in 1..N : more[i] = box[i]
    BY <1>3, MoreParts
  <2>2. \/ \E k \in 0..N+1, r \in Rooms : x = [held |-> {i \in q.held : i > k} \cup {N + 1}, room |-> r]
        \/ x = [held |-> {}, room |-> QUEUE_BUFFER_SIZE]
    BY <1>3, <2>1 DEF Published
  <2> HIDE DEF more, f, N
  <2>3. /\ q.held \subseteq DOMAIN box /\ q.room \in 0..QUEUE_BUFFER_SIZE /\ left \in Int
        /\ left >= 0 => q.room = left
        /\ \A n \in DOMAIN box \ q.held : GetType(box[n]) = PUBLISH => \A i \in q.held : i > n
    BY DEF Kept
  <2>4. left - f \in Int /\ ~(left - f >= 0)
    BY <1>1, <1>3, <2>3
  <2>5. \A n \in 1..N+1 : n = N + 1 \/ (n \in 1..N /\ n < N + 1)
    BY <2>1
  <2>6. ASSUME NEW k \in 0..N+1, NEW r \in Rooms,
               x = [held |-> {i \in q.held : i > k} \cup {N + 1}, room |-> r]
        PROVE  Kept(more, x, left - f)
    <3>1. x.held = {i \in q.held : i > k} \cup {N + 1} /\ x.room = r
      BY <2>6
    <3>2. x \in [held : SUBSET (1..N+1), room : 0..QUEUE_BUFFER_SIZE]
      <4>1. {i \in q.held : i > k} \cup {N + 1} \subseteq 1..N+1
        BY <2>1, <2>3
      <4>2. r \in 0..QUEUE_BUFFER_SIZE
        BY QueueAssumption
      <4> QED
        BY <2>6, <4>1, <4>2
    <3>3. ASSUME NEW n \in DOMAIN more \ x.held, GetType(more[n]) = PUBLISH, NEW i \in x.held
          PROVE  i > n
      <4>1. n \in 1..N /\ more[n] = box[n] /\ n < N + 1 /\ ~(n \in q.held /\ n > k)
        BY <2>1, <2>5, <3>1, <3>3
      <4>2. i = N + 1 \/ (i \in q.held /\ i > k)
        BY <3>1
      <4>3. i \in Int /\ n \in Int /\ k \in Int
        BY <2>1, <2>3, <3>1, <4>1, <4>2
      <4>4. n \notin q.held => \A j \in q.held : j > n
        BY <2>1, <2>3, <3>3, <4>1
      <4> QED
        BY <4>1, <4>2, <4>3, <4>4
    <3> QED
      BY <2>1, <2>4, <3>2, <3>3 DEF Kept
  <2>7. ASSUME x = [held |-> {}, room |-> QUEUE_BUFFER_SIZE]
        PROVE  Kept(more, x, left - f)
    <3>1. x.held = {} /\ x.room = QUEUE_BUFFER_SIZE
      BY <2>7
    <3>2. QUEUE_BUFFER_SIZE \in 0..QUEUE_BUFFER_SIZE
      BY QueueAssumption
    <3>3. x \in [held : SUBSET DOMAIN more, room : 0..QUEUE_BUFFER_SIZE]
      BY <2>7, <3>2
    <3> QED
      BY <2>4, <3>1, <3>3 DEF Kept
  <2>8. Kept(more, x, left - f)
    BY <2>2, <2>6, <2>7
  <2> QED
    BY <2>8 DEF more, f
<1> QED
  BY <1>2, <1>3

(* What acknowledges a packet is no publication.                           *)
LEMMA AckNotPublish ==
  ASSUME NEW b \in Seq(Bytes8)
  PROVE  Ack(b) = <<>> \/ GetType(Ack(b)) # PUBLISH
<1>1. PICK id \in Words : Ack(b) \in {AckMsg(PUBACK, id), AckMsg(PUBREC, id), AckMsg(PUBREL, id),
                                     AckMsg(PUBCOMP, id), PingMsg(PINGRESP), <<>>}
  BY AckIs
<1>2. \A type \in AckTypes : GetType(AckMsg(type, id)) # PUBLISH
  <2> TAKE type \in AckTypes
  <2>1. AckMsg(type, id) \in Seq(Bytes8) /\ Starts(AckMsg(type, id), AckMsg(type, id))
    <3> DEFINE body == IdBytes(id)
               k == IF type = PUBREL THEN 1 ELSE 0
    <3>1. AckMsg(type, id) = Message(type, k, body)
      BY DEF AckMsg
    <3>2. body \in Seq(Bytes8) /\ Len(body) = 2
      BY IdsAreBytes
    <3>3. type \in 0..15
      BY DEF AckTypes, PUBACK, PUBREC, PUBREL, PUBCOMP
    <3>4. k \in 0..3
      BY DEF PUBREL
    <3> HIDE DEF body, k, Bytes8
    <3>5. Len(body) <= 2
      BY <3>2
    <3> QED
      BY <3>1, <3>2, <3>3, <3>4, <3>5, AcksFit
  <2> DEFINE a == AckMsg(type, id)
             n == Len(a)
  <2>2. n \in Nat /\ n <= n
    <3>1. a \in Seq(Bytes8)
      BY <2>1
    <3> HIDE DEF a
    <3>2. n \in Nat
      BY <3>1
    <3> HIDE DEF n
    <3> QED
      BY <3>2
  <2>3. GetType(a) = type /\ type # PUBLISH
    <3> HIDE DEF Bytes8
    <3> QED
      BY <2>1, <2>2, AckRead
  <2> QED
    BY <2>3
<1>3. GetType(PingMsg(PINGRESP)) # PUBLISH
  <2> DEFINE m == Message(PINGRESP, 0, <<>>)
             n == Len(m)
  <2>1. PINGRESP \in 0..15 /\ 0 \in 0..3 /\ <<>> \in Seq(Bytes8) /\ Len(<<>>) <= 2
        /\ PINGRESP # PUBLISH
    BY DEF PINGRESP, PUBLISH
  <2>2. Fits(<<>>) /\ m \in Seq(Bytes8) /\ Starts(m, m)
    <3> HIDE DEF Bytes8
    <3> QED
      BY <2>1, AcksFit
  <2>3. n \in Nat /\ n <= n
    <3> HIDE DEF m
    <3>1. n \in Nat
      BY <2>2
    <3> HIDE DEF n
    <3> QED
      BY <3>1
  <2>4. GetType(m) = PINGRESP
    <3> HIDE DEF Bytes8
    <3> QED
      BY <2>1, <2>2, <2>3, MessageRead
  <2> QED
    BY <2>1, <2>4 DEF PingMsg
<1> QED
  BY <1>1, <1>2, <1>3 DEF AckTypes

LEMMA ReadPacketKept ==
  ASSUME IInv, Kept(made, msgQueue, spare),
         NEW b \in Seq(Bytes8), NEW m \in Seq(Bytes8), Makes(b, m)
  PROVE  Kept(made, msgQueue, spare)'
<1> DEFINE a == Ack(b)
           acked == More(made, a)
           q == Answered(msgQueue, Len(acked), a)
           f == FrameLength(a)
           g == FrameLength(m)
<1>1. IsMsg(a) /\ IsBox(made)
  BY AckIsMsg, TypeIs DEF IInv
<1>2. a \in Seq(Bytes8) /\ made \in Seq(Seq(Bytes8)) /\ acked \in Seq(Seq(Bytes8))
  BY <1>1, MoreBox DEF IsMsg, IsBox
<1>3. a = <<>> \/ GetType(a) # PUBLISH
  BY AckNotPublish
<1>4. Kept(acked, q, spare - f)
  BY <1>2, <1>3, AnsweredKept
<1>5. made' = More(acked, m) /\ msgQueue' \in Published(q, Len(More(acked, m)), m)
      /\ spare' = (spare - f) - g
  BY DEF Makes
<1> HIDE DEF a, acked, q, f
<1>6. Kept(More(acked, m), msgQueue', (spare - f) - g)
  BY <1>2, <1>4, <1>5, PublishedKept
<1>7. Kept(made', msgQueue', spare')
  BY <1>5, <1>6
<1> QED
  BY <1>7 DEF Kept

LEMMA KeptInit == Init => Kept(made, msgQueue, spare)
<1> SUFFICES ASSUME Init PROVE Kept(made, msgQueue, spare)
  OBVIOUS
<1>1. /\ made = <<>> /\ spare = QUEUE_BUFFER_SIZE
      /\ msgQueue = [held |-> {}, room |-> QUEUE_BUFFER_SIZE]
  BY DEF Init
<1>2. DOMAIN <<>> = {}
  OBVIOUS
<1> QED
  BY <1>1, <1>2, QueueAssumption DEF Kept

LEMMA KeptArrive == Arrive => Kept(made, msgQueue, spare)'
<1> SUFFICES ASSUME Arrive PROVE Kept(made, msgQueue, spare)'
  OBVIOUS
<1>1. PICK n \in Rooms : msgQueue' = [held |-> {}, room |-> n] /\ spare' = n
  BY DEF Arrive
<1>2. made' = <<>>
  BY DEF Arrive
<1>3. DOMAIN <<>> = {} /\ n \in 0..QUEUE_BUFFER_SIZE
  BY QueueAssumption
<1> QED
  BY <1>1, <1>2, <1>3, QueueAssumption DEF Kept

THEOREM IInvHolds == Spec => []IInv
<1>1. Init => IInv
  BY InitInv
<1>2. IInv /\ [Next]_vars => IInv'
  <2> SUFFICES ASSUME IInv, [Next]_vars PROVE IInv'
    OBVIOUS
  <2>1. CASE Arrive
    BY <2>1, ArriveInv DEF IInv
  <2>2. CASE ReadPacket
    BY <2>2, ReadPacketInv
  <2>3. CASE TooLong
    BY <2>3, TooLongInv
  <2>4. CASE UNCHANGED vars
    BY <2>4, StutterInv
  <2> QED
    BY <2>1, <2>2, <2>3, <2>4 DEF Next
<1> QED
  BY <1>1, <1>2, PTL DEF Spec

LEMMA KeptHolds == Spec => []Kept(made, msgQueue, spare)
<1>1. Init => Kept(made, msgQueue, spare)
  BY KeptInit
<1>2. IInv /\ Kept(made, msgQueue, spare) /\ [Next]_vars => Kept(made, msgQueue, spare)'
  <2> SUFFICES ASSUME IInv, Kept(made, msgQueue, spare), [Next]_vars
               PROVE  Kept(made, msgQueue, spare)'
    OBVIOUS
  <2>1. CASE Arrive
    BY <2>1, KeptArrive
  <2>2. CASE ReadPacket
    BY <2>2, ReadPacketInv, ReadPacketKept
  <2>3. CASE TooLong
    BY <2>3 DEF TooLong, Kept
  <2>4. CASE UNCHANGED vars
    BY <2>4 DEF vars, Kept
  <2> QED
    BY <2>1, <2>2, <2>3, <2>4 DEF Next
<1> QED
  BY <1>1, <1>2, IInvHolds, PTL DEF Spec

(* Whatever the broker sends, in_buffer holds bytes and keeps one in       *)
(* reserve, each message that mqtt_tcpclient_recv and its callbacks make   *)
(* fits out_buffer, and the queue holds no more than its bytes.            *)
THEOREM TypeCorrect == Spec => []TypeOK
<1>1. IInv /\ Kept(made, msgQueue, spare) => TypeOK
  BY DEF IInv, Types, TypeOK, Kept
<1> QED
  BY <1>1, IInvHolds, KeptHolds, PTL

(* Whatever is left in in_buffer and whatever follows in the segment, the  *)
(* commands that mqtt_data_trans_to_mcu carries out are those sent, each   *)
(* once, in order and with their parameters, for all frames, texts and     *)
(* topics.                                                                 *)
THEOREM CommandsDoneAsSent == Spec => []DoneAsSent
<1>1. IInv => DoneAsSent
  BY DoneFollows
<1> QED
  BY <1>1, IInvHolds, PTL

(* The messages that mqtt_tcpclient_recv and mcu_proc make for a segment   *)
(* whose commands have their parameters read, to a broker that decodes     *)
(* them, as the acknowledgements, the replies and the states that are due, *)
(* in their order and no others, and the relay is left in the state that   *)
(* they ask for: for all frames, names and topics that fit.                *)
THEOREM AnswersAreRead == Spec => []AnswersRead
<1>1. IInv => AnswersRead
  BY AnswersFollow
<1> QED
  BY <1>1, IInvHolds, PTL

(* Whatever room the queue has when a segment comes and however often it   *)
(* gets full, mqtt_tcpclient_recv and MQTT_Publish lose no message made for*)
(* it while there is room for all, and a state or a reply only with all    *)
(* that is older: for all lengths of the queue and of the messages.        *)
THEOREM AnswersStayQueued == Spec => []AnswersQueued
<1>1. Kept(made, msgQueue, spare) => AnswersQueued
  BY DEF Kept, AnswersQueued
<1> QED
  BY <1>1, KeptHolds, PTL
=============================================================================
