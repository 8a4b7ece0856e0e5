------------------------------ MODULE HxFrame ------------------------------
(***************************************************************************)
(* The frames of the hx-net protocol that carry commands and states (app/  *)
(* user/hxnet-protocol.c, hx-crc.h), and the hexadecimal text in which MQTT*)
(* carries the frames (sbufhex.c).                                         *)
(*                                                                         *)
(*   0xAA  flag 0x00  length  parameters  (0xBA | 0xBB crc16)              *)
(*                                                                         *)
(* Bytes and characters are numbers, a buffer is a sequence of them, and   *)
(* the C code's offset i is the element i + 1.                             *)
(***************************************************************************)
EXTENDS Integers, Sequences, SequencesExt

(* The byte at an offset; what lies behind the buffer has been cleared.    *)
ByteAt(s, i) == IF i < Len(s) THEN s[i + 1] ELSE 0

From(s, i) == SubSeq(s, i + 1, Len(s))

-----------------------------------------------------------------------------
(* C's | for bytes and ^ for 16 bits, bit by bit; k is a power of two.     *)
Bit(n, k) == (n \div k) % 2

Or(a, b) ==
  LET Digit(k) == IF Bit(a, k) + Bit(b, k) > 0 THEN k ELSE 0
  IN  Digit(1) + Digit(2) + Digit(4) + Digit(8) + Digit(16) + Digit(32) + Digit(64) + Digit(128)

Xor(a, b) ==
  LET Digit(k) == IF Bit(a, k) # Bit(b, k) THEN k ELSE 0
  IN  (Digit(1) + Digit(2) + Digit(4) + Digit(8) + Digit(16) + Digit(32) + Digit(64) + Digit(128))
      + (Digit(256) + Digit(512) + Digit(1024) + Digit(2048)
         + Digit(4096) + Digit(8192) + Digit(16384) + Digit(32768))

-----------------------------------------------------------------------------
(* hx-crc.h.  The table has the remainders of x^16 + x^12 + x^5 + 1.       *)
Remainder(c) == IF c >= 2^15 THEN Xor((2 * c) % 2^16, 4129) ELSE 2 * c

hxmcu_crc_ta_8 ==
  [i \in 0..255 |-> FoldLeft(LAMBDA c, k : Remainder(c), i * 256, <<1, 2, 3, 4, 5, 6, 7, 8>>)]

CrcStep(crc, b) == Xor((crc * 256) % 2^16, hxmcu_crc_ta_8[Xor(crc \div 256, b)])

(* The length is an unsigned char: of a longer frame only a part counts.   *)
hxCRC16(s) ==
  LET CrcTo[n \in 0..Len(s) % 256] == IF n = 0 THEN 0 ELSE CrcStep(CrcTo[n - 1], s[n])
  IN  CrcTo[Len(s) % 256]

-----------------------------------------------------------------------------
LengthField(n) == IF n < 255 THEN <<n>> ELSE <<255, n % 256, (n \div 256) % 256>>

(* hxNetCreateFrame                                                        *)
CreateFrame(flag, parm, crc) ==
  LET body == <<170>> \o flag \o <<0>> \o LengthField(Len(parm)) \o parm
      sum  == hxCRC16(Append(body, 187))
  IN  IF Len(flag) > 255 THEN <<>>
      ELSE IF crc THEN body \o <<187, sum % 256, sum \div 256>> ELSE Append(body, 186)

Cut(n) == [n |-> n, ok |-> FALSE]

(* Where the parameters begin, behind the 0 that ends the flag.            *)
ParmStart(cache, flagEnd) == flagEnd + (IF ByteAt(cache, flagEnd + 1) = 255 THEN 4 ELSE 2)

ParmLen(cache, flagEnd) ==
  IF ByteAt(cache, flagEnd + 1) = 255
  THEN ByteAt(cache, flagEnd + 2) + 256 * ByteAt(cache, flagEnd + 3)
  ELSE ByteAt(cache, flagEnd + 1)

(* hxNetGetFrame: n, what it returns, is the number of bytes to throw away,*)
(* and parameter the offset of the parameters.                             *)
GetFrame(cache) ==
  LET len     == Len(cache)
      heads   == {i \in 0..(len - 1) : ByteAt(cache, i) = 170}
      zeros   == {i \in 1..(len - 1) : ByteAt(cache, i) = 0}
      flagEnd == Min(zeros)
      start   == ParmStart(cache, flagEnd)
      end     == start + ParmLen(cache, flagEnd)
      mark    == ByteAt(cache, end)
      sum     == ByteAt(cache, end + 1) + 256 * ByteAt(cache, end + 2)
  IN  IF len < 4 THEN Cut(0)
      ELSE IF heads = {} THEN Cut(len)
      ELSE IF Min(heads) > 0 THEN Cut(Min(heads))
      ELSE IF zeros = {} THEN Cut(1)
      ELSE IF len < end + 1 THEN Cut(0)
      ELSE IF mark \notin {186, 187} THEN Cut(1)
      ELSE IF mark = 187 /\ sum # hxCRC16(SubSeq(cache, 1, end + 1)) THEN Cut(1)
      ELSE [n  |-> IF mark = 187 THEN end + 3 ELSE end + 1,
            ok |-> TRUE,
            flag |-> SubSeq(cache, 2, flagEnd), parameter |-> start,
            parameter_len |-> end - start]

-----------------------------------------------------------------------------
(* sbufhex.c, in ASCII: 48 is '0', 65 'A', 97 'a'.                         *)

HexDigit(d) == IF d < 10 THEN 48 + d ELSE 55 + d

(* sbufEncode                                                              *)
sbufEncode(s) ==
  [i \in 1..2 * Len(s) |->
    IF i % 2 = 1 THEN HexDigit(s[(i + 1) \div 2] \div 16) ELSE HexDigit(s[i \div 2] % 16)]

Upper(c) == IF c \in 97..122 THEN c - 32 ELSE c

(* Any other character gives some byte or other.                           *)
DigitValue(c) == (IF c \in 65..70 THEN c - 55 ELSE c - 48) % 256

(* The first loop of sbufDecode: capitals, in place, up to the first 0.    *)
Capitals(src) ==
  LET zeros == {i \in DOMAIN src : src[i] = 0}
      stop  == IF zeros = {} THEN Len(src) + 1 ELSE Min(zeros)
  IN  [i \in DOMAIN src |-> IF i < stop THEN Upper(src[i]) ELSE src[i]]

(* sbufDecode, which takes no length: it stops at a 0 at an even offset.   *)
sbufDecode(src) ==
  LET s     == Capitals(src)
      stops == {i \in 0..Len(s) : i % 2 = 0 /\ ByteAt(s, i) = 0} \cup {Len(s) + (Len(s) % 2)}
  IN  [k \in 1..(Min(stops) \div 2) |->
         Or((16 * DigitValue(ByteAt(s, 2*k - 2))) % 256, DigitValue(ByteAt(s, 2*k - 1)))]
=============================================================================
