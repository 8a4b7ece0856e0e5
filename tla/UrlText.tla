------------------------------ MODULE UrlText ------------------------------
(***************************************************************************)
(* The way of a text from a field of a form to the settings: the browser's *)
(* encoding, the splitting of the URL (urlSplit, urlGetParameter in app/   *)
(* user/http_serv.c), the decoding (urldecode in urlcode.c), and the fields*)
(* that save.htm and save-sta.json take over (webPageAP.c).                *)
(*                                                                         *)
(* Characters are their ASCII codes, texts are sequences of them.  Of the  *)
(* settings there are the first two arrays of characters, sta_ssid and     *)
(* sta_passwd, one behind the other as in data_struct.h.                   *)
(***************************************************************************)
EXTENDS Integers, Sequences, SequencesExt

CONSTANTS
  Typed,     \* texts that are typed into a field
  TypedToo,  \* those for the other field of the form
  Stored,    \* and those stored before
  SsidSize,  \* the lengths of the two arrays, 48
  PwdSize    \*                            and 32

Char == 1..255

ParmMax == 2048   \* the longest parameter string that urlGetParameter takes

ASSUME TextsAssumption ==
  /\ Typed \cup TypedToo \cup Stored \subseteq Seq(Char)
  /\ SsidSize \in Nat \ {0} /\ PwdSize \in Nat \ {0}
  /\ SsidSize + PwdSize <= ParmMax - 16

Plus == 43   Percent == 37   Amp == 38   Equals == 61   Mark == 63   Blank == 32

-----------------------------------------------------------------------------
(* The browser (external): the URL for a form with these fields.           *)

HexDigit(d) == IF d < 10 THEN 48 + d ELSE 55 + d

Unreserved == (48..57) \cup (65..90) \cup (97..122) \cup {45, 46, 95, 42}

EncodedChar(c) ==
  CASE c = Blank        -> <<Plus>>
    [] c \in Unreserved -> <<c>>
    [] OTHER            -> <<Percent, HexDigit(c \div 16), HexDigit(c % 16)>>

FormEncode(text) == FlattenSeq([i \in DOMAIN text |-> EncodedChar(text[i])])

FormParm(first, text, second, other) ==
  (first \o <<Equals>> \o FormEncode(text)) \o <<Amp>> \o (second \o <<Equals>> \o FormEncode(other))

FormUrl(page, parm) == page \o <<Mark>> \o parm

-----------------------------------------------------------------------------
(* What is before the first character c, and what is behind it.            *)
Before(s, c) == SubSeq(s, 1, Min({i \in DOMAIN s : s[i] = c} \cup {Len(s) + 1}) - 1)
Behind(s, c) == SubSeq(s, Len(Before(s, c)) + 2, Len(s))

(* urlSplit                                                                *)
urlSplit(url) == [file |-> Before(url, Mark), parm |-> Behind(url, Mark)]

(* strtok_r, character by character: the runs of others than c so far.     *)
Extended(runs, s, c, n) ==
  IF s[n] = c THEN runs
  ELSE IF n = 1 \/ s[n - 1] = c THEN Append(runs, <<s[n]>>)
  ELSE [runs EXCEPT ![Len(runs)] = Append(@, s[n])]

Tokens(s, c) ==
  LET RunsTo[n \in 0..Len(s)] == IF n = 0 THEN <<>> ELSE Extended(RunsTo[n - 1], s, c, n)
  IN  RunsTo[Len(s)]

(* The memory of the settings: arrays of characters, one behind the other. *)
(* strcpy writes a text and the 0 behind it, and what is read at a place   *)
(* ends before the next 0.                                                 *)
strcpy(mem, at, text) ==
  [i \in DOMAIN mem |->
    IF i \in at..at + Len(text) - 1 THEN text[i - at + 1]
    ELSE IF i = at + Len(text) THEN 0 ELSE mem[i]]

TextAt(mem, at) == SubSeq(mem, at, Min({i \in at..Len(mem) : mem[i] = 0} \cup {Len(mem) + 1}) - 1)

(* urlGetParameter: the memory stays as it is where the parameter is not   *)
(* found, or has nothing behind the =, or the string is too long.          *)
urlGetParameter(str, parameter, mem, at) ==
  LET pairs == [i \in DOMAIN Tokens(str, Amp) |-> Tokens(Tokens(str, Amp)[i], Equals)]
      hits  == {i \in DOMAIN pairs : pairs[i][1] = parameter}
  IN  IF Len(str) <= ParmMax /\ hits # {} /\ Len(pairs[Min(hits)]) > 1
      THEN strcpy(mem, at, pairs[Min(hits)][2]) ELSE mem

IsXDigit(c) == c \in (48..57) \cup (65..70) \cup (97..102)

DigitOf(c) ==
  CASE c \in 48..57 -> c - 48
    [] c \in 65..70 -> c - 55
    [] OTHER        -> c - 87

(* Faulty: a + is left as it is.                                           *)
UnescapedPlus(c) == c

Unescaped(c) == IF c = Plus THEN Blank ELSE c

(* urldecode: a % and two hexadecimal digits, or one character, at a time; *)
(* skip is what is left of the digits.                                     *)
IsEscape(str, n) ==
  str[n] = Percent /\ n + 2 <= Len(str) /\ IsXDigit(str[n + 1]) /\ IsXDigit(str[n + 2])

Decoded(done, str, n) ==
  IF done.skip > 0 THEN [done EXCEPT !.skip = @ - 1]
  ELSE IF IsEscape(str, n)
       THEN [text |-> Append(done.text, 16 * DigitOf(str[n + 1]) + DigitOf(str[n + 2])), skip |-> 2]
       ELSE [text |-> Append(done.text, Unescaped(str[n])), skip |-> 0]

urldecode(str) ==
  LET DecodeTo[n \in 0..Len(str)] ==
        IF n = 0 THEN [text |-> <<>>, skip |-> 0] ELSE Decoded(DecodeTo[n - 1], str, n)
  IN  DecodeTo[Len(str)].text

(* It works in place.                                                      *)
DecodedAt(mem, at) == strcpy(mem, at, urldecode(TextAt(mem, at)))

-----------------------------------------------------------------------------
Ssid == <<115, 115, 105, 100>>      \* "ssid"
Pwd  == <<112, 119, 100>>           \* "pwd", for "wifipwd"
Save == <<47, 115>>                 \* "/s", for "/save.htm"

sta_ssid   == 1
sta_passwd == SsidSize + 1

(* The settings that the flash has, with these two texts in them.          *)
StoredInfo(ssid, passwd) ==
  strcpy(strcpy([i \in 1..SsidSize + PwdSize |-> 0], sta_ssid, ssid), sta_passwd, passwd)

(* The fields as save.htm and save-sta.json leave them: each is decoded,   *)
(* whether the URL has given it or it is the one stored before.            *)
Saved(parm, info) ==
  LET given == urlGetParameter(parm, Pwd,
                               urlGetParameter(parm, Ssid, info, sta_ssid), sta_passwd)
  IN  DecodedAt(DecodedAt(given, sta_ssid), sta_passwd)

-----------------------------------------------------------------------------
IsPlain(text) == \A i \in DOMAIN text : text[i] \notin {Plus, Percent}

(* A field's array takes the text and its 0; of a text that is typed, in   *)
(* the browser's encoding, for it is decoded where it lies.                *)
FieldsFit(text, other) == Len(FormEncode(text)) < SsidSize /\ Len(FormEncode(other)) < PwdSize
StoredFit(ssid, passwd) == Len(ssid) < SsidSize /\ Len(passwd) < PwdSize

(* A form is saved as it was typed: each field that was filled in, whatever*)
(* is in it and in its neighbour; a field left empty keeps the stored text,*)
(* as long as there is nothing in it that can be decoded again.            *)
SavesAsTyped(text, other, ssid, passwd) ==
  LET url  == urlSplit(FormUrl(Save, FormParm(Ssid, text, Pwd, other)))
      info == Saved(url.parm, StoredInfo(ssid, passwd))
      Becomes(at, new, stored) == IF new # <<>> THEN TextAt(info, at) = new
                                  ELSE IsPlain(stored) => TextAt(info, at) = stored
  IN  /\ url.file = Save
      /\ FieldsFit(text, other) /\ StoredFit(ssid, passwd) =>
           Becomes(sta_ssid, text, ssid) /\ Becomes(sta_passwd, other, passwd)
=============================================================================
