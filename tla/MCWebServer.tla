---------------------------- MODULE MCWebServer ----------------------------
(* An instance of WebServer: two connections, every kind of page, and one  *)
(* request that may come in two segments; and texts of up to three         *)
(* characters for UrlText, of those that matter to it and two that do not. *)
EXTENDS WebServer, UrlText

CONSTANTS c1, c2

Browsed ==
  {<<"index", 0>>, <<"save", 1>>, <<"config", 0>>, <<"cfg", 0>>, <<"save-sta", 0>>,
   <<"favicon", 0>>, <<"missing", 0>>}

OneCut == {<<<<"index", 0>>, 1>>}

Alphabet == {Plus, Percent, Amp, Equals, Mark, Blank, 50, 70, 228}
Texts(n) == UNION {[1..k -> Alphabet] : k \in 0..n}
Longer  == Texts(3)
Shorter == Texts(1)
Befores == {<<>>, <<Plus>>, <<Mark, 70>>}

(* What is typed into a form is what the settings have in the end, however *)
(* the browser, the splitting of the URL at its marks and the decoding of  *)
(* save.htm's fields take it apart and put it together.  The server's state*)
(* has no part in this, so the initial one stands for all.                 *)
SavedAsTyped ==
  Init => \A text \in Typed, other \in TypedToo, ssid, passwd \in Stored :
            SavesAsTyped(text, other, ssid, passwd)
=============================================================================
