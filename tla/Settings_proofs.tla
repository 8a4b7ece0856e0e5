-------------------------- MODULE Settings_proofs ---------------------------
(***************************************************************************)
(* Proofs about the settings: the normal work mode runs on nothing that    *)
(* was entered under another JSON, nor, unless a write fails, on what an   *)
(* erased sector reads as.                                                 *)
(***************************************************************************)
EXTENDS Settings, SequenceTheorems, TLAPS

(* What a handler may still have to do: to rewrite a sector, or DevConfig  *)
(* and then UserFix, or what is left of that.                              *)
Sectors == {"json", "dev", "fix"}
Last(s) == <<<<"write", s>>>>
Reset == Rewrite("dev") \o Rewrite("fix")
ResetErased == Last("dev") \o Rewrite("fix")
Todos == {<<>>, Last("fix"), Rewrite("fix"), Last("json"), Rewrite("json"),
          Reset, ResetErased}

(* Taking the first element off two sequences put together.                *)
LEMMA ConcatHeadTail ==
  ASSUME NEW S, NEW s \in Seq(S), NEW t \in Seq(S), s # <<>>
  PROVE  /\ Len(s \o t) = Len(s) + Len(t)
         /\ Head(s \o t) = Head(s)
         /\ Tail(s \o t) = Tail(s) \o t
<1> DEFINE u == s \o t
<1>1. /\ u \in Seq(S) /\ Len(u) = Len(s) + Len(t) /\ Len(s) \in Nat \ {0} /\ Len(t) \in Nat
      /\ \A i \in 1..Len(u) : u[i] = IF i <= Len(s) THEN s[i] ELSE t[i - Len(s)]
  BY ConcatProperties, EmptySeq, LenProperties
<1>2. u # <<>>
  BY <1>1, EmptySeq
<1>3. Head(u) = u[1] /\ Head(s) = s[1]
  OBVIOUS
<1>4. /\ Tail(u) \in Seq(S) /\ Len(Tail(u)) = Len(u) - 1
      /\ \A i \in 1..Len(Tail(u)) : Tail(u)[i] = u[i + 1]
  BY <1>1, <1>2, HeadTailProperties
<1>5. /\ Tail(s) \in Seq(S) /\ Len(Tail(s)) = Len(s) - 1
      /\ \A i \in 1..Len(Tail(s)) : Tail(s)[i] = s[i + 1]
  BY HeadTailProperties
<1>6. /\ Tail(s) \o t \in Seq(S) /\ Len(Tail(s) \o t) = Len(Tail(s)) + Len(t)
      /\ \A i \in 1..Len(Tail(s)) + Len(t) :
           (Tail(s) \o t)[i] = IF i <= Len(Tail(s)) THEN Tail(s)[i] ELSE t[i - Len(Tail(s))]
  BY <1>5, ConcatProperties
<1>7. ASSUME NEW i \in 1..Len(Tail(u)) PROVE Tail(u)[i] = (Tail(s) \o t)[i]
  <2>1. i + 1 \in 1..Len(u) /\ Tail(u)[i] = u[i + 1]
    BY <1>1, <1>4
  <2>2. CASE i <= Len(Tail(s))
    BY <1>1, <1>4, <1>5, <1>6, <2>1, <2>2
  <2>3. CASE i > Len(Tail(s))
    <3>1. u[i + 1] = t[i + 1 - Len(s)]
      BY <1>1, <1>5, <2>1, <2>3
    <3>2. (Tail(s) \o t)[i] = t[i - Len(Tail(s))]
      BY <1>1, <1>4, <1>5, <1>6, <2>3
    <3>3. i - Len(Tail(s)) = i + 1 - Len(s)
      BY <1>1, <1>5
    <3> QED
      BY <2>1, <3>1, <3>2, <3>3
  <2> QED
    BY <1>5, <1>1, <2>2, <2>3
<1>8. Tail(u) = Tail(s) \o t
  <2> HIDE DEF u
  <2>1. Len(Tail(u)) = Len(Tail(s) \o t)
    BY <1>1, <1>4, <1>5, <1>6
  <2> QED
    BY <1>4, <1>6, <1>7, <2>1, SeqEqual
<1>9. Head(u) = Head(s)
  BY <1>1, <1>3
<1> QED
  BY <1>1, <1>8, <1>9

(* Length, first and remaining elements of each of them.                   *)
LEMMA Forms ==
  /\ \A s \in Sectors : /\ Len(Last(s)) = 1 /\ Head(Last(s)) = <<"write", s>>
                        /\ Len(Rewrite(s)) = 2 /\ Head(Rewrite(s)) = <<"erase", s>>
                        /\ Tail(Rewrite(s)) = Last(s)
  /\ Len(Reset) = 4 /\ Head(Reset) = <<"erase", "dev">> /\ Tail(Reset) = ResetErased
  /\ Len(ResetErased) = 3 /\ Head(ResetErased) = <<"write", "dev">>
  /\ Tail(ResetErased) = Rewrite("fix")
<1> DEFINE Op == {"erase", "write"} \X Sectors
<1>1. ASSUME NEW s \in Sectors
      PROVE /\ Rewrite(s) \in Seq(Op) /\ Last(s) \in Seq(Op)
            /\ Len(Last(s)) = 1 /\ Head(Last(s)) = <<"write", s>> /\ Tail(Last(s)) = <<>>
            /\ Len(Rewrite(s)) = 2 /\ Head(Rewrite(s)) = <<"erase", s>>
            /\ Tail(Rewrite(s)) = Last(s)
            /\ Last(s) # <<>> /\ Rewrite(s) # <<>>
  BY <1>1 DEF Rewrite, Last
<1> HIDE DEF Op
<1>2. "dev" \in Sectors /\ "fix" \in Sectors
  BY DEF Sectors
<1>3. Len(Reset) = 4 /\ Head(Reset) = <<"erase", "dev">> /\ Tail(Reset) = ResetErased
  <2>1. /\ Rewrite("dev") \in Seq(Op) /\ Rewrite("fix") \in Seq(Op) /\ Rewrite("dev") # <<>>
        /\ Len(Rewrite("dev")) = 2 /\ Len(Rewrite("fix")) = 2
        /\ Head(Rewrite("dev")) = <<"erase", "dev">> /\ Tail(Rewrite("dev")) = Last("dev")
    BY <1>1, <1>2
  <2>2. /\ Len(Reset) = Len(Rewrite("dev")) + Len(Rewrite("fix"))
        /\ Head(Reset) = Head(Rewrite("dev"))
        /\ Tail(Reset) = Tail(Rewrite("dev")) \o Rewrite("fix")
    BY <2>1, ConcatHeadTail, Zenon DEF Reset
  <2>3. Tail(Reset) = ResetErased
    BY <2>1, <2>2, Zenon DEF ResetErased
  <2>4. Len(Reset) = 4
    <3>1. Len(Reset) = 2 + 2
      BY <2>1, <2>2, Zenon
    <3> QED
      BY <3>1
  <2>5. Head(Reset) = <<"erase", "dev">>
    BY <2>1, <2>2, Zenon
  <2> QED
    BY <2>3, <2>4, <2>5, Zenon
<1>4. /\ Len(ResetErased) = 3 /\ Head(ResetErased) = <<"write", "dev">>
      /\ Tail(ResetErased) = <<>> \o Rewrite("fix")
  <2>1. /\ Last("dev") \in Seq(Op) /\ Rewrite("fix") \in Seq(Op) /\ Last("dev") # <<>>
        /\ Len(Last("dev")) = 1 /\ Len(Rewrite("fix")) = 2
        /\ Head(Last("dev")) = <<"write", "dev">> /\ Tail(Last("dev")) = <<>>
    BY <1>1, <1>2
  <2>2. /\ Len(ResetErased) = Len(Last("dev")) + Len(Rewrite("fix"))
        /\ Head(ResetErased) = Head(Last("dev"))
        /\ Tail(ResetErased) = Tail(Last("dev")) \o Rewrite("fix")
    BY <2>1, ConcatHeadTail, Zenon DEF ResetErased
  <2> QED
    BY <2>1, <2>2
<1>5. <<>> \o Rewrite("fix") = Rewrite("fix")
  BY <1>1, <1>2, ConcatEmptySeq
<1> QED
  BY <1>1, <1>3, <1>4, <1>5

(* What there may be to do differs by its length or its first sector.      *)
LEMMA Distinct ==
  /\ \A s, t \in Sectors : /\ Last(s) # <<>> /\ Rewrite(s) # <<>> /\ Last(s) # Rewrite(t)
                           /\ Last(s) = Last(t) => s = t
                           /\ Rewrite(s) = Rewrite(t) => s = t
                           /\ Reset # Last(s) /\ Reset # Rewrite(s)
                           /\ ResetErased # Last(s) /\ ResetErased # Rewrite(s)
  /\ Reset # <<>> /\ ResetErased # <<>> /\ Reset # ResetErased
<1>1. Len(<<>>) = 0
  OBVIOUS
<1>2. \A s \in Sectors : /\ Len(Last(s)) = 1 /\ Len(Rewrite(s)) = 2
                         /\ Head(Last(s)) = <<"write", s>>
                         /\ Head(Rewrite(s)) = <<"erase", s>>
  BY Forms
<1>3. Len(Reset) = 4 /\ Len(ResetErased) = 3
  BY Forms
<1>4. ASSUME NEW s \in Sectors, NEW t \in Sectors
      PROVE /\ Last(s) # <<>> /\ Rewrite(s) # <<>> /\ Last(s) # Rewrite(t)
            /\ Last(s) = Last(t) => s = t
            /\ Rewrite(s) = Rewrite(t) => s = t
            /\ Reset # Last(s) /\ Reset # Rewrite(s)
            /\ ResetErased # Last(s) /\ ResetErased # Rewrite(s)
  <2>1. /\ Len(Last(s)) = 1 /\ Len(Rewrite(s)) = 2 /\ Len(Rewrite(t)) = 2
        /\ Head(Last(s)) = <<"write", s>> /\ Head(Last(t)) = <<"write", t>>
        /\ Head(Rewrite(s)) = <<"erase", s>> /\ Head(Rewrite(t)) = <<"erase", t>>
    BY <1>2
  <2> QED
    BY <1>1, <1>3, <2>1
<1>5. Reset # <<>> /\ ResetErased # <<>> /\ Reset # ResetErased
  BY <1>1, <1>3
<1> QED
  BY <1>4, <1>5

(* An erasure that a handler has come to.                                  *)
LEMMA EraseCases ==
  ASSUME todo \in Todos, Erase
  PROVE  \/ /\ todo = Rewrite("fix") /\ todo' = Last("fix")
            /\ flash' = [flash EXCEPT !.fix = ErasedFix]
         \/ /\ todo = Rewrite("json") /\ todo' = Last("json")
            /\ flash' = [flash EXCEPT !.json = Bad]
         \/ /\ todo = Reset /\ todo' = ResetErased
            /\ flash' = [flash EXCEPT !.dev = NoCrc]
<1>1. {"json", "dev", "fix"} = Sectors
  BY DEF Sectors
<1>2. Blank.fix = ErasedFix /\ Blank.json = Bad /\ Blank.dev = NoCrc
  BY DEF Blank
<1>3. todo # <<>> /\ Head(todo)[1] = "erase" /\ todo' = Tail(todo)
  BY DEF Erase, Idle
<1>4. flash' = [flash EXCEPT ![Head(todo)[2]] = Blank[Head(todo)[2]]]
  BY DEF Erase
<1>5. CASE todo \in {Last("fix"), Last("json"), ResetErased}
  <2>1. Head(todo)[1] = "write"
    BY <1>1, <1>5, Forms
  <2> QED
    BY <1>3, <2>1
<1>6. CASE todo = Rewrite("fix")
  <2>1. Head(todo) = <<"erase", "fix">> /\ Tail(todo) = Last("fix")
    BY <1>1, <1>6, Forms
  <2>2. Head(todo)[2] = "fix" /\ Blank["fix"] = ErasedFix
    BY <1>2, <2>1
  <2>3. flash' = [flash EXCEPT !.fix = ErasedFix]
    BY <1>4, <2>2, Zenon
  <2> QED
    BY <1>3, <1>6, <2>1, <2>3, Zenon
<1>7. CASE todo = Rewrite("json")
  <2>1. Head(todo) = <<"erase", "json">> /\ Tail(todo) = Last("json")
    BY <1>1, <1>7, Forms
  <2>2. Head(todo)[2] = "json" /\ Blank["json"] = Bad
    BY <1>2, <2>1
  <2>3. flash' = [flash EXCEPT !.json = Bad]
    BY <1>4, <2>2, Zenon
  <2> QED
    BY <1>3, <1>7, <2>1, <2>3, Zenon
<1>8. CASE todo = Reset
  <2>1. Head(todo) = <<"erase", "dev">> /\ Tail(todo) = ResetErased
    BY <1>1, <1>8, Forms
  <2>2. Head(todo)[2] = "dev" /\ Blank["dev"] = NoCrc
    BY <1>2, <2>1
  <2>3. flash' = [flash EXCEPT !.dev = NoCrc]
    BY <1>4, <2>2, Zenon
  <2> QED
    BY <1>3, <1>8, <2>1, <2>3, Zenon
<1> QED
  BY <1>3, <1>5, <1>6, <1>7, <1>8 DEF Todos

(* A write that a handler has come to, the last one or not.                *)
LEMMA WriteCases ==
  ASSUME todo \in Todos, NEW ok \in BOOLEAN, Write(ok)
  PROVE  \/ /\ todo = ResetErased /\ todo' = Rewrite("fix")
            /\ flash' = IF ok THEN [flash EXCEPT !.dev = new.dev] ELSE flash
            /\ UNCHANGED <<phase, new, andThen, ram>> /\ spoilt' = spoilt
         \/ /\ todo = Last("fix") /\ End(ok)
            /\ flash' = IF ok THEN [flash EXCEPT !.fix = new.fix] ELSE flash
            /\ spoilt' = (~ok \/ (spoilt /\ new.fix # Factory))
         \/ /\ todo = Last("json") /\ End(ok)
            /\ flash' = IF ok THEN [flash EXCEPT !.json = new.json] ELSE flash
            /\ spoilt' = spoilt
<1>1. {"json", "dev", "fix"} = Sectors
  BY DEF Sectors
<1>2. todo # <<>> /\ Head(todo)[1] = "write"
  BY DEF Write, Idle
<1>3. flash' = IF ok THEN [flash EXCEPT ![Head(todo)[2]] = new[Head(todo)[2]]] ELSE flash
  BY DEF Write
<1>4. IF Len(todo) > 1 THEN todo' = Tail(todo) /\ UNCHANGED <<phase, new, andThen, ram>>
                       ELSE End(ok)
  BY DEF Write
<1>9. spoilt' = IF Head(todo)[2] = "fix" THEN ~ok \/ (spoilt /\ new.fix # Factory) ELSE spoilt
  BY Zenon DEF Write
<1>5. CASE todo \in {Rewrite("fix"), Rewrite("json"), Reset}
  <2>1. Head(todo)[1] = "erase"
    BY <1>1, <1>5, Forms
  <2> QED
    BY <1>2, <2>1
<1>6. CASE todo = Last("fix")
  <2>1. Head(todo) = <<"write", "fix">> /\ Len(todo) = 1
    BY <1>1, <1>6, Forms
  <2>2. Head(todo)[2] = "fix"
    BY <2>1
  <2>3. flash' = IF ok THEN [flash EXCEPT !.fix = new.fix] ELSE flash
    BY <1>3, <2>2, Zenon
  <2>4. ~(Len(todo) > 1)
    BY <2>1
  <2>5. spoilt' = (~ok \/ (spoilt /\ new.fix # Factory))
    BY <1>9, <2>2, Zenon
  <2> QED
    BY <1>4, <1>6, <2>1, <2>3, <2>4, <2>5, Zenon
<1>7. CASE todo = Last("json")
  <2>1. Head(todo) = <<"write", "json">> /\ Len(todo) = 1
    BY <1>1, <1>7, Forms
  <2>2. Head(todo)[2] = "json"
    BY <2>1
  <2>3. flash' = IF ok THEN [flash EXCEPT !.json = new.json] ELSE flash
    BY <1>3, <2>2, Zenon
  <2>4. ~(Len(todo) > 1)
    BY <2>1
  <2>5. spoilt' = spoilt
    BY <1>9, <2>2, Zenon
  <2> QED
    BY <1>4, <1>7, <2>1, <2>3, <2>4, <2>5, Zenon
<1>8. CASE todo = ResetErased
  <2>1. Head(todo) = <<"write", "dev">> /\ Len(todo) = 3 /\ Tail(todo) = Rewrite("fix")
    BY <1>1, <1>8, Forms
  <2>2. Head(todo)[2] = "dev"
    BY <2>1
  <2>3. flash' = IF ok THEN [flash EXCEPT !.dev = new.dev] ELSE flash
    BY <1>3, <2>2, Zenon
  <2>4. Len(todo) > 1
    BY <2>1
  <2>5. spoilt' = spoilt
    BY <1>9, <2>2, Zenon
  <2> QED
    BY <1>4, <1>8, <2>1, <2>3, <2>4, <2>5, Zenon
<1> QED
  BY <1>2, <1>5, <1>6, <1>7, <1>8 DEF Todos

-----------------------------------------------------------------------------
(* The invariant.                                                          *)

Types ==
  /\ phase \in {"Off", "Booting", "JsonErr", "Web", "Work", "NoRouter"}
  /\ flash \in Contents /\ new \in Contents
  /\ todo \in Todos
  /\ andThen \in {"Stay", "Restart", "Saved", "SavedSta", "SavedJson"}
  /\ texts \in 0..MaxJson /\ open \in 0..MaxOpen
  /\ armed \in 0..RestartTicks
  /\ {restartFlag, resetFlag, firstConfig, allowed, cut, failed, spoilt} \subseteq BOOLEAN

(* Nothing is served outside the modes with pages, and in the work mode    *)
(* the flash is only written before a restart.                             *)
Modal ==
  /\ phase = "Off" => todo = <<>>
  /\ phase \notin {"Web", "JsonErr"} => open = 0
  /\ phase = "Work" /\ todo # <<>> => andThen = "Restart"
  /\ phase = "Work" /\ todo = <<>> =>
       flash.dev = flash.json /\ flash.json # Bad /\ flash.fix.mode = "UWork"

(* Until a write of UserFix fails, a sector that reads as erased is erased *)
(* in its mode too, no mode with pages or a button sees one but while it   *)
(* rewrites it, and nothing of one is about to be written.                 *)
Sound(fix) == Garbage \notin {fix.ssid, fix.mqtt}
Fixing == {Last("fix"), Rewrite("fix"), Reset, ResetErased}

Clean ==
  ~spoilt =>
    /\ flash.fix.mode # "Erased" => Sound(flash.fix)
    /\ phase \in {"Web", "Work", "NoRouter"} /\ todo # Last("fix") => flash.fix.mode # "Erased"
    /\ todo \in Fixing => new.fix.mode # "Erased" /\ Sound(new.fix)

(* A factory reset writes what it has been begun with, and a JSON that is  *)
(* being saved is one that DevConfig does not vouch for yet.               *)
Pending ==
  /\ todo \in {Reset, ResetErased} => new.fix = Factory /\ new.dev = flash.json
  /\ todo \in {Last("json"), Rewrite("json")} =>
       new.json = Bad \/ (flash.dev < new.json /\ new.json <= texts)
  /\ flash.json <= texts /\ flash.dev <= texts

(* Where DevConfig vouches for the JSON, what UserFix has was entered under*)
(* it, or is about to be erased by a factory reset; and so is what is to be*)
(* written there.                                                          *)
Under(fix, text) == \A v \in {fix.ssid, fix.mqtt} : v \in {text, Empty, Garbage}

Match ==
  ~cut /\ flash.dev = flash.json /\ flash.json # Bad =>
    /\ ~(todo = Rewrite("fix") /\ new.fix = Factory) => Under(flash.fix, flash.json)
    /\ todo \in {Last("fix"), Rewrite("fix")} => Under(new.fix, flash.json)

IInv == Types /\ Modal /\ Clean /\ Pending /\ Match

(* What the rest of the proof knows of the work that may be left.          *)
LEMMA TodosDiffer ==
  /\ Reset \in Todos /\ ResetErased \in Todos /\ <<>> \in Todos
  /\ Last("fix") \in Todos /\ Rewrite("fix") \in Todos
  /\ Last("json") \in Todos /\ Rewrite("json") \in Todos
  /\ Last("fix") # <<>> /\ Rewrite("fix") # <<>> /\ Last("json") # <<>>
  /\ Rewrite("json") # <<>> /\ Reset # <<>> /\ ResetErased # <<>>
  /\ Last("fix") # Rewrite("fix") /\ Last("fix") # Last("json")
  /\ Last("fix") # Rewrite("json") /\ Rewrite("fix") # Last("json")
  /\ Rewrite("fix") # Rewrite("json")
  /\ Reset # Last("fix") /\ Reset # Rewrite("fix") /\ Reset # Last("json")
  /\ Reset # Rewrite("json") /\ Reset # ResetErased
  /\ ResetErased # Last("fix") /\ ResetErased # Rewrite("fix")
  /\ ResetErased # Last("json") /\ ResetErased # Rewrite("json")
<1>1. "fix" \in Sectors /\ "json" \in Sectors /\ "fix" # "json"
  BY DEF Sectors
<1>2. /\ Reset \in Todos /\ ResetErased \in Todos /\ <<>> \in Todos
      /\ Last("fix") \in Todos /\ Rewrite("fix") \in Todos
      /\ Last("json") \in Todos /\ Rewrite("json") \in Todos
  BY DEF Todos
<1> QED
  BY <1>1, <1>2, Distinct, Zenon

(* After a restart without a write.                                        *)
LEMMA DownKeeps ==
  ASSUME IInv, Down, flash' = flash, texts' = texts, failed' = failed, spoilt' = spoilt,
         cut' \in BOOLEAN,
         todo = Rewrite("fix") /\ new.fix = Factory => cut',
         ~cut' => ~cut
  PROVE  IInv'
<1> USE BoundsAssumption DEF IInv, Down
<1>1. Blank \in Contents
  BY DEF Blank, Contents, UserFix, ErasedFix, Modes, Fields, Bad, NoCrc, Garbage
<1>2. Types'
  <2>1. failed' \in BOOLEAN /\ spoilt' \in BOOLEAN
    BY Zenon DEF Types
  <2>2. {restartFlag, resetFlag, firstConfig, allowed, cut, failed, spoilt}' \subseteq BOOLEAN
    BY <2>1, Zenon
  <2>3. 0 \in 0..MaxOpen /\ armed' \in 0..RestartTicks
    BY TickAssumption
  <2> QED
    BY <1>1, <2>2, <2>3, TodosDiffer, Zenon DEF Types
<1>3. Modal'
  BY DEF Modal
<1>4. Clean'
  BY TodosDiffer DEF Clean, Sound, Fixing
<1>5. Pending'
  BY TodosDiffer DEF Pending
<1>6. Match'
  BY <1>1, TodosDiffer DEF Match, Under
<1> QED
  BY <1>2, <1>3, <1>4, <1>5, <1>6

(* Nothing that is in RAM changes when RAM as a whole does not.            *)
LEMMA RamUnchanged ==
  ASSUME UNCHANGED ram
  PROVE  /\ restartFlag' = restartFlag /\ resetFlag' = resetFlag
         /\ firstConfig' = firstConfig /\ armed' = armed /\ allowed' = allowed
BY DEF ram

(* The switches in RAM and the histories stay what they are.               *)
LEMMA Booleans ==
  ASSUME IInv, Next
  PROVE  /\ armed' \in 0..RestartTicks
         /\ {restartFlag, resetFlag, firstConfig, allowed, cut, failed, spoilt}' \subseteq BOOLEAN
<1>1. /\ restartFlag \in BOOLEAN /\ resetFlag \in BOOLEAN /\ firstConfig \in BOOLEAN
      /\ armed \in 0..RestartTicks /\ 0 \in 0..RestartTicks /\ allowed \in BOOLEAN
      /\ cut \in BOOLEAN /\ failed \in BOOLEAN /\ spoilt \in BOOLEAN
  <2>1. 0 \in 0..RestartTicks
    BY TickAssumption
  <2> QED
    BY <2>1, Zenon DEF IInv, Types
<1> USE Zenon DEF ram, ghosts, job, Down
<1> SUFFICES /\ restartFlag' \in BOOLEAN /\ resetFlag' \in BOOLEAN /\ firstConfig' \in BOOLEAN
             /\ armed' \in 0..RestartTicks /\ allowed' \in BOOLEAN
             /\ cut' \in BOOLEAN /\ failed' \in BOOLEAN /\ spoilt' \in BOOLEAN
  OBVIOUS
<1>2. CASE Boot
  BY <1>1, <1>2 DEF Boot
<1>3. CASE Erase
  BY <1>1, <1>3 DEF Erase
<1>4. ASSUME NEW ok \in BOOLEAN, Write(ok)
      PROVE  /\ restartFlag' \in BOOLEAN /\ resetFlag' \in BOOLEAN /\ firstConfig' \in BOOLEAN
             /\ armed' \in 0..RestartTicks /\ allowed' \in BOOLEAN
             /\ cut' \in BOOLEAN /\ failed' \in BOOLEAN /\ spoilt' \in BOOLEAN
  <2>1. cut' \in BOOLEAN /\ failed' \in BOOLEAN /\ spoilt' \in BOOLEAN
    BY <1>1, <1>4 DEF Write
  <2>2. \/ UNCHANGED ram
        \/ End(ok)
    BY <1>4 DEF Write
  <2>3. ASSUME End(ok)
        PROVE  /\ restartFlag' \in BOOLEAN /\ resetFlag' \in BOOLEAN
               /\ firstConfig' \in BOOLEAN /\ armed' \in 0..RestartTicks /\ allowed' \in BOOLEAN
    <3>1. andThen \in {"Stay", "Restart", "Saved", "SavedSta", "SavedJson"}
      BY DEF IInv, Types
    <3>2. CASE andThen = "Restart"
      BY <1>1, <2>3, <3>2 DEF End
    <3>3. CASE andThen = "Stay"
      <4>1. UNCHANGED ram
        BY <2>3, <3>3, SMT DEF End
      <4> QED
        BY <1>1, <4>1
    <3>4. CASE andThen \in {"Saved", "SavedSta"}
      <4>1. andThen # "Restart" /\ andThen # "Stay" /\ andThen # "SavedJson"
        BY <3>4, SMT
      <4>2. /\ restartFlag' = (restartFlag \/ ok \/ andThen = "SavedSta")
            /\ UNCHANGED <<resetFlag, firstConfig, armed, allowed>>
        BY <2>3, <3>4, <4>1 DEF End
      <4> QED
        BY <1>1, <4>2
    <3>5. CASE andThen = "SavedJson"
      <4>1. /\ resetFlag' = (resetFlag \/ ok)
            /\ UNCHANGED <<restartFlag, firstConfig, armed, allowed>>
        BY <2>3, <3>5, SMT DEF End
      <4> QED
        BY <1>1, <4>1
    <3> QED
      BY <3>1, <3>2, <3>3, <3>4, <3>5
  <2>4. CASE UNCHANGED ram
    <3>1. /\ restartFlag' = restartFlag /\ resetFlag' = resetFlag
          /\ firstConfig' = firstConfig /\ armed' = armed /\ allowed' = allowed
      BY <2>4, RamUnchanged
    <3>2. armed' \in 0..RestartTicks
      BY <1>1, <3>1
    <3>3. restartFlag' \in BOOLEAN /\ resetFlag' \in BOOLEAN
      BY <1>1, <3>1
    <3>4. firstConfig' \in BOOLEAN /\ allowed' \in BOOLEAN
      BY <1>1, <3>1
    <3> QED
      BY <2>1, <3>2, <3>3, <3>4
  <2>5. CASE End(ok)
    BY <2>1, <2>3, <2>5
  <2> QED
    BY <2>2, <2>4, <2>5
<1>5. CASE SaveHtm \/ SaveSta \/ SaveMqtt
  BY <1>1, <1>5 DEF SaveHtm, SaveSta, SaveMqtt, Save
<1>6. CASE ShowConfig \/ SaveJson \/ SaveJsonErr
  BY <1>1, <1>6 DEF ShowConfig, SaveJson, SaveJsonErr, NewJson
<1>7. CASE Connect \/ Disconnect \/ Break
  <2>1. RestartTicks \in 0..RestartTicks
    BY TickAssumption, SMT
  <2> QED
    BY <1>1, <1>7, <2>1 DEF Connect, Disconnect, TrRestart, Break
<1>8. CASE RestartTimer \/ ResetLimit \/ LongPress
  <2>1. armed > 0 => armed - 1 \in 0..RestartTicks
    BY <1>1, TickAssumption, SMT
  <2> QED
    BY <1>1, <1>8, <2>1 DEF RestartTimer, ResetLimit, LongPress
<1>9. CASE PowerLoss
  BY <1>1, <1>9 DEF PowerLoss
<1> QED
  BY <1>2, <1>3, <1>4, <1>5, <1>6, <1>7, <1>8, <1>9 DEF Next, Flash, WriteFails

(* A step that leaves flash and work alone.                                *)
LEMMA QuietKeeps ==
  ASSUME IInv, Next, UNCHANGED <<flash, todo, new, cut, spoilt, texts>>,
         andThen' = andThen, open' \in 0..MaxOpen,
         phase' \in {"JsonErr", "Booting", "Web", "Work", "NoRouter"},
         phase' \notin {"Web", "JsonErr"} => open' = 0,
         \/ phase' = phase
         \/ /\ todo = <<>>
            /\ phase' = "Work" =>
                 flash.dev = flash.json /\ flash.json # Bad /\ flash.fix.mode = "UWork"
            /\ phase' = "JsonErr" \/ flash.fix.mode # "Erased"
  PROVE  IInv'
<1> USE DEF IInv
<1>1. Types'
  BY Booleans, Zenon DEF Types
<1>2. Modal'
  BY DEF Modal
<1>3. Clean'
  BY TodosDiffer DEF Clean, Sound
<1>4. Pending' /\ Match'
  BY DEF Pending, Match, Under
<1> QED
  BY <1>1, <1>2, <1>3, <1>4

(* Work that may be begun, when n JSON texts have been saved.              *)
Fit(steps, contents, n) ==
  /\ steps \in Todos \ {<<>>} /\ contents \in Contents
  /\ ~spoilt /\ steps \in Fixing => contents.fix.mode # "Erased" /\ Sound(contents.fix)
  /\ steps \in {Reset, ResetErased} => contents.fix = Factory /\ contents.dev = flash.json
  /\ steps \in {Last("json"), Rewrite("json")} =>
       contents.json = Bad \/ (flash.dev < contents.json /\ contents.json <= n)
  /\ steps \in {Last("fix"), Rewrite("fix")} =>
       (~cut /\ flash.dev = flash.json /\ flash.json # Bad => Under(contents.fix, flash.json))

(* A handler that begins to rewrite sectors.                               *)
LEMMA BeginKeeps ==
  ASSUME IInv, Next, Idle, UNCHANGED <<flash, cut, spoilt>>,
         phase' \in {phase, "Booting"} \/ flash.fix.mode # "Erased",
         NEW steps, NEW contents, Fit(steps, contents, texts'),
         NEW end \in {"Stay", "Restart", "Saved", "SavedSta", "SavedJson"},
         Begin(steps, contents, end),
         texts' \in texts..MaxJson, open' \in 0..MaxOpen,
         phase' \in {"JsonErr", "Booting", "Web", "Work", "NoRouter"},
         phase' \notin {"Web", "JsonErr"} => open' = 0,
         phase' = "Work" => end = "Restart"
  PROVE  IInv'
<1> USE BoundsAssumption DEF IInv, Begin, Idle, Fit
<1>1. texts' \in 0..MaxJson
  BY DEF Types
<1>2. Types'
  BY <1>1, Booleans, Zenon DEF Types
<1>3. Modal'
  BY DEF Modal
<1>4. Clean'
  BY TodosDiffer DEF Clean, Sound
<1>5. Pending'
  BY DEF Pending, Types, Contents
<1>6. Match'
  BY TodosDiffer DEF Match, Under
<1> QED
  BY <1>2, <1>3, <1>4, <1>5, <1>6

(* What the resets and the saving pages write can be a sector's content.   *)
LEMMA ContentsOf ==
  ASSUME flash \in Contents
  PROVE  /\ [flash EXCEPT !.dev = flash.json, !.fix = Factory] \in Contents
         /\ [flash EXCEPT !.fix.mode = "WebConfig"] \in Contents
         /\ \A fields \in UserFix : [flash EXCEPT !.fix = fields] \in Contents
         /\ \A text \in 0..MaxJson : [flash EXCEPT !.json = text] \in Contents
<1>1. /\ flash.json \in -1..MaxJson /\ 0 \in -1..MaxJson
      /\ Factory \in UserFix
  BY BoundsAssumption DEF Contents, UserFix, Factory, Modes, Fields, Empty
<1>2. [flash EXCEPT !.dev = flash.json, !.fix = Factory] \in Contents
  BY <1>1 DEF Contents
<1>3. [flash EXCEPT !.fix.mode = "WebConfig"] \in Contents
  <2>1. [flash.fix EXCEPT !.mode = "WebConfig"] \in UserFix
    BY DEF Contents, UserFix, Modes
  <2> QED
    BY <2>1 DEF Contents
<1>4. /\ \A fields \in UserFix : [flash EXCEPT !.fix = fields] \in Contents
      /\ \A text \in 0..MaxJson : [flash EXCEPT !.json = text] \in Contents
  BY DEF Contents
<1> QED
  BY <1>2, <1>3, <1>4

(* A handler that begins a factory reset.                                  *)
LEMMA FactoryResetKeeps ==
  ASSUME IInv, Next, Idle, UNCHANGED <<flash, cut, spoilt, texts>>,
         NEW end \in {"Stay", "Restart"}, FactoryReset(end),
         open' \in 0..MaxOpen,
         phase' \in {"JsonErr", "Booting", "Web", "NoRouter"}, phase' \in {phase, "Booting"},
         phase' \notin {"Web", "JsonErr"} => open' = 0
  PROVE  IInv'
<1> DEFINE contents == [flash EXCEPT !.dev = flash.json, !.fix = Factory]
<1>1. flash \in Contents /\ texts \in 0..MaxJson
  BY DEF IInv, Types
<1>2. /\ contents \in Contents /\ contents.fix = Factory /\ contents.dev = flash.json
      /\ contents.fix.mode # "Erased" /\ Sound(contents.fix)
  BY <1>1, ContentsOf DEF Contents, Factory, Sound, Empty, Garbage
<1>3. Begin(Reset, contents, end)
  BY DEF FactoryReset, Reset
<1>4. texts' \in texts..MaxJson
  BY <1>1, BoundsAssumption
<1> HIDE DEF contents
<1>5. /\ Reset \in Todos \ {<<>>}
      /\ Reset \notin {Last("json"), Rewrite("json"), Last("fix"), Rewrite("fix")}
  BY TodosDiffer
<1>6. Fit(Reset, contents, texts')
  BY <1>2, <1>5, Zenon DEF Fit
<1> QED
  BY <1>3, <1>4, <1>6, BeginKeeps

(* A handler that begins a user reset.                                     *)
LEMMA UserResetKeeps ==
  ASSUME IInv, Next, Idle, UNCHANGED <<flash, cut, spoilt, texts>>,
         NEW end \in {"Stay", "Restart"}, UserReset(end),
         phase' = phase \/ flash.fix.mode # "Erased",
         open' \in 0..MaxOpen,
         phase' \in {"Web", "Work", "NoRouter"},
         phase' # "Web" => open' = 0,
         phase' = "Work" => end = "Restart"
  PROVE  IInv'
<1> DEFINE contents == [flash EXCEPT !.fix.mode = "WebConfig"]
<1>1. flash \in Contents /\ texts \in 0..MaxJson
  BY DEF IInv, Types
<1>2. /\ contents \in Contents /\ contents.fix.mode = "WebConfig"
      /\ contents.fix.ssid = flash.fix.ssid /\ contents.fix.mqtt = flash.fix.mqtt
  BY <1>1, ContentsOf DEF Contents, UserFix
<1>3. Begin(Rewrite("fix"), contents, end)
  BY DEF UserReset
<1>4. texts' \in texts..MaxJson
  BY <1>1, BoundsAssumption
<1> HIDE DEF contents
<1>5. /\ Rewrite("fix") \in Todos \ {<<>>}
      /\ Rewrite("fix") \notin {Last("json"), Rewrite("json"), Reset, ResetErased}
  BY TodosDiffer
<1>6. ~spoilt => Sound(contents.fix)
  <2>1. ~spoilt => flash.fix.mode # "Erased" /\ Sound(flash.fix)
    BY TodosDiffer DEF IInv, Clean, Idle
  <2> QED
    BY <1>2, <2>1 DEF Sound
<1>7. ~cut /\ flash.dev = flash.json /\ flash.json # Bad => Under(contents.fix, flash.json)
  BY <1>2, TodosDiffer DEF IInv, Match, Under, Idle
<1>8. contents.fix.mode # "Erased"
  BY <1>2
<1>9. Fit(Rewrite("fix"), contents, texts')
  BY <1>2, <1>5, <1>6, <1>7, <1>8, Zenon DEF Fit
<1> QED
  BY <1>3, <1>4, <1>9, BeginKeeps

(* Every handler that ends after its last write.                           *)
LEMMA WriteKeeps ==
  ASSUME IInv, Next, NEW ok \in BOOLEAN, Write(ok)
  PROVE  IInv'
<1> USE DEF IInv
<1>1. texts' = texts /\ cut' = cut
  BY DEF Write
<1>2. phase # "Off"
  BY DEF Write, Idle, Modal
<1>3. flash' \in Contents
  BY DEF Types, Contents, Write
<1>4. CASE todo = ResetErased
  <2>1. /\ todo' = Rewrite("fix") /\ UNCHANGED <<phase, new, andThen, open>>
        /\ flash' = IF ok THEN [flash EXCEPT !.dev = new.dev] ELSE flash
    BY <1>4, WriteCases, TodosDiffer, Zenon DEF Types, ram
  <2>2. new.fix = Factory /\ new.dev = flash.json
    BY <1>4 DEF Pending
  <2>3. Types'
    BY <1>1, <1>3, <2>1, Booleans, TodosDiffer, Zenon DEF Types
  <2>4. flash'.fix = flash.fix /\ flash'.json = flash.json /\ flash'.dev \in {flash.dev, flash.json}
    BY <2>1, <2>2 DEF Types, Contents
  <2>9. spoilt' = spoilt
    BY <1>4, WriteCases, TodosDiffer, Zenon DEF Types
  <2>5. Modal'
    BY <1>4, <2>1, TodosDiffer DEF Modal
  <2>6. Clean'
    BY <1>4, <2>1, <2>2, <2>4, <2>9, TodosDiffer DEF Clean, Fixing
  <2>7. Pending'
    BY <1>1, <2>1, <2>4, TodosDiffer DEF Pending
  <2>8. Match'
    BY <2>1, <2>2 DEF Match, Factory, Under
  <2> QED
    BY <2>3, <2>5, <2>6, <2>7, <2>8
<1>5. CASE todo \in {Last("fix"), Last("json")}
  <2>1. End(ok) /\ todo # <<>>
    BY <1>5, WriteCases, TodosDiffer, Zenon DEF Types
  <2>2. \/ /\ phase' = "Off" /\ todo' = <<>> /\ new' = Blank /\ andThen' = "Stay" /\ open' = 0
        \/ /\ UNCHANGED <<phase, new, open>> /\ todo' = <<>> /\ andThen' = "Stay"
           /\ andThen # "Restart"
    BY <2>1 DEF End, Down, Begin, Types, ram
  <2>3. Blank \in Contents
    BY BoundsAssumption
       DEF Blank, Contents, UserFix, ErasedFix, Modes, Fields, Bad, NoCrc, Garbage
  <2>4. Types'
    <3>1. open' \in 0..MaxOpen
      BY <2>2, BoundsAssumption DEF Types
    <3> QED
      BY <1>1, <1>3, <2>2, <2>3, <3>1, Booleans, TodosDiffer, Zenon DEF Types
  <2>5. Modal'
    BY <1>2, <2>1, <2>2 DEF Modal
  <2>6. /\ todo = Last("fix") => flash' = IF ok THEN [flash EXCEPT !.fix = new.fix] ELSE flash
        /\ todo = Last("json") => flash' = IF ok THEN [flash EXCEPT !.json = new.json] ELSE flash
    BY WriteCases, TodosDiffer, Zenon DEF Types
  <2>7. /\ flash'.dev = flash.dev
        /\ flash'.fix = flash.fix \/ (todo = Last("fix") /\ flash'.fix = new.fix)
        /\ flash'.json = flash.json \/ (todo = Last("json") /\ flash'.json = new.json)
    BY <1>5, <2>6 DEF Types, Contents
  <2>8. Clean'
    <3>1. phase' # "Off" => phase' = phase
      BY <2>2
    <3>2. todo' = <<>>
      BY <2>2
    <3>3. CASE todo = Last("json")
      <4>1. spoilt' = spoilt /\ flash'.fix = flash.fix
        BY <2>7, <3>3, WriteCases, TodosDiffer, Zenon DEF Types
      <4> QED
        BY <3>1, <3>2, <3>3, <4>1, TodosDiffer DEF Clean, Fixing
    <3>4. CASE todo = Last("fix")
      <4>1. /\ spoilt' = (~ok \/ (spoilt /\ new.fix # Factory))
            /\ flash' = IF ok THEN [flash EXCEPT !.fix = new.fix] ELSE flash
        BY <3>4, WriteCases, TodosDiffer, Zenon DEF Types
      <4>2. ~spoilt' => flash'.fix = new.fix /\ (~spoilt \/ new.fix = Factory)
        BY <4>1 DEF Types, Contents
      <4>3. ~spoilt' => flash'.fix.mode # "Erased" /\ Sound(flash'.fix)
        BY <3>4, <4>2 DEF Clean, Fixing, Factory, Sound, Empty, Garbage
      <4> QED
        BY <3>2, <4>3, TodosDiffer DEF Clean, Fixing, Sound
    <3> QED
      BY <1>5, <3>3, <3>4
  <2>9. Pending'
    BY <1>1, <2>2, <2>7, TodosDiffer DEF Pending, Types, Bad
  <2>10. Match'
    <3>1. CASE todo = Last("fix")
      BY <1>1, <2>2, <2>7, <3>1, TodosDiffer DEF Match, Under
    <3>2. CASE todo = Last("json")
      BY <1>1, <2>2, <2>7, <3>2, TodosDiffer DEF Match, Under, Pending, Types, Contents
    <3> QED
      BY <1>5, <3>1, <3>2
  <2> QED
    BY <2>4, <2>5, <2>8, <2>9, <2>10
<1> QED
  BY <1>4, <1>5, WriteCases, Zenon DEF Types

(* The invariant is kept.                                                  *)
LEMMA Inductive == IInv /\ [Next]_vars => IInv'
<1> SUFFICES ASSUME IInv, [Next]_vars PROVE IInv'
  OBVIOUS
<1> USE DEF IInv, Bad
<1>1. /\ flash \in Contents /\ open \in 0..MaxOpen /\ texts \in 0..MaxJson
      /\ phase \in {"Off", "Booting", "JsonErr", "Web", "Work", "NoRouter"}
  BY DEF Types
<1>2. CASE Boot
  <2>1. /\ phase = "Off" /\ todo = <<>> /\ open = 0 /\ open' = open /\ texts' = texts
        /\ UNCHANGED <<flash, cut, spoilt>>
    BY <1>2 DEF Boot, Modal, ram, ghosts
  <2>2. CASE UNCHANGED job
    <3>1. /\ phase' \in {"JsonErr", "Web", "Work"}
          /\ phase' = "Work" =>
               flash.dev = flash.json /\ flash.json # Bad /\ flash.fix.mode = "UWork"
          /\ phase' = "JsonErr" \/ flash.fix.mode # "Erased"
      <4>1. Rewrite("fix") # <<>> /\ Reset # <<>>
        BY TodosDiffer
      <4> QED
        BY <1>2, <2>1, <2>2, <4>1
        DEF Boot, job, FactoryReset, UserReset, Begin, Reset
    <3> QED
      BY <1>1, <1>2, <2>1, <2>2, <3>1, QuietKeeps DEF Next, job
  <2>3. CASE phase' = "Booting" /\ FactoryReset("Restart")
    BY <1>1, <1>2, <2>1, <2>3, FactoryResetKeeps DEF Next, Idle
  <2>4. CASE phase' = "NoRouter" /\ UserReset("Stay")
    <3>1. flash.fix.mode # "Erased"
      BY <1>2, <2>4 DEF Boot
    <3> QED
      BY <1>1, <1>2, <2>1, <2>4, <3>1, UserResetKeeps DEF Next, Idle
  <2> QED
    BY <1>2, <2>2, <2>3, <2>4 DEF Boot
<1>3. CASE Erase
  <2>1. UNCHANGED <<phase, new, andThen, texts, cut, spoilt, open>>
    BY <1>3 DEF Erase, ghosts, ram
  <2>2. todo # <<>> /\ todo' # <<>> /\ todo' \in Todos
    BY <1>3, EraseCases, TodosDiffer, Zenon DEF Types
  <2>3. flash' \in Contents
    <3>1. ErasedFix \in UserFix /\ Bad \in 0..MaxJson /\ NoCrc \in -1..MaxJson
      BY BoundsAssumption DEF UserFix, ErasedFix, Modes, Fields, NoCrc, Garbage
    <3> QED
      BY <1>1, <1>3, <3>1, EraseCases DEF Types, Contents
  <2>4. Types'
    BY <1>3, <2>1, <2>2, <2>3, Booleans, Zenon DEF Types, Next, Flash
  <2>5. Modal'
    BY <2>1, <2>2 DEF Modal
  <2>6. CASE todo = Rewrite("fix")
    <3>1. todo' = Last("fix") /\ flash' = [flash EXCEPT !.fix = ErasedFix]
      BY <1>3, <2>6, EraseCases, TodosDiffer, Zenon DEF Types
    <3>2. /\ flash'.fix = ErasedFix /\ flash'.dev = flash.dev /\ flash'.json = flash.json
      BY <1>1, <3>1 DEF Contents
    <3> QED
      <4>1. Clean'
        BY <2>1, <2>6, <3>1, <3>2, TodosDiffer DEF Clean, Sound, Fixing, ErasedFix
      <4>2. Pending' /\ Match'
        BY <2>1, <2>6, <3>1, <3>2, TodosDiffer DEF Pending, Match, Under, ErasedFix
      <4> QED
        BY <2>4, <2>5, <4>1, <4>2
  <2>7. CASE todo = Rewrite("json")
    <3>1. todo' = Last("json") /\ flash' = [flash EXCEPT !.json = Bad]
      BY <1>3, <2>7, EraseCases, TodosDiffer, Zenon DEF Types
    <3>2. /\ flash'.fix = flash.fix /\ flash'.dev = flash.dev /\ flash'.json = 0
      BY <1>1, <3>1 DEF Contents
    <3> QED
      <4>1. Clean'
        BY <2>1, <2>7, <3>1, <3>2, TodosDiffer DEF Clean, Sound, Fixing
      <4>2. Pending' /\ Match'
        BY <1>1, <2>1, <2>7, <3>1, <3>2, TodosDiffer DEF Pending, Match
      <4> QED
        BY <2>4, <2>5, <4>1, <4>2
  <2>8. CASE todo = Reset
    <3>1. todo' = ResetErased /\ flash' = [flash EXCEPT !.dev = NoCrc]
      BY <1>3, <2>8, EraseCases, TodosDiffer, Zenon DEF Types
    <3>2. /\ flash'.fix = flash.fix /\ flash'.dev = -1 /\ flash'.json = flash.json
      BY <1>1, <3>1 DEF Contents, NoCrc
    <3>3. flash.json >= 0 /\ texts >= 0
      BY <1>1 DEF Contents
    <3> QED
      <4>1. Clean'
        BY <2>1, <2>8, <3>1, <3>2, TodosDiffer DEF Clean, Sound, Fixing
      <4>2. Pending' /\ Match'
        BY <1>1, <2>1, <2>8, <3>1, <3>2, <3>3, TodosDiffer DEF Pending, Match
      <4> QED
        BY <2>4, <2>5, <4>1, <4>2
  <2> QED
    BY <1>3, <2>6, <2>7, <2>8, EraseCases, Zenon DEF Types
<1>4. CASE Write(TRUE) \/ WriteFails
  BY <1>4, WriteKeeps DEF Next, Flash, WriteFails
<1>5. ASSUME SaveHtm \/ SaveSta \/ SaveMqtt PROVE IInv'
  <2>1. PICK fix \in UserFix, end \in {"Saved", "SavedSta", "Stay"} :
          /\ Save(fix, end)
          /\ fix.ssid \in {flash.json, flash.fix.ssid}
          /\ fix.mqtt \in {flash.json, Empty, flash.fix.mqtt}
          /\ fix.mode \in {"UWork", flash.fix.mode}
    <3>1. /\ flash.json \in Fields /\ Empty \in Fields
          /\ flash.fix \in UserFix
      BY <1>1, BoundsAssumption DEF Contents, Fields, Empty
    <3>2. Submitted \subseteq UserFix
      BY <3>1 DEF Submitted, UserFix, Modes
    <3>3. CASE SaveHtm
      BY <3>2, <3>3 DEF SaveHtm, Submitted
    <3>4. CASE SaveSta
      BY <3>2, <3>4 DEF SaveSta, Submitted
    <3>5. CASE SaveMqtt
      BY <3>1, <3>5 DEF SaveMqtt, UserFix
    <3> QED
      BY <1>5, <3>3, <3>4, <3>5
  <2>2. /\ phase = "Web" /\ Idle /\ UNCHANGED <<phase, flash, cut, spoilt, texts, open>>
        /\ Begin(Rewrite("fix"), [flash EXCEPT !.fix = fix], end)
    BY <2>1 DEF Save, Serves, ghosts, ram
  <2>3. [flash EXCEPT !.fix = fix] \in Contents /\ [flash EXCEPT !.fix = fix].fix = fix
    BY <1>1, ContentsOf DEF Contents
  <2>4. ~spoilt => fix.mode # "Erased" /\ Sound(fix)
    <3>1. ~spoilt => flash.fix.mode # "Erased" /\ Sound(flash.fix)
      BY <2>2, TodosDiffer DEF Clean, Idle
    <3>2. flash.json # Garbage /\ Empty # Garbage
      BY <1>1, BoundsAssumption DEF Contents, Empty, Garbage
    <3> QED
      BY <2>1, <3>1, <3>2 DEF Sound
  <2>5. ~cut /\ flash.dev = flash.json /\ flash.json # Bad => Under(fix, flash.json)
    BY <2>1, <2>2, TodosDiffer DEF Match, Under, Idle
  <2>6. Next /\ texts' \in texts..MaxJson
    BY <1>1, <1>5, <2>2, BoundsAssumption DEF Next
  <2>7. /\ Rewrite("fix") \in Todos \ {<<>>}
        /\ Rewrite("fix") \notin {Last("json"), Rewrite("json"), Reset, ResetErased}
    BY TodosDiffer
  <2> DEFINE contents == [flash EXCEPT !.fix = fix]
  <2>8. contents \in Contents /\ contents.fix = fix /\ Begin(Rewrite("fix"), contents, end)
    BY <2>2, <2>3
  <2> HIDE DEF contents
  <2>9. Fit(Rewrite("fix"), contents, texts')
    BY <2>4, <2>5, <2>7, <2>8, Zenon DEF Fit
  <2> QED
    BY <1>1, <2>2, <2>6, <2>8, <2>9, BeginKeeps
<1>6. CASE ShowConfig \/ Connect \/ Break \/ ResetLimit
  <2>1. /\ UNCHANGED <<phase, flash, todo, new, andThen, cut, spoilt, texts>>
        /\ open' \in 0..MaxOpen /\ phase # "Off"
        /\ phase \notin {"Web", "JsonErr"} => open' = 0
    <3>1. MaxOpen \in Nat
      BY BoundsAssumption
    <3>2. CASE ShowConfig
      BY <1>1, <3>2 DEF ShowConfig, job, ghosts, Serves
    <3>3. CASE Connect
      BY <1>1, <3>1, <3>3 DEF Connect, job, ghosts
    <3>4. CASE Break
      BY <1>1, <3>1, <3>4 DEF Break, job, ghosts, Modal
    <3>5. CASE ResetLimit
      BY <1>1, <3>5 DEF ResetLimit, job, ghosts, Keyed, Modal
    <3> QED
      BY <1>6, <3>2, <3>3, <3>4, <3>5
  <2> QED
    BY <1>1, <1>6, <2>1, QuietKeeps DEF Next
<1>7. CASE SaveJson \/ SaveJsonErr
  <2>1. PICK text \in {texts', 0} : Begin(Rewrite("json"), [flash EXCEPT !.json = text], "SavedJson")
    BY <1>7 DEF SaveJson, SaveJsonErr, NewJson
  <2>2. /\ phase \in {"Web", "JsonErr"} /\ Idle /\ UNCHANGED <<phase, flash, cut, spoilt, open>>
        /\ texts' = texts + 1 /\ texts' \in 1..MaxJson
    BY <1>1, <1>7, BoundsAssumption DEF SaveJson, SaveJsonErr, NewJson, Serves, ram
  <2>3. /\ [flash EXCEPT !.json = text] \in Contents
        /\ [flash EXCEPT !.json = text].json = text /\ [flash EXCEPT !.json = text].fix = flash.fix
    BY <1>1, <2>2, ContentsOf, BoundsAssumption DEF Contents
  <2>4. text = 0 \/ (flash.dev < text /\ text <= texts')
    BY <1>1, <2>2 DEF Pending, Contents
  <2>6. /\ Rewrite("json") \in Todos \ {<<>>}
        /\ Rewrite("json") \notin Fixing
        /\ Rewrite("json") \notin {Last("fix"), Rewrite("fix"), Reset, ResetErased}
    BY TodosDiffer DEF Fixing
  <2> DEFINE contents == [flash EXCEPT !.json = text]
  <2>7. /\ contents \in Contents /\ contents.fix = flash.fix /\ contents.json = text
        /\ Begin(Rewrite("json"), contents, "SavedJson")
    BY <2>1, <2>3
  <2>8. Next /\ texts' \in texts..MaxJson
    BY <1>1, <1>7, <2>2, BoundsAssumption DEF Next
  <2> HIDE DEF contents
  <2>9. Fit(Rewrite("json"), contents, texts')
    BY <2>4, <2>6, <2>7, Zenon DEF Fit
  <2> QED
    BY <1>1, <2>2, <2>7, <2>8, <2>9, BeginKeeps
<1>8. CASE Disconnect
  <2>1. /\ UNCHANGED <<phase, flash, cut, spoilt, texts>> /\ Idle /\ open' \in 0..MaxOpen
        /\ phase \in {"Web", "JsonErr"}
    BY <1>1, <1>8, BoundsAssumption DEF Disconnect, ghosts, Modal
  <2>2. CASE UNCHANGED job
    BY <1>1, <1>8, <2>1, <2>2, QuietKeeps DEF Next, job
  <2>3. CASE FactoryReset("Stay")
    BY <1>1, <1>8, <2>1, <2>3, FactoryResetKeeps DEF Next
  <2> QED
    BY <1>8, <2>2, <2>3 DEF Disconnect
<1>9. CASE RestartTimer
  <2>1. cut \in BOOLEAN
    BY Zenon DEF Types
  <2>2. UNCHANGED <<flash, texts, cut, failed, spoilt>> /\ todo = <<>>
    BY <1>9 DEF RestartTimer, ghosts, Idle
  <2>3. CASE Down
    BY <2>1, <2>2, <2>3, DownKeeps, TodosDiffer
  <2>4. CASE UNCHANGED <<phase, job, open>>
    <3>1. UNCHANGED <<phase, todo, new, andThen, open>>
      BY <2>4 DEF job
    <3>2. Types'
      BY <1>9, <2>2, <3>1, Booleans, Zenon DEF Types, Next
    <3> QED
      BY <2>2, <3>1, <3>2 DEF Modal, Clean, Pending, Match, Under
  <2> QED
    BY <1>9, <2>3, <2>4, Zenon DEF RestartTimer
<1>10. CASE LongPress
  <2>1. /\ UNCHANGED <<phase, flash, cut, spoilt, texts, open>> /\ Idle
        /\ phase \in {"Web", "Work", "NoRouter"} /\ UserReset("Restart")
    BY <1>10 DEF LongPress, Keyed, ghosts, ram
  <2>2. phase \notin {"Web", "JsonErr"} => open = 0
    BY DEF Modal
  <2> QED
    BY <1>1, <1>10, <2>1, <2>2, UserResetKeeps DEF Next
<1>11. CASE PowerLoss
  <2>1. cut' \in BOOLEAN /\ (~cut' => ~cut)
    BY <1>11, Zenon DEF Types, PowerLoss
  <2>2. todo = Rewrite("fix") /\ new.fix = Factory => cut'
    BY <1>11, Zenon DEF PowerLoss
  <2> QED
    BY <1>11, <2>1, <2>2, DownKeeps DEF PowerLoss
<1>12. CASE UNCHANGED vars
  BY <1>12 DEF vars, Types, Modal, Clean, Pending, Match, Under
<1> QED
  BY <1>2, <1>3, <1>4, <1>5, <1>6, <1>7, <1>8, <1>9, <1>10, <1>11, <1>12 DEF Next, Flash

(* It holds of a blank flash.                                              *)
LEMMA InitiallyIInv == Init => IInv
<1> SUFFICES ASSUME Init PROVE IInv
  OBVIOUS
<1> USE BoundsAssumption DEF Init
<1>1. Blank \in Contents
  BY DEF Blank, Contents, UserFix, ErasedFix, Modes, Fields, Bad, NoCrc, Garbage
<1>2. {restartFlag, resetFlag, firstConfig, allowed, cut, failed, spoilt} \subseteq BOOLEAN
  BY Zenon
<1>3. 0 \in 0..MaxJson /\ 0 \in 0..MaxOpen /\ 0 \in 0..RestartTicks
  BY TickAssumption
<1>4. Types
  BY <1>1, <1>2, <1>3, TodosDiffer, Zenon DEF Types
<1>5. Modal /\ Clean /\ Pending /\ Match
  BY TodosDiffer DEF Modal, Clean, Fixing, Pending, Match, Blank, ErasedFix, Bad, NoCrc
<1> QED
  BY <1>4, <1>5 DEF IInv

(* It holds at all times.                                                  *)
LEMMA Invariant == Spec => []IInv
BY InitiallyIInv, Inductive, PTL DEF Spec

-----------------------------------------------------------------------------
(* Flash, RAM and the work in hand keep their types: a handler never has   *)
(* more than four flash operations left.                                   *)
THEOREM TypeCorrect == Spec => []TypeOK
<1> DEFINE Op == {"erase", "write"} \X {"json", "dev", "fix"}
<1>1. todo \in Todos => todo \in Seq(Op) /\ Len(todo) <= 4
  <2>1. ASSUME NEW s \in Sectors
        PROVE  /\ Last(s) \in Seq(Op) /\ Rewrite(s) \in Seq(Op)
               /\ Len(Last(s)) <= 4 /\ Len(Rewrite(s)) <= 4
    BY DEF Last, Rewrite, Sectors
  <2>2. "fix" \in Sectors /\ "json" \in Sectors /\ "dev" \in Sectors
    BY DEF Sectors
  <2>3. <<>> \in Seq(Op) /\ Len(<<>>) <= 4
    OBVIOUS
  <2> HIDE DEF Op
  <2>4. Reset \in Seq(Op) /\ ResetErased \in Seq(Op)
    BY <2>1, <2>2, ConcatProperties, Zenon DEF Reset, ResetErased
  <2>5. Len(Reset) <= 4 /\ Len(ResetErased) <= 4
    BY Forms
  <2> QED
    BY <2>1, <2>2, <2>3, <2>4, <2>5, Zenon DEF Todos
<1>2. IInv => TypeOK
  BY <1>1, Zenon DEF IInv, Types, TypeOK
<1> QED
  BY <1>2, Invariant, PTL

(* Failures of the power alone, at whatever moments, never bring the normal*)
(* work mode to run on what an erased sector reads as; it takes a write    *)
(* that fails.                                                             *)
THEOREM NoGarbage == Spec => []NoGarbageInWork
<1>1. IInv => NoGarbageInWork
  BY DEF IInv, Modal, Clean, Sound, NoGarbageInWork, Idle
<1> QED
  BY <1>1, Invariant, PTL

(* No field the normal work mode finds was entered under another JSON, but *)
(* for a factory reset cut off between its two sectors.                    *)
THEOREM SettingsMatch == Spec => []SettingsMatchJson
<1>1. IInv => SettingsMatchJson
  BY TodosDiffer DEF IInv, Modal, Match, Under, SettingsMatchJson, Idle
<1> QED
  BY <1>1, Invariant, PTL
=============================================================================
