------------------------------ MODULE Settings ------------------------------
(***************************************************************************)
(* The settings of the device and the modes it boots into: user_init and   *)
(* the resets of app/user/user_main.c, the pages of webPageAP.c and of     *)
(* JsonErrAP.c that write the flash, and the long press of the button.     *)
(*                                                                         *)
(* A sector is rewritten by erasing and then writing it.  Handlers run to  *)
(* completion, so nothing comes in between but a failure of the power,     *)
(* which may come at any time; an erase or a write by itself is taken to be*)
(* atomic.                                                                 *)
(***************************************************************************)
EXTENDS Integers, Sequences

CONSTANTS
  MaxJson,      \* bound: so many JSON texts are saved
  MaxOpen,      \* bound: so many TCP connections to port 80 at once
  RestartTicks, \* the 1000 ms of trRestart
  FlashFails,   \* spi_flash_write may fail
  Breaks        \* a connection may end in an error

ASSUME BoundsAssumption == MaxJson \in Nat /\ MaxOpen \in Nat
ASSUME TickAssumption == RestartTicks \in Nat \ {0}
ASSUME SwitchAssumption == {FlashFails, Breaks} \subseteq BOOLEAN

VARIABLES
  phase,         \* where the firmware stands
  flash,         \* the sectors JSON, DevConfig and UserFix
  todo, new, andThen,  \* the flash operations the running handler has still to make,
                       \* what they write, and how the handler ends
  texts,         \* so many JSON texts have been saved
  open,          \* the connections to port 80
  restartFlag,   \* is_disconnect_cb_restart
  resetFlag,     \* g_webAPDisconResetFactory, g_jsonErrDisconResetFactory
  firstConfig,   \* is_frist_config_page
  armed,         \* g_trRestartTimer: the ticks left, 0 if it is not armed
  allowed,       \* g_isResetAllow
  cut,           \* history: the power has failed between two flash operations of a
                 \* factory reset, which write DevConfig and then UserFix
  failed,        \* history: a factory reset has failed to write DevConfig
  spoilt         \* history: a write of UserFix has failed, and no factory reset has
                 \* written it since

ram  == <<open, restartFlag, resetFlag, firstConfig, armed, allowed>>
job  == <<todo, new, andThen>>
ghosts == <<texts, cut, failed, spoilt>>
vars == <<phase, flash, todo, new, andThen, texts, open, restartFlag, resetFlag,
          firstConfig, armed, allowed, cut, failed, spoilt>>

-----------------------------------------------------------------------------
(* The sectors.  The JSON is the number of the text it holds, 0 if it does *)
(* not parse; DevConfig the number of the text whose CRC it holds; UserFix *)
(* its work mode and two of its fields, the router's name and the broker's *)
(* host.  A field is Empty, or Garbage, the 0xFF of an erased sector, or   *)
(* the number of the JSON text under which the user entered it.            *)
Bad == 0
NoCrc == -1
Empty == -1
Garbage == -2
Modes == {"Unknown", "WebConfig", "UWork", "Erased"}
Fields == -2..MaxJson

UserFix == [mode : Modes, ssid : Fields, mqtt : Fields]

Factory   == [mode |-> "Unknown", ssid |-> Empty, mqtt |-> Empty]
ErasedFix == [mode |-> "Erased", ssid |-> Garbage, mqtt |-> Garbage]

Blank == [json |-> Bad, dev |-> NoCrc, fix |-> ErasedFix]

Contents == [json : 0..MaxJson, dev : -1..MaxJson, fix : UserFix]

Rewrite(s) == <<<<"erase", s>>, <<"write", s>>>>

(* A handler that goes on to rewrite sectors.                              *)
Begin(steps, contents, end) == todo' = steps /\ new' = contents /\ andThen' = end

Idle == todo = <<>>

Init ==
  /\ phase = "Off"
  /\ flash = Blank
  /\ todo = <<>> /\ new = Blank /\ andThen = "Stay"
  /\ texts = 0 /\ open = 0
  /\ restartFlag = FALSE /\ resetFlag = FALSE /\ firstConfig = TRUE
  /\ armed = 0 /\ allowed = FALSE
  /\ cut = FALSE /\ failed = FALSE /\ spoilt = FALSE

(* What a restart leaves: the flash.                                       *)
Down ==
  /\ phase' = "Off"
  /\ todo' = <<>> /\ new' = Blank /\ andThen' = "Stay"
  /\ open' = 0
  /\ restartFlag' = FALSE /\ resetFlag' = FALSE /\ firstConfig' = TRUE
  /\ armed' = 0 /\ allowed' = FALSE

-----------------------------------------------------------------------------
(* Faulty: the CRC is not stored.                                          *)
FactoryResetNoCrc(end) == Begin(Rewrite("fix"), [flash EXCEPT !.fix = Factory], end)

(* freeFactorySetting, for a JSON that parses.                             *)
FactoryReset(end) ==
  Begin(Rewrite("dev") \o Rewrite("fix"),
        [flash EXCEPT !.dev = flash.json, !.fix = Factory], end)

(* Faulty: the work mode is one that user_init does not know.              *)
UserResetSmart(end) ==
  Begin(Rewrite("fix"), [flash EXCEPT !.fix.mode = "SmartConfig"], end)

(* freeUserSettingWeb: only the work mode is reset, the fields stay as the *)
(* sector has them.                                                        *)
UserReset(end) == Begin(Rewrite("fix"), [flash EXCEPT !.fix.mode = "WebConfig"], end)

(* Faulty: the CRC is not compared.                                        *)
BootUnchecked ==
  /\ phase = "Off"
  /\ \/ flash.json = Bad /\ phase' = "JsonErr" /\ UNCHANGED job
     \/ /\ flash.json # Bad /\ flash.fix.mode = "Erased"
        /\ phase' = "Booting" /\ FactoryReset("Restart")
     \/ /\ flash.json # Bad /\ flash.fix.mode \in {"Unknown", "WebConfig"}
        /\ phase' = "Web" /\ UNCHANGED job
     \/ /\ flash.json # Bad /\ flash.fix.mode = "UWork"
        /\ phase' = "Work" /\ UNCHANGED job
  /\ UNCHANGED <<flash, ghosts, ram>>

(* Faulty: an erased UserFix sector is taken for the mode it held before.  *)
BootLenient ==
  /\ phase = "Off"
  /\ \/ flash.json = Bad /\ phase' = "JsonErr" /\ UNCHANGED job
     \/ /\ flash.json # Bad /\ flash.dev # flash.json
        /\ phase' = "Booting" /\ FactoryReset("Restart")
     \/ /\ flash.json # Bad /\ flash.dev = flash.json
        /\ flash.fix.mode \in {"Unknown", "WebConfig"}
        /\ phase' = "Web" /\ UNCHANGED job
     \/ /\ flash.json # Bad /\ flash.dev = flash.json
        /\ flash.fix.mode \in {"UWork", "Erased"}
        /\ phase' = "Work" /\ UNCHANGED job
  /\ UNCHANGED <<flash, ghosts, ram>>

(* user_init.  Without a JSON it opens the access point of JsonErrAP.c and *)
(* returns; a CRC that is not the JSON's, or a work mode it does not know, *)
(* leads to a reset and a restart; a device without a router's name gives  *)
(* up after a reset, without a restart.                                    *)
Boot ==
  /\ phase = "Off"
  /\ \/ flash.json = Bad /\ phase' = "JsonErr" /\ UNCHANGED job
     \/ /\ flash.json # Bad
        /\ flash.dev # flash.json \/ flash.fix.mode = "Erased"
        /\ phase' = "Booting" /\ FactoryReset("Restart")
     \/ /\ flash.json # Bad /\ flash.dev = flash.json
        /\ flash.fix.mode \in {"Unknown", "WebConfig"}
        /\ phase' = "Web" /\ UNCHANGED job
     \/ /\ flash.json # Bad /\ flash.dev = flash.json /\ flash.fix.mode = "UWork"
        /\ IF flash.fix.ssid # Empty THEN phase' = "Work" /\ UNCHANGED job
                                     ELSE phase' = "NoRouter" /\ UserReset("Stay")
  /\ UNCHANGED <<flash, ghosts, ram>>

-----------------------------------------------------------------------------
(* The flash operations of a handler, one by one.                          *)

Erase ==
  /\ ~Idle /\ Head(todo)[1] = "erase"
  /\ flash' = [flash EXCEPT ![Head(todo)[2]] = Blank[Head(todo)[2]]]
  /\ todo' = Tail(todo)
  /\ UNCHANGED <<phase, new, andThen, ghosts, ram>>

(* How the handler ends, once its last write has succeeded or failed.      *)
(* save.htm restarts only after a write that succeeded, save-sta.json      *)
(* always; config.htm asks for a reset, or shows the page again.           *)
End(ok) ==
  CASE andThen = "Restart" -> Down
    [] andThen = "Stay" -> Begin(<<>>, new, "Stay") /\ UNCHANGED <<phase, ram>>
    [] andThen \in {"Saved", "SavedSta"} ->
         /\ restartFlag' = (restartFlag \/ ok \/ andThen = "SavedSta")
         /\ Begin(<<>>, new, "Stay")
         /\ UNCHANGED <<phase, open, resetFlag, firstConfig, armed, allowed>>
    [] andThen = "SavedJson" ->
         /\ resetFlag' = (resetFlag \/ ok)
         /\ Begin(<<>>, new, "Stay")
         /\ UNCHANGED <<phase, open, restartFlag, firstConfig, armed, allowed>>

Write(ok) ==
  /\ ~Idle /\ Head(todo)[1] = "write"
  /\ flash' = IF ok THEN [flash EXCEPT ![Head(todo)[2]] = new[Head(todo)[2]]] ELSE flash
  /\ IF Len(todo) > 1 THEN todo' = Tail(todo) /\ UNCHANGED <<phase, new, andThen, ram>>
                      ELSE End(ok)
  /\ failed' = (failed \/ (~ok /\ Head(todo)[2] = "dev"))
  /\ spoilt' = IF Head(todo)[2] = "fix" THEN ~ok \/ (spoilt /\ new.fix # Factory) ELSE spoilt
  /\ UNCHANGED <<texts, cut>>

WriteFails == FlashFails /\ Write(FALSE)

-----------------------------------------------------------------------------
(* The pages.                                                              *)

Serves(p) == phase = p /\ Idle /\ open > 0

(* A page that saves the settings reads the sector, puts the new values in *)
(* and rewrites it.                                                        *)
Save(fix, end) ==
  /\ Serves("Web")
  /\ Begin(Rewrite("fix"), [flash EXCEPT !.fix = fix], end)
  /\ UNCHANGED <<phase, flash, ghosts, ram>>

(* Both forms select the work mode.  A parameter that is missing or empty  *)
(* leaves its field as the sector had it (urlGetParameter).                *)
Submitted == [mode : {"UWork"}, ssid : {flash.json, flash.fix.ssid},
              mqtt : {flash.json, flash.fix.mqtt}]

(* A request for save.htm that does not carry the number of the index page *)
(* shown last changes nothing, nor does one that would leave the router    *)
(* without a name.                                                         *)
SaveHtm == \E fix \in Submitted : fix.ssid # Empty /\ Save(fix, "Saved")

SaveSta == \E fix \in Submitted : Save(fix, "SavedSta")

(* save-mqtt.json leaves the work mode and the router as they are; of what *)
(* it is for it takes the empty fields too.                                *)
SaveMqtt == \E host \in {flash.json, Empty} : Save([flash.fix EXCEPT !.mqtt = host], "Stay")

(* config.htm without a new JSON only shows the page.                      *)
ShowConfig ==
  /\ Serves("Web")
  /\ firstConfig' = FALSE
  /\ UNCHANGED <<phase, flash, job, ghosts, open, restartFlag, resetFlag, armed, allowed>>

(* A new JSON, well-formed or not.  No text is saved twice.                *)
NewJson ==
  /\ texts < MaxJson
  /\ texts' = texts + 1
  /\ \E text \in {texts', Bad} :
       Begin(Rewrite("json"), [flash EXCEPT !.json = text], "SavedJson")
  /\ UNCHANGED <<phase, flash, ram, cut, failed, spoilt>>

(* In the mode WebConfig it is refused until the page has been shown; the  *)
(* page of JsonErrAP.c takes it at once.                                   *)
SaveJson    == Serves("Web") /\ ~firstConfig /\ NewJson
SaveJsonErr == Serves("JsonErr") /\ NewJson

-----------------------------------------------------------------------------
Connect ==
  /\ phase \in {"Web", "JsonErr"} /\ Idle
  /\ open < MaxOpen
  /\ open' = open + 1
  /\ UNCHANGED <<phase, flash, job, ghosts, restartFlag, resetFlag,
                 firstConfig, armed, allowed>>

(* trRestart disarms the timer and arms it anew.                           *)
TrRestart == armed' = IF restartFlag THEN RestartTicks ELSE armed

(* Faulty: the reset that a new JSON asks for is forgotten.                *)
DisconnectForgets ==
  /\ Idle /\ open > 0
  /\ open' = open - 1
  /\ TrRestart
  /\ resetFlag' = FALSE
  /\ UNCHANGED <<phase, flash, job, ghosts, restartFlag, firstConfig, allowed>>

(* Faulty: the restart is not scheduled.                                   *)
DisconnectStays ==
  /\ Idle /\ open > 0
  /\ open' = open - 1
  /\ resetFlag' = FALSE
  /\ IF resetFlag /\ flash.json # Bad THEN FactoryReset("Stay") ELSE UNCHANGED job
  /\ UNCHANGED <<phase, flash, ghosts, restartFlag, firstConfig, armed, allowed>>

(* web_discon_cb, jsonErrAP_discon_cb: for whichever connection it comes.  *)
Disconnect ==
  /\ Idle /\ open > 0
  /\ open' = open - 1
  /\ TrRestart
  /\ resetFlag' = FALSE
  /\ IF resetFlag /\ flash.json # Bad THEN FactoryReset("Stay") ELSE UNCHANGED job
  /\ UNCHANGED <<phase, flash, ghosts, restartFlag, firstConfig, allowed>>

(* web_recon_cb, jsonErrAP_recon_cb: an error ends a connection, and the   *)
(* callback does nothing.                                                  *)
Break ==
  /\ Breaks /\ Idle /\ open > 0
  /\ open' = open - 1
  /\ UNCHANGED <<phase, flash, job, ghosts, restartFlag, resetFlag,
                 firstConfig, armed, allowed>>

(* A tick of the armed timer; with the last one trRestartHandler runs.     *)
RestartTimer ==
  /\ armed > 0 /\ Idle
  /\ IF armed = 1
     THEN Down
     ELSE /\ armed' = armed - 1
          /\ UNCHANGED <<phase, job, open, restartFlag, resetFlag, firstConfig, allowed>>
  /\ UNCHANGED <<flash, ghosts>>

Keyed == phase \in {"Web", "Work", "NoRouter"} /\ Idle

(* resetLimitHandler, two seconds after the start.                         *)
ResetLimit ==
  /\ Keyed /\ ~allowed
  /\ allowed' = TRUE
  /\ UNCHANGED <<phase, flash, job, ghosts, open, restartFlag, resetFlag,
                 firstConfig, armed>>

(* user_plug_long_press                                                    *)
LongPress ==
  /\ Keyed /\ allowed
  /\ UserReset("Restart")
  /\ UNCHANGED <<phase, flash, ghosts, ram>>

PowerLoss ==
  /\ phase # "Off"
  /\ Down
  /\ cut' = (cut \/ (todo = Rewrite("fix") /\ new.fix = Factory))
  /\ UNCHANGED <<flash, texts, failed, spoilt>>

Flash == Erase \/ Write(TRUE) \/ WriteFails

Next == \/ Boot \/ Flash
        \/ SaveHtm \/ SaveSta \/ SaveMqtt \/ ShowConfig \/ SaveJson \/ SaveJsonErr
        \/ Connect \/ Disconnect \/ Break \/ RestartTimer
        \/ ResetLimit \/ LongPress
        \/ PowerLoss

Spec == Init /\ [][Next]_vars

(* The firmware boots and completes what it has begun; however many        *)
(* requests come in between, time goes by for its timer, which may be armed*)
(* anew for ever; and of the connections that are made again and again not *)
(* all end in an error (web_send_cb closes one after the answer).          *)
Fairness == /\ WF_vars(Boot) /\ WF_vars(Flash)
            /\ SF_vars(RestartTimer) /\ SF_vars(Disconnect)

FairSpec == Spec /\ Fairness

-----------------------------------------------------------------------------
TypeOK ==
  /\ phase \in {"Off", "Booting", "JsonErr", "Web", "Work", "NoRouter"}
  /\ flash \in Contents /\ new \in Contents
  /\ todo \in Seq({"erase", "write"} \X {"json", "dev", "fix"}) /\ Len(todo) <= 4
  /\ andThen \in {"Stay", "Restart", "Saved", "SavedSta", "SavedJson"}
  /\ texts \in 0..MaxJson /\ open \in 0..MaxOpen
  /\ armed \in 0..RestartTicks
  /\ {restartFlag, resetFlag, firstConfig, allowed, cut, failed, spoilt} \subseteq BOOLEAN

(* "验证数据不正常,即清空数据区": whatever field the normal work mode finds   *)
(* entered was entered under the JSON text in force.  The pages keep fields*)
(* from before, but those entered under an earlier text are cleared before *)
(* they are used again, whichever writes fail and wherever the power does, *)
(* but for one moment: DevConfig already vouches for the new JSON and      *)
(* UserFix is not yet erased.                                              *)
SettingsMatchJson ==
  phase = "Work" /\ Idle /\ ~cut =>
    \A v \in {flash.fix.ssid, flash.fix.mqtt} : v \in {flash.json, Empty, Garbage}

(* However often and wherever the power fails, it alone never brings the   *)
(* normal work mode to run on what an erased sector reads as, although the *)
(* resets and the pages copy fields of the sector as they are.  Only a     *)
(* write that fails does: the device goes on with the erased sector, and   *)
(* the next page or long press carries its fields into a valid record.     *)
NoGarbageInWork ==
  phase = "Work" /\ Idle /\ ~spoilt => Garbage \notin {flash.fix.ssid, flash.fix.mqtt}

(* What the liveness below takes for granted: at some time the power stays *)
(* on and the flash takes what is written, and a device that shows pages is*)
(* visited.                                                                *)
Calm == <>[][~(PowerLoss \/ WriteFails)]_vars
Visited == phase \in {"Web", "JsonErr"} ~> open > 0 \/ phase \notin {"Web", "JsonErr"}

(* The device ends in a mode in which it can be reached: no flash content  *)
(* that failures have left makes it restart for ever or do nothing, but for*)
(* the work mode without a router's name, which a long press or a failure  *)
(* of the power ends.                                                      *)
Up == phase \in {"JsonErr", "Web", "Work", "NoRouter"} /\ Idle
ComesUp == Calm => []<>Up

(* A connection that closes while the restart is pending puts it off.      *)
Postpone == Disconnect /\ restartFlag /\ armed > 0
Unhurried == <>[][~Postpone]_vars

(* "保存账号后会自动重启": settings that were saved are put to use, even if  *)
(* the connection they came on broke: the next one that closes restarts    *)
(* the device, a second later.  Visitors who come and go within that second*)
(* put the restart off, so it is due once they no longer do.               *)
SaveRestarts == Calm /\ Visited /\ Unhurried => (restartFlag ~> phase = "Off")

(* A well-formed JSON that was saved takes effect, or another replaces it: *)
(* by the reset on a disconnection or, after a restart, by the boot.  Not  *)
(* so if that reset, whose result nobody looks at, cannot write DevConfig: *)
(* the request for it is gone, and the device goes on without the JSON.    *)
NewJsonTakesEffect ==
  Calm /\ Visited =>
    \A text \in 1..MaxJson :
      (flash.json = text /\ flash.dev # text)
        ~> (flash.dev = text \/ flash.json # text \/ failed)

(* "fixedInfo.sta_ssid一定不为空": the normal work mode is only ever saved   *)
(* together with the name of a router.                                     *)
WorkHasRouter == flash.fix.mode = "UWork" => flash.fix.ssid # Empty
=============================================================================
