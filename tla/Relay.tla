------------------------------- MODULE Relay -------------------------------
(***************************************************************************)
(* The relay of the device: its state in RAM (g_kg1), on the output pin    *)
(* (GPIO2) and in flash (the DevStatus sector), as it is switched by the   *)
(* button and by the commands of a controller (app/user/trans_realtime.c,  *)
(* user_main.c).  A KG1 is an on/off switch, a TK1 a pulse switch; the     *)
(* commands of both are understood by either.                              *)
(*                                                                         *)
(* Handlers run to completion, but the power can fail at any time, between *)
(* the erasing and the writing of the flash sector too.  An erase or a     *)
(* write by itself is taken to be atomic.                                  *)
(***************************************************************************)
EXTENDS Integers

CONSTANTS
  Values,        \* the bytes that kg#1 and kg#2 carry; the protocol allows 0 and 1
  PulseTicks     \* the period given to os_timer_arm, 1000 ms

ASSUME ValuesAssumption == Values \subseteq 0..255
ASSUME PulseAssumption == PulseTicks \in Nat \ {0}

VARIABLES
  g_dev_flag, \* the kind of device
  pc,         \* where the processor stands
  g_kg1,      \* the state in RAM, a whole byte
  pin,        \* the level of GPIO2
  devStatus,  \* the DevStatus sector: a value, or -1 when erased (0xFFFFFFFF)
  left,       \* the timer of the pulse; 0 when it is not armed
  told,       \* the state last published to the controllers, -1 for none
  due         \* history: the states that a power cycle may restore

vars == <<g_dev_flag, pc, g_kg1, pin, devStatus, left, told, due>>

Erased == -1

(* What sysTrans_RealtimeInit makes of the DevStatus sector: anything but 0*)
(* is on, an erased sector included.                                       *)
Restored(v) == IF v = 0 THEN 0 ELSE 1

(* Faulty: the value is taken for the level.                               *)
LevelAll(v) == v

(* GPIO_OUTPUT_SET shifts the value into the set mask and the complement of*)
(* its lowest bit into the clear mask: the level is the lowest bit.        *)
Level(v) == v % 2

Init ==
  /\ g_dev_flag \in {"KG1", "TK1"}
  /\ pc = "Off"
  /\ g_kg1 = 0 /\ pin = 0 /\ left = 0 /\ told = -1
  /\ devStatus \in {Erased, 0, 1}
  /\ due = {Restored(devStatus)}

-----------------------------------------------------------------------------
(* user_gpio_init turns the output on before its state is known.           *)
GpioInit ==
  /\ pc = "Off"
  /\ pc' = "GpioReady"
  /\ pin' = 1
  /\ UNCHANGED <<g_dev_flag, g_kg1, devStatus, left, told, due>>

(* sysTrans_RealtimeInit                                                   *)
RealtimeInit ==
  /\ pc = "GpioReady"
  /\ pc' = "Idle"
  /\ g_kg1' = IF g_dev_flag = "KG1" THEN Restored(devStatus) ELSE 0
  /\ pin' = Level(g_kg1')
  /\ UNCHANGED <<g_dev_flag, devStatus, left, told, due>>

(* kg_setOnOff up to the erase.                                            *)
SetBegin(b) ==
  /\ pc = "Idle"
  /\ pc' = "Erased"
  /\ g_kg1' = b
  /\ devStatus' = Erased
  /\ due' = due \cup {Restored(b)}
  /\ UNCHANGED <<g_dev_flag, pin, left, told>>

(* Faulty: the state before the change is stored.                          *)
SetEndStale ==
  /\ pc = "Erased"
  /\ pc' = "Idle"
  /\ devStatus' = pin
  /\ pin' = Level(g_kg1)
  /\ told' = g_kg1
  /\ due' = {Restored(g_kg1)}
  /\ UNCHANGED <<g_dev_flag, g_kg1, left>>

(* The rest of kg_setOnOff, and kgDevStatus.                               *)
SetEnd ==
  /\ pc = "Erased"
  /\ pc' = "Idle"
  /\ devStatus' = g_kg1
  /\ pin' = Level(g_kg1)
  /\ told' = g_kg1
  /\ due' = {Restored(g_kg1)}
  /\ UNCHANGED <<g_dev_flag, g_kg1, left>>

(* user_plug_short_press                                                   *)
ShortPress == SetBegin(IF g_kg1 = 0 THEN 1 ELSE 0)

(* kg#1, and kg#2 for channel 0; for another channel kg#2 does nothing.    *)
KgSet == \E b \in Values : SetBegin(b)

(* kg#0 and tk#0                                                           *)
Query ==
  /\ pc = "Idle"
  /\ told' = g_kg1
  /\ UNCHANGED <<g_dev_flag, pc, g_kg1, pin, devStatus, left, due>>

(* trTKMode, for tk#1 and for channel 0 of tk#2.  The operating time that  *)
(* the command carries is not used.  A pulse under way starts again.       *)
TkPulse ==
  /\ pc = "Idle"
  /\ pin' = 1 /\ g_kg1' = 1 /\ told' = 1
  /\ left' = PulseTicks
  /\ UNCHANGED <<g_dev_flag, pc, devStatus, due>>

(* Faulty: the pin is switched off and the state is not.                   *)
TickStale ==
  /\ pc = "Idle" /\ left > 0
  /\ left' = left - 1
  /\ IF left = 1 THEN pin' = 0 /\ told' = g_kg1
                 ELSE UNCHANGED <<pin, told>>
  /\ UNCHANGED <<g_dev_flag, pc, g_kg1, devStatus, due>>

(* Faulty: the state is switched off and the pin is not.                   *)
TickOn ==
  /\ pc = "Idle" /\ left > 0
  /\ left' = left - 1
  /\ IF left = 1 THEN g_kg1' = 0 /\ told' = 0
                 ELSE UNCHANGED <<g_kg1, told>>
  /\ UNCHANGED <<g_dev_flag, pc, pin, devStatus, due>>

(* Time passes; trTKModeHandler when the timer fires.  Commands of the kg  *)
(* kind leave the timer armed.                                             *)
Tick ==
  /\ pc = "Idle" /\ left > 0
  /\ left' = left - 1
  /\ IF left = 1 THEN pin' = 0 /\ g_kg1' = 0 /\ told' = 0
                 ELSE UNCHANGED <<pin, g_kg1, told>>
  /\ UNCHANGED <<g_dev_flag, pc, devStatus, due>>

PowerLoss ==
  /\ pc # "Off"
  /\ pc' = "Off"
  /\ g_kg1' = 0 /\ pin' = 0 /\ left' = 0 /\ told' = -1
  /\ UNCHANGED <<g_dev_flag, devStatus, due>>

Next == \/ GpioInit \/ RealtimeInit
        \/ KgSet \/ SetEnd \/ ShortPress
        \/ Query
        \/ TkPulse
        \/ Tick
        \/ PowerLoss

Spec == Init /\ [][Next]_vars

(* The processor completes what it has begun, and time passes.             *)
FairSpec == Spec /\ WF_vars(RealtimeInit) /\ WF_vars(SetEnd) /\ WF_vars(Tick)

-----------------------------------------------------------------------------
TypeOK ==
  /\ g_dev_flag \in {"KG1", "TK1"}
  /\ pc \in {"Off", "GpioReady", "Idle", "Erased"}
  /\ g_kg1 \in 0..255
  /\ pin \in {0, 1}
  /\ devStatus \in {Erased} \cup 0..255
  /\ left \in 0..PulseTicks
  /\ told \in {-1} \cup 0..255
  /\ due \in SUBSET {0, 1}

(* Whenever no handler is running, the pin shows the state in RAM and the  *)
(* last state published since the power came on is the present one: no     *)
(* change, by whichever of the button, the commands and the timer of a     *)
(* pulse, escapes the controllers.                                         *)
StateIsReal ==
  pc = "Idle" => pin = Level(g_kg1) /\ told \in {-1, g_kg1}

(* "上电恢复状态": a KG1 comes up in the state of the last completed kg     *)
(* command or press, or of the one that the power failure interrupted, no  *)
(* matter how many pulses and failures came in between.  Only if the power *)
(* failed after the erase is the state lost, and the device comes up on.   *)
RestoresLast ==
  [][RealtimeInit /\ g_dev_flag = "KG1" =>
       g_kg1' \in (IF devStatus = Erased THEN {1} ELSE due)]_vars

Command == KgSet \/ ShortPress \/ TkPulse

(* A pulse ends (tk#1, tk#2: "延时开关"), whatever commands and presses come *)
(* in between: once they cease the output goes off, on a KG1 as on a TK1.  *)
PulseEnds ==
  <>[][~Command]_vars => (left > 0 ~> pin = 0)
=============================================================================
