--------------------------- MODULE Device_proofs ---------------------------
(***************************************************************************)
(* Proofs about the device.  First its relay by itself: its types, the     *)
(* agreement of pin, RAM and publications, and what a power failure leaves.*)
(* Then: a step of the device is a step of the relay and one of the key, or*)
(* leaves them alone, so that each of them goes on as it would by itself;  *)
(* and from this what the button promises, for all periods.                *)
(***************************************************************************)
EXTENDS Device, TLAPS

-----------------------------------------------------------------------------
(* The relay.                                                              *)

(* A level is a bit.                                                       *)
LEMMA LevelBit == ASSUME NEW v \in 0..255 PROVE Level(v) \in {0, 1}
BY SMT DEF Level

(* The bytes 0 and 1 are their own level.                                  *)
LEMMA LevelOfBit == Level(0) = 0 /\ Level(1) = 1
BY SMT DEF Level

(* What is restored is on or off.                                          *)
LEMMA RestoredBit == \A v : Restored(v) \in {0, 1}
BY DEF Restored

(* The relay's variables always have their types.                          *)
THEOREM TypeCorrect == Spec => []TypeOK
<1>1. Init => TypeOK
  BY PulseAssumption, RestoredBit, SMT DEF Init, TypeOK, Erased
<1>2. TypeOK /\ [Next]_vars => TypeOK'
  <2> SUFFICES ASSUME TypeOK, [Next]_vars PROVE TypeOK'
    OBVIOUS
  <2> USE PulseAssumption DEF TypeOK, Erased
  <2>1. CASE GpioInit
    BY <2>1 DEF GpioInit
  <2>2. CASE RealtimeInit
    <3>1. g_kg1' \in 0..255
      BY <2>2, RestoredBit DEF RealtimeInit
    <3>2. pin' \in {0, 1}
      BY <2>2, <3>1, LevelBit DEF RealtimeInit
    <3> QED
      BY <2>2, <3>1, <3>2 DEF RealtimeInit
  <2>3. ASSUME NEW b \in 0..255, SetBegin(b) PROVE TypeOK'
    BY <2>3, RestoredBit DEF SetBegin
  <2>4. CASE SetEnd
    BY <2>4, LevelBit, RestoredBit DEF SetEnd
  <2>5. CASE Query
    BY <2>5 DEF Query
  <2>6. CASE TkPulse
    BY <2>6 DEF TkPulse
  <2>7. CASE Tick
    BY <2>7 DEF Tick
  <2>8. CASE PowerLoss
    BY <2>8 DEF PowerLoss
  <2>9. CASE UNCHANGED vars
    BY <2>9 DEF vars
  <2>10. KgSet \/ ShortPress => \E b \in 0..255 : SetBegin(b)
    BY ValuesAssumption DEF KgSet, ShortPress
  <2> QED
    BY <2>1, <2>2, <2>3, <2>4, <2>5, <2>6, <2>7, <2>8, <2>9, <2>10 DEF Next
<1> QED
  BY <1>1, <1>2, PTL DEF Spec

(* Nothing has been published before the state was restored: without this, *)
(* StateIsReal would not survive sysTrans_RealtimeInit.                    *)
ReportInv == StateIsReal /\ (pc \in {"Off", "GpioReady"} => told = -1)

(* While no handler is running, pin, RAM and the last publication agree:   *)
(* in every interleaving of commands, presses, pulses and power failures.  *)
THEOREM PinAndReportsReal == Spec => []StateIsReal
<1>1. Init => ReportInv
  BY DEF Init, ReportInv, StateIsReal
<1>2. ReportInv /\ [Next]_vars => ReportInv'
  <2> SUFFICES ASSUME ReportInv, [Next]_vars PROVE ReportInv'
    OBVIOUS
  <2> USE DEF ReportInv, StateIsReal
  <2>1. CASE GpioInit
    BY <2>1 DEF GpioInit
  <2>2. CASE RealtimeInit
    BY <2>2 DEF RealtimeInit
  <2>3. CASE KgSet \/ ShortPress
    BY <2>3 DEF KgSet, ShortPress, SetBegin
  <2>4. CASE SetEnd
    BY <2>4 DEF SetEnd
  <2>5. CASE Query
    BY <2>5 DEF Query
  <2>6. CASE TkPulse
    BY <2>6, LevelOfBit DEF TkPulse
  <2>7. CASE Tick
    BY <2>7, LevelOfBit DEF Tick
  <2>8. CASE PowerLoss
    BY <2>8 DEF PowerLoss
  <2>9. CASE UNCHANGED vars
    BY <2>9 DEF vars
  <2> QED
    BY <2>1, <2>2, <2>3, <2>4, <2>5, <2>6, <2>7, <2>8, <2>9 DEF Next
<1>3. ReportInv => StateIsReal
  BY DEF ReportInv
<1> QED
  BY <1>1, <1>2, <1>3, PTL DEF Spec

(* The flash sector holds one of the states that are due, or is erased;    *)
(* while a handler is between the erase and the write the value it has     *)
(* still to write is due as well.                                          *)
FlashHoldsDue ==
  /\ devStatus # Erased => Restored(devStatus) \in due
  /\ pc = "Erased" => Restored(g_kg1) \in due

(* FlashHoldsDue is an invariant.                                          *)
LEMMA FlashInvariant == Spec => []FlashHoldsDue
<1>1. Init => FlashHoldsDue
  BY DEF Init, FlashHoldsDue
<1>2. FlashHoldsDue /\ [Next]_vars => FlashHoldsDue'
  <2> SUFFICES ASSUME FlashHoldsDue, [Next]_vars PROVE FlashHoldsDue'
    OBVIOUS
  <2> USE DEF FlashHoldsDue
  <2>1. CASE GpioInit \/ RealtimeInit \/ Query \/ TkPulse \/ Tick \/ PowerLoss
    BY <2>1 DEF GpioInit, RealtimeInit, Query, TkPulse, Tick, PowerLoss
  <2>2. CASE KgSet \/ ShortPress
    BY <2>2 DEF KgSet, ShortPress, SetBegin
  <2>3. CASE SetEnd
    BY <2>3 DEF SetEnd
  <2>4. CASE UNCHANGED vars
    BY <2>4 DEF vars
  <2> QED
    BY <2>1, <2>2, <2>3, <2>4 DEF Next
<1> QED
  BY <1>1, <1>2, PTL DEF Spec

(* A KG1 comes up in the state of the last completed command or of the one *)
(* that was interrupted, or on if its sector is erased.                    *)
THEOREM PowerUpRestores == Spec => RestoresLast
<1>1. FlashHoldsDue /\ [Next]_vars =>
        [RealtimeInit /\ g_dev_flag = "KG1" =>
           g_kg1' \in (IF devStatus = Erased THEN {1} ELSE due)]_vars
  BY DEF FlashHoldsDue, RealtimeInit, Restored, Erased
<1> QED
  BY <1>1, FlashInvariant, PTL DEF Spec, RestoresLast

-----------------------------------------------------------------------------
(* The device.                                                             *)

(* What the constants of the key's timers are.                             *)
LEMMA PeriodsAreTicks ==
  /\ LongTicks \in Nat \ {0} /\ DebounceTicks \in Nat \ {0} /\ LimitTicks \in Nat \ {0}
  /\ DebounceTicks < LongTicks
BY PeriodsAssumption DEF K!Periods

(* Every step of the device is a step of the relay or none.                *)
LEMMA RelayStep == [DNext]_allVars => [Next]_vars
<1> SUFFICES ASSUME [DNext]_allVars PROVE [Next]_vars
  OBVIOUS
<1>1. CASE Boot
  BY <1>1 DEF Boot, Next
<1>2. CASE Commanded
  BY <1>2 DEF Commanded, Next
<1>3. CASE Stored
  BY <1>3 DEF Stored, Next
<1>4. CASE KeyMoves \/ KeyTimers
  BY <1>4 DEF KeyMoves, KeyTimers
<1>5. CASE KeyReleased
  BY <1>5 DEF KeyReleased, Next
<1>6. CASE LongPress \/ PowerFails
  BY <1>6 DEF LongPress, PowerFails, Next
<1>7. CASE TimePasses
  BY <1>7 DEF TimePasses, Next
<1>8. CASE UNCHANGED allVars
  BY <1>8 DEF allVars
<1> QED
  BY <1>1, <1>2, <1>3, <1>4, <1>5, <1>6, <1>7, <1>8 DEF DNext

(* Every step of the device is a step of the key or none.                  *)
LEMMA KeyStep == [DNext]_allVars => [K!Next]_keyVars
<1> SUFFICES ASSUME [DNext]_allVars PROVE [K!Next]_keyVars
  OBVIOUS
<1>1. CASE Boot \/ Commanded \/ Stored
  BY <1>1 DEF Boot, Commanded, Stored
<1>2. CASE KeyMoves
  BY <1>2 DEF KeyMoves, K!Next
<1>3. CASE KeyTimers
  BY <1>3 DEF KeyTimers, K!Next
<1>4. CASE KeyReleased
  BY <1>4 DEF KeyReleased, K!Next
<1>5. CASE LongPress
  BY <1>5 DEF LongPress, K!Next
<1>6. CASE PowerFails
  BY <1>6 DEF PowerFails, K!Next
<1>7. CASE TimePasses
  BY <1>7 DEF TimePasses, K!Next
<1>8. CASE UNCHANGED allVars
  BY <1>8 DEF allVars
<1> QED
  BY <1>1, <1>2, <1>3, <1>4, <1>5, <1>6, <1>7, <1>8 DEF DNext

(* The device behaves as a relay, whatever the key does.                   *)
THEOREM DeviceIsRelay == DSpec => Spec
<1>1. DInit => Init
  BY DEF DInit
<1> QED
  BY <1>1, RelayStep, PTL DEF DSpec, Spec

(* The device behaves as a key, whatever the relay does.                   *)
THEOREM DeviceIsKey == DSpec => K!Spec
<1>1. DInit => K!Init
  BY DEF DInit
<1>2. [DNext]_allVars => [K!Next]_(K!vars)
  BY KeyStep DEF keyVars, K!vars
<1> QED
  BY <1>1, <1>2, PTL DEF DSpec, K!Spec

-----------------------------------------------------------------------------
(* What the button needs to hold at all times.                             *)

(* A timer of the long press that runs out has run since the start.        *)
LongTimer == key_5s # K!Unarmed => uptime + key_5s >= LongTicks

(* The edge that is waited for goes with the phase of a press, and a press *)
(* with the level of the pin, as long as no edge was lost.                 *)
Phases ==
  /\ intr = "NEGEDGE" => /\ key_level = 1 /\ key_50ms = K!Unarmed /\ seen = K!NotRead
                         /\ key_5s = K!Unarmed /\ (pending => level = 0)
  /\ intr = "POSEDGE" => /\ key_level = 0 /\ key_50ms = K!Unarmed /\ seen = K!NotRead
                         /\ level = IF pending THEN 1 ELSE 0
  /\ intr = "DISABLE" => /\ key_level = 0 /\ ~pending
                         /\ (key_50ms = K!Unarmed <=> seen # K!NotRead)
                         /\ (seen # K!NotRead => seen = level)

(* While the long press is timed, the key has been up for less than a      *)
(* bounce, and down for what the timer has counted.                        *)
Holding ==
  /\ pending => upFor = 0
  /\ level = 1 /\ key_50ms # K!Unarmed => upFor + key_50ms <= DebounceTicks
  /\ key_5s # K!Unarmed => since + key_5s >= LongTicks

KeyInv == K!TypeOK /\ LongTimer /\ (~raced => Phases /\ Holding)

(* The key's variables keep their types.                                   *)
LEMMA KeyTypes == K!TypeOK /\ [K!Next]_keyVars => K!TypeOK'
<1> SUFFICES ASSUME K!TypeOK, [K!Next]_keyVars PROVE K!TypeOK'
  OBVIOUS
<1> USE PeriodsAreTicks DEF K!TypeOK, K!Unarmed, K!NotRead
<1>1. CASE K!Move
  BY <1>1 DEF K!Move, K!timers
<1>2. CASE K!IntrHandler
  <2>1. pending' \in BOOLEAN /\ raced' \in BOOLEAN
    BY <1>2, Zenon DEF K!IntrHandler, K!history
  <2>2. /\ key_level' \in {0, 1} /\ intr' \in {"NEGEDGE", "POSEDGE", "DISABLE"}
        /\ key_5s' \in {K!Unarmed} \cup 0..LongTicks
        /\ key_50ms' \in {K!Unarmed} \cup 0..DebounceTicks
    BY <1>2 DEF K!IntrHandler
  <2> QED
    BY <1>2, <2>1, <2>2 DEF K!IntrHandler, K!history
<1>3. CASE K!DebounceRead
  BY <1>3 DEF K!DebounceRead, K!history
<1>4. CASE K!DebounceAct
  BY <1>4 DEF K!DebounceAct, K!history
<1>5. CASE K!Reset \/ K!PowerLoss
  <2>1. level' \in {0, 1}
    BY <1>5 DEF K!Reset, K!PowerLoss
  <2>2. pending' \in BOOLEAN /\ raced' \in BOOLEAN
    BY <1>5, Zenon DEF K!Reset, K!PowerLoss, K!Started
  <2>3. /\ uptime' = 0 /\ upFor' = 0 /\ since' = 0 /\ key_level' = 1 /\ intr' = "NEGEDGE"
        /\ seen' = K!NotRead /\ key_5s' = K!Unarmed /\ key_50ms' = K!Unarmed
    BY <1>5 DEF K!Reset, K!PowerLoss, K!Started
  <2> QED
    BY <2>1, <2>2, <2>3
<1>6. CASE K!NoReset
  BY <1>6 DEF K!NoReset, K!history
<1>7. CASE K!Tick
  BY <1>7 DEF K!Tick, K!Elapse, K!Bounded
<1>8. CASE UNCHANGED keyVars
  BY <1>8 DEF keyVars
<1> QED
  BY <1>1, <1>2, <1>3, <1>4, <1>5, <1>6, <1>7, <1>8 DEF K!Next

(* A step of the key keeps the time since the start ahead of the timer.    *)
LEMMA LongTimerKept == K!TypeOK /\ LongTimer /\ [K!Next]_keyVars => LongTimer'
<1> SUFFICES ASSUME K!TypeOK, LongTimer, [K!Next]_keyVars PROVE LongTimer'
  OBVIOUS
<1> USE PeriodsAreTicks DEF LongTimer, K!TypeOK, K!Unarmed, K!NotRead
<1>1. CASE K!Move
  BY <1>1 DEF K!Move, K!timers
<1>2. CASE K!IntrHandler
  BY <1>2 DEF K!IntrHandler, K!history
<1>3. CASE K!DebounceRead
  BY <1>3 DEF K!DebounceRead, K!history
<1>4. CASE K!DebounceAct
  BY <1>4 DEF K!DebounceAct, K!history
<1>5. CASE K!Reset \/ K!PowerLoss
  BY <1>5 DEF K!Reset, K!PowerLoss, K!Started
<1>6. CASE K!NoReset
  BY <1>6 DEF K!NoReset, K!history
<1>7. CASE K!Tick
  BY <1>7 DEF K!Tick, K!Elapse, K!Bounded
<1>8. CASE UNCHANGED keyVars
  BY <1>8 DEF keyVars
<1> QED
  BY <1>1, <1>2, <1>3, <1>4, <1>5, <1>6, <1>7, <1>8 DEF K!Next

(* A step of the key that loses no edge keeps the phases.                  *)
LEMMA PhasesKept ==
  K!TypeOK /\ (~raced => Phases) /\ [K!Next]_keyVars => (~raced => Phases)'
<1> SUFFICES ASSUME K!TypeOK, ~raced => Phases, [K!Next]_keyVars, ~raced' PROVE Phases'
  OBVIOUS
<1> USE PeriodsAreTicks DEF Phases, K!TypeOK, K!Unarmed, K!NotRead
<1>1. CASE K!Move
  <2>1. ~raced /\ ~pending /\ seen = K!NotRead
    BY <1>1, Zenon DEF K!Move
  <2>2. /\ level' = 1 - level /\ intr' = intr /\ key_level' = key_level /\ seen' = seen
        /\ key_5s' = key_5s /\ key_50ms' = key_50ms
    BY <1>1 DEF K!Move, K!timers
  <2>3. pending' <=> (level = 1 /\ intr = "NEGEDGE") \/ (level = 0 /\ intr = "POSEDGE")
    BY <1>1, <2>1, Zenon DEF K!Move
  <2>4. CASE intr = "NEGEDGE"
    BY <2>1, <2>2, <2>3, <2>4
  <2>5. CASE intr = "POSEDGE"
    BY <2>1, <2>2, <2>3, <2>5
  <2>6. CASE intr = "DISABLE"
    BY <2>1, <2>2, <2>3, <2>6
  <2> QED
    BY <2>4, <2>5, <2>6
<1>2. CASE K!IntrHandler
  BY <1>2 DEF K!IntrHandler, K!history
<1>3. CASE K!DebounceRead
  BY <1>3 DEF K!DebounceRead, K!history
<1>4. CASE K!DebounceAct
  BY <1>4 DEF K!DebounceAct, K!history
<1>5. CASE K!Reset \/ K!PowerLoss
  BY <1>5 DEF K!Reset, K!PowerLoss, K!Started
<1>6. CASE K!NoReset
  BY <1>6 DEF K!NoReset, K!history
<1>7. CASE K!Tick
  BY <1>7 DEF K!Tick, K!Elapse
<1>8. CASE UNCHANGED keyVars
  BY <1>8 DEF keyVars
<1> QED
  BY <1>1, <1>2, <1>3, <1>4, <1>5, <1>6, <1>7, <1>8 DEF K!Next

(* Such a step keeps what is said of a key that is being held.             *)
LEMMA HoldingKept ==
  K!TypeOK /\ (~raced => Phases /\ Holding) /\ [K!Next]_keyVars => (~raced => Holding)'
<1> SUFFICES ASSUME K!TypeOK, ~raced => Phases /\ Holding, [K!Next]_keyVars, ~raced'
             PROVE  Holding'
  OBVIOUS
<1> USE PeriodsAreTicks DEF Holding, K!TypeOK, K!Unarmed, K!NotRead
<1>1. CASE K!Move
  BY <1>1 DEF K!Move, K!timers
<1>2. CASE K!IntrHandler
  BY <1>2 DEF K!IntrHandler, K!history, Phases
<1>3. CASE K!DebounceRead
  BY <1>3 DEF K!DebounceRead, K!history
<1>4. CASE K!DebounceAct
  BY <1>4 DEF K!DebounceAct, K!history
<1>5. CASE K!Reset \/ K!PowerLoss
  BY <1>5 DEF K!Reset, K!PowerLoss, K!Started
<1>6. CASE K!NoReset
  BY <1>6 DEF K!NoReset, K!history
<1>7. CASE K!Tick
  BY <1>7 DEF K!Tick, K!Elapse, K!Bounded, Phases
<1>8. CASE UNCHANGED keyVars
  BY <1>8 DEF keyVars
<1> QED
  BY <1>1, <1>2, <1>3, <1>4, <1>5, <1>6, <1>7, <1>8 DEF K!Next

(* All of it together, for the device.                                     *)
LEMMA KeyInvariant == DSpec => []KeyInv
<1>1. DInit => KeyInv
  <2> SUFFICES ASSUME K!Init PROVE KeyInv
    BY DEF DInit
  <2> USE PeriodsAreTicks DEF K!Init, K!Unarmed, K!NotRead
  <2>1. pending \in BOOLEAN /\ raced \in BOOLEAN
    BY Zenon
  <2>2. /\ level \in {0, 1} /\ intr = "NEGEDGE" /\ key_level = 1 /\ seen = K!NotRead
        /\ key_5s = K!Unarmed /\ key_50ms = K!Unarmed
        /\ uptime = 0 /\ upFor = 0 /\ since = 0
    OBVIOUS
  <2>3. K!TypeOK
    BY ONLY <2>1, <2>2, PeriodsAreTicks DEF K!TypeOK, K!Unarmed, K!NotRead
  <2>4. LongTimer /\ Phases /\ Holding
    BY DEF LongTimer, Phases, Holding
  <2> QED
    BY <2>3, <2>4 DEF KeyInv
<1>2. KeyInv /\ [DNext]_allVars => KeyInv'
  BY KeyStep, KeyTypes, LongTimerKept, PhasesKept, HoldingKept DEF KeyInv
<1> QED
  BY <1>1, <1>2, PTL DEF DSpec

-----------------------------------------------------------------------------
(* The properties of the device.                                           *)

(* The variables of the relay and of the key keep their types.             *)
THEOREM DeviceTypes == DSpec => []DTypeOK
<1>1. KeyInv => K!TypeOK
  BY DEF KeyInv
<1> QED
  BY <1>1, DeviceIsRelay, TypeCorrect, KeyInvariant, PTL DEF DTypeOK

(* Pin, RAM and the last publication agree whenever no handler of the relay*)
(* runs, the button included.                                              *)
THEOREM DeviceStateReal == DSpec => []StateIsReal
BY DeviceIsRelay, PinAndReportsReal, PTL

(* After a power failure a KG1 has the state it was given last, by a       *)
(* command or by the button.                                               *)
THEOREM DeviceRestores == DSpec => RestoresLast
BY DeviceIsRelay, PowerUpRestores, PTL

(* A key that is up will be noticed when it is pressed.                    *)
THEOREM PressIsAwaited == DSpec => []NextPressIsSeen
<1>1. KeyInv => NextPressIsSeen
  BY DEF KeyInv, Phases, NextPressIsSeen, K!TypeOK, K!Unarmed, K!NotRead
<1> QED
  BY <1>1, KeyInvariant, PTL

(* The device is not reset within the period of the long press.            *)
THEOREM ResetIsLate == DSpec => NoEarlyReset
<1>1. KeyInv /\ [DNext]_allVars => [LongPress => uptime >= LongTicks]_allVars
  <2> SUFFICES ASSUME KeyInv, LongPress PROVE uptime >= LongTicks
    OBVIOUS
  <2>1. key_5s = 0
    BY DEF LongPress, K!Reset
  <2> QED
    BY <2>1, PeriodsAreTicks DEF KeyInv, LongTimer, K!TypeOK, K!Unarmed
<1> QED
  BY <1>1, KeyInvariant, PTL DEF DSpec, NoEarlyReset

(* Only a key that is held resets the device.                              *)
THEOREM ResetIsHeld == DSpec => ResetNeedsHolding
<1>1. KeyInv /\ [DNext]_allVars => [LongPress /\ ~raced => since >= LongTicks]_allVars
  <2> SUFFICES ASSUME KeyInv, LongPress, ~raced PROVE since >= LongTicks
    OBVIOUS
  <2>1. key_5s = 0
    BY DEF LongPress, K!Reset
  <2> QED
    BY <2>1, PeriodsAreTicks DEF KeyInv, Holding, K!TypeOK, K!Unarmed
<1> QED
  BY <1>1, KeyInvariant, PTL DEF DSpec, ResetNeedsHolding
=============================================================================
