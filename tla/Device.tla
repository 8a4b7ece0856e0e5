------------------------------- MODULE Device -------------------------------
(***************************************************************************)
(* The device with its button: Relay and Key on one processor.  A release  *)
(* of the key is a short press to the relay, a long press restarts both,   *)
(* and a power failure takes both with it.  A handler of the one never     *)
(* runs within a handler of the other; only the key's interrupt may.       *)
(***************************************************************************)
EXTENDS Relay

CONSTANTS LongTicks, DebounceTicks, LimitTicks

VARIABLES level, intr, pending, key_level, key_5s, key_50ms, seen, uptime, upFor, since, raced

K == INSTANCE Key

ASSUME PeriodsAssumption == K!Periods

keyVars == <<level, intr, pending, key_level, key_5s, key_50ms, seen, uptime, upFor, since, raced>>
allVars == <<vars, keyVars>>

DInit == Init /\ K!Init

(* No handler is half done.                                                *)
Free == pc = "Idle" /\ seen = K!NotRead

(* user_init brings up the pin and the state; the key is seen to later.    *)
Boot == (GpioInit \/ RealtimeInit) /\ UNCHANGED keyVars

Commanded == Free /\ (KgSet \/ Query \/ TkPulse) /\ UNCHANGED keyVars

Stored == SetEnd /\ UNCHANGED keyVars

KeyMoves == pc \in {"Idle", "Erased"} /\ (K!Move \/ K!IntrHandler) /\ UNCHANGED vars

KeyTimers == pc = "Idle" /\ (K!DebounceRead \/ K!NoReset) /\ UNCHANGED vars

(* key_50ms_cb ends in user_plug_short_press if the key is up.             *)
KeyReleased ==
  /\ pc = "Idle" /\ K!DebounceAct
  /\ IF seen = 1 THEN ShortPress ELSE UNCHANGED vars

(* user_plug_long_press ends in system_restart.                            *)
LongPress == pc = "Idle" /\ K!Reset /\ PowerLoss

PowerFails == PowerLoss /\ K!PowerLoss

(* Time passes for both.                                                   *)
TimePasses == pc = "Idle" /\ K!Tick /\ (Tick \/ (left = 0 /\ UNCHANGED vars))

DNext ==
  \/ Boot \/ Commanded \/ Stored
  \/ KeyMoves \/ KeyTimers \/ KeyReleased \/ LongPress
  \/ PowerFails \/ TimePasses

DSpec == DInit /\ [][DNext]_allVars

(* The processor completes what it has begun, and however the key bounces, *)
(* time passes.                                                            *)
DFairSpec ==
  /\ DSpec
  /\ WF_allVars(Boot) /\ WF_allVars(Stored)
  /\ SF_allVars(KeyMoves /\ K!IntrHandler) /\ SF_allVars(KeyTimers)
  /\ SF_allVars(KeyReleased) /\ SF_allVars(LongPress) /\ SF_allVars(TimePasses)

-----------------------------------------------------------------------------
(* Types, of both parts.                                                   *)
DTypeOK == TypeOK /\ K!TypeOK

(* The button's properties, for the device as a whole.                     *)

(* "上电5秒内不能重置硬件": no reset in the first five seconds after a start,*)
(* whatever the relay does meanwhile.                                      *)
NoEarlyReset == [][LongPress => uptime >= LongTicks]_allVars

(* "5s, restart": a reset needs the key held for five seconds, with no     *)
(* interruption longer than a bounce, as long as no edge has fallen into a *)
(* moment in which the interrupt was not armed for it.                     *)
ResetNeedsHolding == [][LongPress /\ ~raced => since >= LongTicks]_allVars

(* A key that is up, with nothing left to be done about it, is waited for, *)
(* whatever the relay is doing: the next press will not be missed, nor be  *)
(* taken for a release.                                                    *)
NextPressIsSeen ==
  (~raced /\ level = 1 /\ ~pending /\ seen = K!NotRead /\ key_50ms = K!Unarmed)
  => (key_level = 1 /\ intr = "NEGEDGE")
=============================================================================
