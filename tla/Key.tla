-------------------------------- MODULE Key --------------------------------
(***************************************************************************)
(* The button (app/user/key.c): the interrupt of GPIO0, the timer that     *)
(* debounces the release and the timer of the long press, and what         *)
(* user_main.c makes of a long press.                                      *)
(*                                                                         *)
(* The pin's interrupt is triggered by one edge at a time, or off; an edge *)
(* that comes while it waits for the other one is lost.  Time advances in  *)
(* ticks of 50 ms, between which the processor does all that is due.       *)
(***************************************************************************)
EXTENDS Integers

CONSTANTS
  LongTicks,      \* the period of key_5s
  DebounceTicks,  \* the period of key_50ms
  LimitTicks      \* the period of g_ResetLimitTimer

(* What Device assumes of them.                                            *)
Periods ==
  /\ {LongTicks, DebounceTicks, LimitTicks} \subseteq Nat \ {0}
  /\ DebounceTicks < LongTicks /\ LimitTicks < LongTicks

VARIABLES
  level,      \* the pin: 1 when the key is up
  intr,       \* the edge that the pin's interrupt waits for
  pending,    \* an interrupt has been raised and not yet handled
  key_level, key_5s, key_50ms,  \* fields of struct single_key_param; a timer is the
                                \* number of ticks it has left, or Unarmed
  seen,       \* in the middle of key_50ms_cb: the level it has read
  uptime,     \* ticks since the start
  upFor,      \* history: ticks since the key has gone up
  since,      \* history: ticks since the key was last up for longer than a bounce
  raced       \* history: since the start the key has moved between an edge, or the
              \* reading of the pin, and the moment the interrupt was armed again

vars == <<level, intr, pending, key_level, key_5s, key_50ms, seen, uptime, upFor, since, raced>>

timers  == <<key_5s, key_50ms>>
history == <<uptime, upFor, since, raced>>

Unarmed == -1
NotRead == -1

(* Nothing is compared with a time beyond these bounds.                    *)
Bounded(t, bound) == IF t > bound THEN bound ELSE t

Init ==
  /\ level \in {0, 1}
  /\ intr = "NEGEDGE" /\ pending = FALSE
  /\ key_level = 1 /\ key_5s = Unarmed /\ key_50ms = Unarmed
  /\ seen = NotRead
  /\ uptime = 0 /\ upFor = 0 /\ since = 0 /\ raced = FALSE

-----------------------------------------------------------------------------
(* The key moves.                                                          *)
Move ==
  /\ level' = 1 - level
  /\ pending' = (pending \/ (level = 1 /\ intr = "NEGEDGE") \/ (level = 0 /\ intr = "POSEDGE"))
  /\ upFor' = 0
  /\ raced' = (raced \/ pending \/ seen # NotRead)
  /\ UNCHANGED <<intr, key_level, timers, seen, uptime, since>>

(* Faulty: the timer of the long press has the period of the reset limit.  *)
IntrHandlerShort ==
  /\ pending /\ pending' = FALSE
  /\ IF key_level = 1
     THEN key_5s' = LimitTicks /\ key_level' = 0 /\ intr' = "POSEDGE" /\ UNCHANGED key_50ms
     ELSE key_50ms' = DebounceTicks /\ intr' = "DISABLE" /\ UNCHANGED <<key_5s, key_level>>
  /\ UNCHANGED <<level, seen, history>>

(* Faulty: the release is not debounced; the next press is waited for.     *)
IntrHandlerEager ==
  /\ pending /\ pending' = FALSE
  /\ IF key_level = 1
     THEN key_5s' = LongTicks /\ key_level' = 0 /\ intr' = "POSEDGE" /\ UNCHANGED key_50ms
     ELSE key_50ms' = DebounceTicks /\ intr' = "NEGEDGE" /\ UNCHANGED <<key_5s, key_level>>
  /\ UNCHANGED <<level, seen, history>>

(* key_intr_handler                                                        *)
IntrHandler ==
  /\ pending /\ pending' = FALSE
  /\ IF key_level = 1
     THEN key_5s' = LongTicks /\ key_level' = 0 /\ intr' = "POSEDGE" /\ UNCHANGED key_50ms
     ELSE key_50ms' = DebounceTicks /\ intr' = "DISABLE" /\ UNCHANGED <<key_5s, key_level>>
  /\ UNCHANGED <<level, seen, history>>

(* key_50ms_cb up to the reading of the pin.                               *)
DebounceRead ==
  /\ key_50ms = 0 /\ key_50ms' = Unarmed
  /\ seen' = level
  /\ UNCHANGED <<level, intr, pending, key_level, key_5s, history>>

(* Faulty: the timer of the long press keeps running.                      *)
DebounceActOn ==
  /\ seen # NotRead /\ seen' = NotRead
  /\ IF seen = 1 THEN key_level' = 1 /\ intr' = "NEGEDGE"
                 ELSE intr' = "POSEDGE" /\ UNCHANGED key_level
  /\ UNCHANGED <<level, pending, timers, history>>

(* The rest of key_50ms_cb.  The release ends in user_plug_short_press,    *)
(* after a long press that was not allowed too.                            *)
DebounceAct ==
  /\ seen # NotRead /\ seen' = NotRead
  /\ IF seen = 1 THEN key_5s' = Unarmed /\ key_level' = 1 /\ intr' = "NEGEDGE"
                 ELSE intr' = "POSEDGE" /\ UNCHANGED <<key_5s, key_level>>
  /\ UNCHANGED <<level, pending, key_50ms, history>>

(* resetLimitHandler has run.                                              *)
ResetAllowed == uptime >= LimitTicks

(* After a start (key_init).                                               *)
Started ==
  /\ intr' = "NEGEDGE" /\ pending' = FALSE /\ seen' = NotRead
  /\ key_level' = 1 /\ key_5s' = Unarmed /\ key_50ms' = Unarmed
  /\ uptime' = 0 /\ upFor' = 0 /\ since' = 0 /\ raced' = FALSE

(* user_plug_long_press restarts the device, if it is allowed to.          *)
Reset ==
  /\ key_5s = 0 /\ level = 0 /\ seen = NotRead /\ ResetAllowed
  /\ Started
  /\ UNCHANGED level

(* A power failure; the key may be up or down when the power is back.      *)
PowerLoss == Started /\ level' \in {0, 1}

(* key_5s_cb when the key is up, or the reset is not allowed.              *)
NoReset ==
  /\ key_5s = 0 /\ seen = NotRead
  /\ level = 1 \/ ~ResetAllowed
  /\ key_5s' = Unarmed
  /\ UNCHANGED <<level, intr, pending, key_level, key_50ms, seen, history>>

Elapse(t) == IF t = Unarmed THEN Unarmed ELSE t - 1

Tick ==
  /\ ~pending /\ seen = NotRead /\ key_5s # 0 /\ key_50ms # 0
  /\ key_5s' = Elapse(key_5s) /\ key_50ms' = Elapse(key_50ms)
  /\ uptime' = Bounded(uptime + 1, LongTicks)
  /\ upFor' = IF level = 1 THEN Bounded(upFor + 1, DebounceTicks + 1) ELSE 0
  /\ since' = IF upFor' > DebounceTicks THEN 0 ELSE Bounded(since + 1, LongTicks)
  /\ UNCHANGED <<level, intr, pending, key_level, seen, raced>>

Next == Move \/ IntrHandler \/ DebounceRead \/ DebounceAct \/ Reset \/ NoReset \/ Tick \/ PowerLoss

Spec == Init /\ [][Next]_vars

-----------------------------------------------------------------------------
TypeOK ==
  /\ level \in {0, 1} /\ key_level \in {0, 1} /\ seen \in {NotRead, 0, 1}
  /\ intr \in {"NEGEDGE", "POSEDGE", "DISABLE"}
  /\ pending \in BOOLEAN
  /\ key_5s \in {Unarmed} \cup 0..LongTicks
  /\ key_50ms \in {Unarmed} \cup 0..DebounceTicks
  /\ uptime \in 0..LongTicks
  /\ upFor \in 0..(DebounceTicks + 1)
  /\ since \in 0..LongTicks
  /\ raced \in BOOLEAN
=============================================================================
