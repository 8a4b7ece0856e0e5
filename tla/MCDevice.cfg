CONSTANTS
  Values = {0, 1, 2}
  PulseTicks = 2
  LongTicks = 5
  DebounceTicks = 2
  LimitTicks = 3

SPECIFICATION DFairSpec
INVARIANT DTypeOK
INVARIANT StateIsReal
INVARIANT NextPressIsSeen
PROPERTY RestoresLast
PROPERTY PulseEnds
PROPERTY NoEarlyReset
PROPERTY ResetNeedsHolding
