\* Everything that can fail does.
CONSTANTS
  MaxJson = 2
  MaxOpen = 2
  RestartTicks = 2
  FlashFails = TRUE
  Breaks = TRUE

SPECIFICATION FairSpec
INVARIANT TypeOK
INVARIANT SettingsMatchJson
INVARIANT NoGarbageInWork
PROPERTY SaveRestarts
PROPERTY NewJsonTakesEffect
PROPERTY ComesUp
