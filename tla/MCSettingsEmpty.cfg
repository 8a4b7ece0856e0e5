\* A form without an SSID is saved.
CONSTANTS
  MaxJson = 1
  MaxOpen = 1
  RestartTicks = 1
  FlashFails = FALSE
  Breaks = FALSE

SPECIFICATION Spec
INVARIANT WorkHasRouter
