CONSTANTS
  MaxOverrun = 1
  Settings <- MCSettings
SPECIFICATION Spec
CHECK_DEADLOCK FALSE
INVARIANT PlacedOnce
