CONSTANTS
  Walkers = {w1, w2}
  Installers = {i1}
  Eager = Eager
  Null = Null
  FreedReads = {w1, w2}
  MaxTouches = 1
SPECIFICATION Spec
INVARIANT NoLostWakeup
CHECK_DEADLOCK FALSE
