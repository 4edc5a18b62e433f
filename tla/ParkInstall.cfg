CONSTANTS
  Walkers = {w1, w2}
  Installers = {i1, i2}
  Eager = Eager
  Null = Null
  FreedReads = {}
  MaxTouches = 3
SPECIFICATION FairSpec
INVARIANTS TypeOK NoLostWakeup
PROPERTIES ImplementsContract EveryWaiterResumed
CHECK_DEADLOCK FALSE
