CONSTANTS
  KeyBits = 4
  LogB = 1
  Grain = 2
  Dims = 2
  NPes = 4
  PerProcess = 2
  Jobs <- MCJobs
  Settings <- MCSettings
  MaxOverrun = 1
SPECIFICATION PlacementSpec
CHECK_DEADLOCK FALSE
INVARIANTS FlushRoutes SplitsEven PiecesPlaced FairShares MovesAgree
PROPERTY PlacementEnds
