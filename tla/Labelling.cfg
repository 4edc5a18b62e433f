SPECIFICATION LabellingSpec
CHECK_DEADLOCK FALSE
CONSTANTS
  P = P
  Q = Q
  R = R
  P1 = P1
  P2 = P2
  Q1 = Q1
  R1 = R1
  Procs <- MCProcs
  PEs <- MCPEs
  ProcOf <- MCProcOf
  Tips <- MCTips
  Owner <- MCOwner
  TipsOf <- MCTipsOf
  Graphs <- MCGraphs
  Finders <- MCFinders
  Modes <- MCModes
  Iterations = 2
  Ranks <- MCRanks
  Count <- MCCount
  Mix <- MCMix
  Windowings <- MCWindowings
  Runs <- MCRuns
  Forests <- MCForests
  Resident = 2
INVARIANTS CensusExact DeviceExact
PROPERTIES ImplementsFlat LabellingEnds
