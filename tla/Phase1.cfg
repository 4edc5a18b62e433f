SPECIFICATION Phase1Spec
CHECK_DEADLOCK FALSE
CONSTANTS
  t1 = t1
  t2 = t2
  t3 = t3
  t4 = t4
  PEs <- MCPEs
  Pieces <- MCPieces
  Home <- MCHome
  Parts <- MCParts
  Near <- MCNear
  Layouts <- MCLayouts
  Splits <- MCSplits
  Scenes <- MCScenes
  MinGrid = 3
INVARIANTS GroupsExact PairsOnce WalkExact
PROPERTIES FrozenWhileRead ChainEnds
