CONSTANTS
  l1 = l1
  l2 = l2
  l3 = l3
  a = a
  b = b
  t1 = t1
  t2 = t2
  t3 = t3
  t4 = t4
  c1 = c1
  c2 = c2
  Lanes = {l1, l2, l3}
  NChunks = 4
  Iterations = 2
  Scenarios <- MCScenarios
  Readers = {a, b}
  FlushPieces = {t1, t2, t3, t4}
  Plans <- MCPlans
  LocalTo <- MCLocalTo
  Exchanges = 2
  Processes = {c1, c2}
  BranchFactor = 2
  Decompositions <- MCDecompositions
  Rounds = 2
  CanopyIterations = 2
  NPes = 3
  NElements = 2
  KChunk = 1
  HostPEs = {0, 1}
SPECIFICATION IterationSpec
CHECK_DEADLOCK FALSE
INVARIANTS TypeOK InOrder LoadComplete FlushSettles BuildSound SumsComplete ParticlesKept FilesExact LabelsReturned
PROPERTY StagesEnd
