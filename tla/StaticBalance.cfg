CONSTANTS
  NPes = 2
  NElements = 2
  Jobs <- MCJobs
  KChunk = 1
SPECIFICATION Spec
INVARIANT ParticlesKept
CHECK_DEADLOCK FALSE
