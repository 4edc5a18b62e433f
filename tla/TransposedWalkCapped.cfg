\* A binary tree of three canopies and four pieces: 4 and 7 are this process's,
\* 5 and 6 another's.  The targets are leaves of 4; only the root is shipped.
CONSTANTS
  BranchFactor = 2
  Canopies = {1, 2, 3}
  Local = {4, 8, 9, 7, 14, 15}
  Remote = {5, 10, 11, 6}
  Leaves = {8, 9, 10, 11, 6, 14, 15}
  Buckets = {8, 9}
  Packs = {{1}}
  ShareDepth = 1
  RequestPause = 1
  IterPause = 0
  CallSelfLeaf = FALSE
SPECIFICATION Spec
CHECK_DEADLOCK FALSE
INVARIANT NotAbandoned
