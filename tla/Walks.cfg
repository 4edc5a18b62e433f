CONSTANTS
  Kinds <- AllKinds
  BranchFactor = 2
  Canopies <- MCCanopies
  Local <- MCLocal
  Remote <- MCRemote
  Leaves <- MCLeaves
  Buckets = {8, 9}
  Packs <- AllShipped
  ShareDepth = 1
  RequestPause = 1
  IterPause = 0
  CallSelfLeaf = TRUE
  BucketCanopies = {1, 2}
  BucketLocal = {4, 8, 9}
  BucketRemote = {3, 5, 6, 7}
  BucketLeaves = {5, 6, 7, 8, 9}
  BucketLeaf <- MCBucketLeaf
  BucketPacks <- MCBucketPacks
  BucketShareDepth = 2
  BucketSettings <- MCBucketSettings
  PieceAt <- MCPieceAt
  DualLeaves = {5, 6, 7, 8, 9}
  LeafOf <- MCLeafOf
  ProcessOf <- MCProcessOf
  RankOf <- MCRankOf
  HomeRank <- MCHomeRank
  Ranks = {0, 1}
  B = 2
  DualPacks <- MCDualPacks
  DualSettings <- MCDualSettings
SPECIFICATION WalksSpec
CHECK_DEADLOCK FALSE
INVARIANTS TransposedComplete VisitedOnce ResumeFindsWork EdgesExact
PROPERTY WalkEnds
