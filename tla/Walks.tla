-------------------------------- MODULE Walks --------------------------------
(***************************************************************************)
(* The traversers of src/Traverser.h beside each other: a transposed walk  *)
(* carries its buckets down the tree together (TransposedWalk), a basic or *)
(* an up-and-down walk takes them one at a time (BucketWalk), and a dual   *)
(* walk goes down two trees (DualWalk).  Each has a tree of its own; a     *)
(* behaviour is one of them.                                               *)
(***************************************************************************)
EXTENDS TransposedWalk

CONSTANTS
  Kinds,
  \* the tree of BucketWalk
  BucketCanopies, BucketLocal, BucketRemote, BucketLeaves, BucketLeaf, BucketPacks,
  BucketShareDepth, BucketSettings,
  \* the tree of DualWalk
  PieceAt, DualLeaves, LeafOf, ProcessOf, RankOf, HomeRank, Ranks, B, DualPacks, DualSettings

VARIABLES
  kind,
  setting,
  \* of BucketWalk alone
  from, now_ready, bucket, nodes, saved_start_idx, next_stop_index, num_waiting, trav_tops,
  tops_started, insertions, new_nodes,
  \* of DualWalk alone
  group_number, data, weights, process, trav, seen, edges, leaf_ints, walked

bucketOnly == <<from, now_ready, bucket, nodes, saved_start_idx, next_stop_index, num_waiting,
                trav_tops, tops_started, insertions, new_nodes>>
dualOnly == <<group_number, data, weights, process, trav, seen, edges, leaf_ints, walked>>
transposedOnly == <<started, stack, paused_curr_nodes, next_paused, handle_count, processed_keys,
                    resuming, opened>>
bothOnly == <<entry, parking, curr_nodes, num_requested, resume_nodes, goDowns, resumes, visits>>

Bucket == INSTANCE BucketWalk WITH
  Canopies <- BucketCanopies, Local <- BucketLocal, Remote <- BucketRemote,
  Leaves <- BucketLeaves, Packs <- BucketPacks, ShareDepth <- BucketShareDepth,
  Settings <- BucketSettings

Dual == INSTANCE DualWalk WITH Leaves <- DualLeaves, Packs <- DualPacks, Settings <- DualSettings

ASSUME BucketTreeAssumption == Bucket!BucketWalkAssumption

\* What walks of another kind use is left alone.
NoBucket ==
  /\ from = << >> /\ now_ready = << >> /\ bucket = << >> /\ nodes = << >>
  /\ saved_start_idx = << >> /\ next_stop_index = << >> /\ num_waiting = << >> /\ trav_tops = << >>
  /\ tops_started = << >> /\ insertions = << >> /\ new_nodes = << >>
NoDual ==
  /\ group_number = << >> /\ data = << >> /\ weights = << >> /\ process = << >>
  /\ trav = << >> /\ seen = << >> /\ edges = << >> /\ leaf_ints = << >>
  /\ walked = << >>
NoTransposed ==
  /\ started = << >> /\ stack = << >> /\ paused_curr_nodes = << >> /\ next_paused = << >>
  /\ handle_count = << >> /\ processed_keys = << >> /\ resuming = << >> /\ opened = << >>
NoBoth ==
  /\ entry = << >> /\ curr_nodes = << >> /\ num_requested = << >> /\ resume_nodes = << >>
  /\ goDowns = << >> /\ resumes = << >> /\ visits = << >> /\ parking = << >>

WalksInit ==
  /\ kind \in Kinds
  /\ \/ /\ kind = "transposed" /\ Init
        /\ setting = << >> /\ NoBucket /\ NoDual
     \/ /\ kind = "bucket" /\ Bucket!Init
        /\ NoTransposed /\ NoDual
     \/ /\ kind = "dual" /\ Dual!Init
        /\ NoTransposed /\ NoBucket /\ NoBoth

\* What the steps of a kind leave alone.
Transposed ==
  kind = "transposed" /\ UNCHANGED <<kind, setting, bucketOnly, dualOnly>>
ByBucket ==
  kind = "bucket" /\ UNCHANGED <<kind, transposedOnly, dualOnly>>
ByPair ==
  kind = "dual" /\ UNCHANGED <<kind, transposedOnly, bucketOnly, bothOnly>>

WalksNext ==
  \/ Transposed /\ Next
  \/ ByBucket /\ Bucket!Next
  \/ ByPair /\ Dual!Next

WalksVars == <<kind, setting, vars, bucketOnly, dualOnly>>

\* The owners go on with what they have, and every request is answered; other
\* PEs need not ask for anything.
Driven ==
  \/ Transposed /\ (Owner \/ \E n \in requested : Install(n))
  \/ ByBucket /\ (Bucket!Owner \/ \E n \in requested : Bucket!Install(n))
  \/ ByPair /\ Dual!Next

WalksSpec == WalksInit /\ [][WalksNext]_WalksVars /\ WF_WalksVars(Driven)

-----------------------------------------------------------------------------
(* Properties.                                                             *)

\* What TransposedWalk promises.
TransposedComplete == kind = "transposed" => Complete

\* A bucket visits every node it has to once, and the walks of the owners of two
\* buckets share out the pairs of their nodes: none is visited twice.
VisitedOnce ==
  /\ kind = "bucket" => Bucket!EachNodeOnce
  /\ kind = "dual" => Dual!PairWalkedOnce

\* What BucketWalk promises besides.
ResumeFindsWork == kind = "bucket" => Bucket!ResumeFindsWork

\* What DualWalk promises besides.
EdgesExact == kind = "dual" => Dual!EdgesExact

\* Every walk comes to its end, however often it pauses.
WalkEnds ==
  <>[] (\/ kind = "transposed" /\ Quiescent
        \/ kind = "bucket" /\ Bucket!Quiescent
        \/ kind = "dual" /\ Dual!Done)
=============================================================================
