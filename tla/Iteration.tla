------------------------------ MODULE Iteration ------------------------------
(***************************************************************************)
(* What the driver does (src/Driver.h).  The stages of an iteration, at    *)
(* whose ends it waits for quiescence: particles are flushed to the tree   *)
(* pieces, leaves are shipped, the canopies sum up what the pieces hold,   *)
(* the starter pack is loaded.  And the iterations themselves, from the    *)
(* input file to the output files or from a host and back to it, with each *)
(* stage in one or a few steps.                                            *)
(*                                                                         *)
(* At quiescence nothing of a stage is under way, and no stage reads what  *)
(* another keeps for itself; so a behaviour here is one of the stages, in  *)
(* all its repetitions, or a whole run, with the others at rest.           *)
(* StarterPack is extended, the others are instances.                      *)
(***************************************************************************)
EXTENDS StarterPack

CONSTANTS
  Scenarios,   \* [stage, window, in_place, layout, share, job, host]: stage and settings
  \* FlushWindow
  Readers, FlushPieces, Plans, LocalTo, Exchanges,
  \* LeafShipping
  Processes,
  \* Canopy
  BranchFactor, Decompositions, Rounds, CanopyIterations,
  \* Driver
  NPes, NElements, KChunk,
  \* HostedRun
  HostPEs

VARIABLES
  stage,
  \* FlushWindow
  window, in_place, particles, flush_plan, flush_next, flush_outstanding, asked, messages, acks,
  incoming, exchange, flushing,
  \* LeafShipping
  layout, phase, toBuild, toRefresh, shipIter, version, flat_subtree, copy_requesters, local_tps,
  leaf_lookup, copy, treepiece_copy_started, displaced, lookup_leaf_keys, leaves, lanes, msgs,
  \* Canopy
  share, pieces, tp_index, my_sn, recv_count, toSend, proxies, contributions, reports, storage,
  storage_sorted, pack, built, waiting, round, canopyIter,
  \* Driver
  job, driverStage, driverIter, todo, readers, arrived, held, saved, home, part_iter, doomed, deleted,
  universe, complete_rebuild, mail, writers, token, file,
  \* HostedRun
  host, call, ready, hostAsked, step, left, staged, owned, hostLabels, cat_min_size, cat_kept, answers

Flush == INSTANCE FlushWindow
           WITH Pieces <- FlushPieces, Windows <- {s.window : s \in Scenarios}

Ship == INSTANCE LeafShipping
          WITH iter <- shipIter, Layouts <- {s.layout : s \in Scenarios}

Gather == INSTANCE Canopy
            WITH iter <- canopyIter, Iterations <- CanopyIterations,
                 ShareNodes <- {s.share : s \in Scenarios}

Drive == INSTANCE Driver
           WITH stage <- driverStage, incoming <- arrived, Jobs <- {s.job : s \in Scenarios}

Host == INSTANCE HostedRun WITH asked <- hostAsked, Hosts <- {s.host : s \in Scenarios}

ASSUME IterationAssumption ==
  /\ Flush!FlushAssumption
  /\ Ship!LayoutAssumption
  /\ Gather!CanopyAssumption
  /\ Drive!DriverAssumption
  /\ Host!HostAssumption
  /\ \A s \in Scenarios : /\ s.stage \in {"flush", "ship", "gather", "load", "drive", "host"}
                          /\ s.in_place \in BOOLEAN

flushVars ==
  <<window, in_place, particles, flush_plan, flush_next, flush_outstanding, asked, messages, acks,
    incoming, exchange, flushing>>
shipVars ==
  <<layout, phase, toBuild, toRefresh, shipIter, version, flat_subtree, copy_requesters, local_tps,
    leaf_lookup, copy, treepiece_copy_started, displaced, lookup_leaf_keys, leaves, lanes, msgs>>
gatherVars ==
  <<share, pieces, tp_index, my_sn, recv_count, toSend, proxies, contributions, reports, storage,
    storage_sorted, pack, built, waiting, round, canopyIter>>
stageVars == <<flushVars, shipVars, gatherVars>>
driveVars ==
  <<job, driverStage, driverIter, todo, readers, arrived, held, saved, home, part_iter, doomed, deleted,
    universe, complete_rebuild, mail, writers, token, file>>
hostVars ==
  <<host, call, ready, hostAsked, step, left, staged, owned, hostLabels, cat_min_size, cat_kept, answers>>
iterationVars == <<stage, vars, stageVars, driveVars, hostVars>>

IterationInit ==
  /\ \E s \in Scenarios :
       /\ stage = s.stage
       /\ window = s.window
       /\ in_place = s.in_place
       /\ layout = s.layout
       /\ share = s.share
       /\ Drive!StartRun(s.job)
       /\ Host!StartHost(s.host)
  /\ Flush!Init
  /\ Ship!Init
  /\ Gather!Init
  /\ Init

FlushStep ==
  /\ stage = "flush"
  /\ Flush!Next
  /\ UNCHANGED <<stage, vars, shipVars, gatherVars, driveVars, hostVars>>

ShipStep ==
  /\ stage = "ship"
  /\ Ship!Next
  /\ UNCHANGED <<stage, vars, flushVars, gatherVars, driveVars, hostVars>>

GatherStep ==
  /\ stage = "gather"
  /\ Gather!Next
  /\ UNCHANGED <<stage, vars, flushVars, shipVars, driveVars, hostVars>>

LoadStep ==
  /\ stage = "load"
  /\ Next
  /\ UNCHANGED <<stage, stageVars, driveVars, hostVars>>

DriveStep ==
  /\ stage = "drive"
  /\ Drive!Next
  /\ UNCHANGED <<stage, vars, stageVars, hostVars>>

HostStep ==
  /\ stage = "host"
  /\ Host!Next
  /\ UNCHANGED <<stage, vars, stageVars, driveVars>>

IterationNext == FlushStep \/ ShipStep \/ GatherStep \/ LoadStep \/ DriveStep \/ HostStep

\* While there is a message to deliver some PE takes it, and a handler runs to its end;
\* the driver goes on when what it waits for has happened.
RunFairness == WF_iterationVars(LoadStep \/ DriveStep \/ HostStep)

IterationSpec == IterationInit /\ [][IterationNext]_iterationVars /\ RunFairness

-----------------------------------------------------------------------------
(* Properties: those of the stages, each while it is the stage.             *)

\* An exchange does not look over while a chunk is unposted; when it is over every
\* piece has exactly its particles; and what is in flight is counted, and exceeds
\* the window by one chunk at most.
FlushSettles ==
  stage = "flush" => Flush!TypeOK /\ Flush!NeverQuietMidFlush /\ Flush!AllDelivered /\ Flush!WindowHolds

\* A leaf that is looked up is there, a copy of a piece is asked for once, a quiet
\* build leaves every partition its leaves, and the copies recorded; and no copy
\* of a piece is older than the piece when a walk may start.
BuildSound ==
  stage = "ship" =>
    /\ Ship!TypeOK
    /\ Ship!LookupFinds /\ Ship!OneCopyPerProcess /\ Ship!BuildSettled
    /\ Ship!CopiesFresh

\* Whenever the driver goes on, every canopy has the complete sum of the newest
\* round and knows whether it is a tree piece's; and the pack that is shipped has
\* the newest data, parents first, in whole levels.
SumsComplete == stage = "gather" => Gather!TypeOK /\ Gather!QuietIsComplete /\ Gather!PackSound

\* No particle is lost, copied or moved twice, whatever is rebuilt or decomposed
\* between the iterations, in whatever order pieces hear of it.
ParticlesKept == stage = "drive" => Drive!ParticlesKept

\* The files that the writers write one after the other have every particle at its
\* place in the input.
FilesExact == stage = "drive" => Drive!FilesExact

\* A host gets the label of every particle where it staged it, whatever the calls
\* before have left.
LabelsReturned == stage = "host" => Host!LabelsReturned

\* Every load of the starter pack (the next begins when the one before is over), every
\* run and every call of a host comes to its end.
StagesEnd ==
  <>[](/\ stage = "load" => ~loading /\ iter = Iterations
       /\ stage = "drive" => driverStage = "done"
       /\ stage = "host" => Host!CallsReturn)
=============================================================================
