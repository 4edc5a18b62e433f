------------------------------ MODULE Placement ------------------------------
(***************************************************************************)
(* How an iteration divides its work: the decomposition, which makes       *)
(* partitions and pieces and gives them PEs, and the load balancer, which  *)
(* moves them.  They do not run together; a behaviour is one of the two.   *)
(***************************************************************************)
EXTENDS Decompose

CONSTANTS Settings, MaxOverrun

VARIABLES stage, setting, home, placed, steps_done, centroids, calls, pe, chan

Lb == INSTANCE Balance

lbVars == <<setting, home, placed, steps_done, centroids, calls, pe, chan>>
placementVars == <<stage, vars, lbVars>>

NoBalancer == [balancer |-> "none", n_pes |-> 1, steps |-> 0, objs |-> <<>>]
NoDecomposition == CHOOSE j \in Jobs : TRUE

PlacementInit ==
  \/ stage = "decompose" /\ Init /\ Lb!Start(NoBalancer)
  \/ stage = "balance" /\ Start(NoDecomposition) /\ Lb!Init

DecomposeStep ==
  /\ stage = "decompose"
  /\ Next
  /\ UNCHANGED <<stage, lbVars>>

BalanceStep ==
  /\ stage = "balance"
  /\ Lb!Next
  /\ UNCHANGED <<stage, vars>>

PlacementNext == DecomposeStep \/ BalanceStep

PlacementSpec == PlacementInit /\ [][PlacementNext]_placementVars /\ WF_placementVars(PlacementNext)

-----------------------------------------------------------------------------
(* Properties, each of the stage it is about.                              *)

\* Each particle is sent to one piece, the one whose key it is below, and no search
\* ends in an abort (findSplitters, flush).
FlushRoutes == stage = "decompose" => RoutesHome

\* The shares of a decomposition are as even as its search promises.
SplitsEven == stage = "decompose" => Even

\* A piece has a PE, that of the partition it shares its particles with (DecompArrayMap,
\* MultiArrayMap).
PiecesPlaced == stage = "decompose" => PlacedSound

\* A balancer keeps the order of the partitions and gives no PE more than its share and
\* one partition, whatever order its messages come in, unless a PE moves its partitions
\* before it knows the sum of all loads (work, prefixStep, makePrefixMoves).
FairShares == stage = "balance" => Lb!FairShares

\* Each PE expects as many objects as the others send it, in every step anew
\* (acknowledgeIncomingPrefixMigrations).
MovesAgree == stage = "balance" => Lb!MovesAgree

\* A decomposition ends, also when particles coincide, unless a kd search comes to two
\* neighbouring floats that are further apart than it gives up at (sortAndGetSplitters).
\* So does every call of a balancer, whoever begins first, unless a PE that moves its
\* partitions before it knows the sum of all loads faults (makePrefixMoves).
PlacementEnds == <>(IF stage = "balance" THEN steps_done = setting.steps \/ Lb!Faulted
                                         ELSE phase \in {"flushed", "aborted"} \/ Stuck)
=============================================================================
