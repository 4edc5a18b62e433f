--------------------------- MODULE WalkTermination ---------------------------
(***************************************************************************)
(* What the walk-completion counters promise the driver (src/TreeCache.h,  *)
(* the comment on walk_credits; src/CacheManager.h, armWalkCompletion):    *)
(* a process reports that its walk is done once, only after it has run out *)
(* of work for good, and the driver goes on when every process reported.   *)
(***************************************************************************)
CONSTANT Processes

VARIABLES
  active,     \* processes with work of the walk left
  reported,   \* processes that contributed to the done reduction
  finished    \* the done callback has run

terminationVars == <<active, reported, finished>>

\* A process without a walk of its own has no work from the beginning.
TerminationInit ==
  /\ active \subseteq Processes
  /\ reported = {}
  /\ finished = FALSE

\* Processes run out of work, and never get work again.
Quiesce ==
  /\ active' \subseteq active
  /\ UNCHANGED <<reported, finished>>

\* A process that is out of work reports, once.
Report(p) ==
  /\ p \notin active \cup reported
  /\ reported' = reported \cup {p}
  /\ UNCHANGED <<active, finished>>

\* The reduction over the reports calls back.
Finish ==
  /\ reported = Processes
  /\ finished' = TRUE
  /\ UNCHANGED <<active, reported>>

TerminationNext ==
  Quiesce \/ Finish \/ \E p \in Processes : Report(p)

TerminationSpec == TerminationInit /\ [][TerminationNext]_terminationVars
=============================================================================
