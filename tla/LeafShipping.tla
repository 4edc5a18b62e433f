---------------------------- MODULE LeafShipping ----------------------------
(***************************************************************************)
(* How the leaves of the tree reach the partitions that walk for them, and *)
(* how copies of tree pieces are kept up to date (src/TreePiece.h:         *)
(* buildTree, sendLeaves, requestCopy, refreshCopies, reset;               *)
(* src/Partition.h: receiveLeaves, makeLeaves, addLeaves, reset;           *)
(* src/CacheManager.h: receiveTreePiece; src/TreeCache.h:                  *)
(* connectRootWithLeaves, refreshTreePieceCopy, destroy).                  *)
(*                                                                         *)
(* Pieces and partitions cut the particles in different ways.  A piece     *)
(* hands a leaf to every partition with a particle in it: directly within  *)
(* its process, by key to the others.  A process that is named a key of a  *)
(* piece it has no copy of asks for the piece, once, and its partitions    *)
(* wait.  Partitions of one process run on different PEs: receiveLeaves    *)
(* and receiveTreePiece each enter the registries' lock twice, and         *)
(* anything may happen between.                                            *)
(*                                                                         *)
(* A leaf is its piece and the set of partitions with particles in it; a   *)
(* piece's data is a version, which an application's annotation advances.  *)
(***************************************************************************)
EXTENDS Naturals, Sequences, Bags, SequencesExt

CONSTANTS
  Processes,
  Layouts,     \* [matching, pieceOn, partOn, leaves]
  Iterations   \* tree builds in a run

LayoutAssumption ==
  /\ Iterations \in Nat
  /\ \A y \in Layouts :
       /\ y.pieceOn \in [DOMAIN y.pieceOn -> Processes]
       /\ y.partOn \in [DOMAIN y.partOn -> Processes]
       /\ y.leaves \in [DOMAIN y.pieceOn -> SUBSET ((SUBSET DOMAIN y.partOn) \ {{}})]
       /\ y.matching =>
            /\ y.partOn = y.pieceOn
            /\ \A t \in DOMAIN y.pieceOn : y.leaves[t] \subseteq {{t}}

VARIABLES
  layout,
  phase,        \* of the driver
  toBuild,      \* pieces that have yet to build their trees
  toRefresh,    \* pieces that have yet to refresh their copies
  iter,         \* tree builds begun
  version,      \* per piece: its particles and nodes
  flat_subtree, \* per piece: the version of the snapshot it ships
  copy_requesters,
  local_tps,    \* per process: the pieces it holds
  leaf_lookup,  \* per process: the leaves of copied pieces
  copy,         \* per process and piece: the version of the copy
  treepiece_copy_started,
  displaced,    \* per process: its pieces' leaves that others hold particles of
  lookup_leaf_keys,
  leaves,       \* per partition: a bag of [leaf, own]
  lanes,        \* handlers between two entries to the lock
  msgs          \* a bag

pieceVars == <<version, flat_subtree, copy_requesters>>
cacheVars == <<local_tps, leaf_lookup, copy, treepiece_copy_started, displaced>>
partVars == <<lookup_leaf_keys, leaves>>
driverVars == <<layout, phase, toBuild, toRefresh, iter>>
vars == <<driverVars, pieceVars, cacheVars, partVars, lanes, msgs>>

Pieces == DOMAIN layout.pieceOn
Partitions == DOMAIN layout.partOn
LeavesOf(t) == {[piece |-> t, of |-> S] : S \in layout.leaves[t]}
AllLeaves == UNION {LeavesOf(t) : t \in Pieces}

None == 0

NoPieces == [c \in Processes |-> [t \in Pieces |-> {}]]

Init ==
  /\ layout \in Layouts
  /\ phase = "idle"
  /\ toBuild = {}
  /\ toRefresh = {}
  /\ iter = 0
  /\ version = [t \in Pieces |-> 1]
  /\ flat_subtree = [t \in Pieces |-> None]
  /\ copy_requesters = [t \in Pieces |-> << >>]
  /\ local_tps = [c \in Processes |-> {}]
  /\ leaf_lookup = [c \in Processes |-> {}]
  /\ copy = [c \in Processes |-> [t \in Pieces |-> None]]
  /\ treepiece_copy_started = NoPieces
  /\ displaced = [c \in Processes |-> {}]
  /\ lookup_leaf_keys = [p \in Partitions |-> [t \in Pieces |-> {}]]
  /\ leaves = [p \in Partitions |-> EmptyBag]
  /\ lanes = {}
  /\ msgs = EmptyBag

-----------------------------------------------------------------------------
(* Handing out the leaves.                                                 *)

LeavesFor(t, p) == {l \in LeavesOf(t) : p \in l.of}

\* addLeaves: a leaf that is another partition's as well is copied.
Added(p, L) == SetToBag({[leaf |-> l, own |-> ~ layout.matching /\ l.of # {p}] : l \in L})

\* The partitions for which a leaf is displaced: all, if it is split; those
\* of other processes.
DisplacedFor(l) ==
  {p \in l.of : l.of # {p} \/ layout.partOn[p] # layout.pieceOn[l.piece]}

StartBuild ==
  /\ phase = "idle"
  /\ iter < Iterations
  /\ phase' = "building"
  /\ iter' = iter + 1
  /\ toBuild' = Pieces
  /\ UNCHANGED <<layout, toRefresh, pieceVars, cacheVars, partVars, lanes, msgs>>

\* buildTree: connect to the process's cache, then sendLeaves.
BuildTree(t) ==
  LET c == layout.pieceOn[t]
      near == {p \in Partitions : layout.partOn[p] = c}
      far == {p \in Partitions \ near : LeavesFor(t, p) # {}} IN
  /\ t \in toBuild
  /\ toBuild' = toBuild \ {t}
  /\ flat_subtree' = [flat_subtree EXCEPT ![t] = version[t]]
  /\ local_tps' = [local_tps EXCEPT ![c] = @ \cup {t}]
  /\ displaced' = IF layout.matching THEN displaced
                  ELSE [displaced EXCEPT ![c] = @ \cup {l \in LeavesOf(t) : DisplacedFor(l) # {}}]
  /\ leaves' = [p \in Partitions |->
                  IF p \in near THEN leaves[p] (+) Added(p, LeavesFor(t, p)) ELSE leaves[p]]
  /\ msgs' = msgs (+) SetToBag({[type |-> "receiveLeaves", part |-> p, piece |-> t,
                                 keys |-> LeavesFor(t, p)] : p \in far})
  /\ UNCHANGED <<layout, phase, toRefresh, iter, version, copy_requesters, leaf_lookup, copy,
                 treepiece_copy_started, lookup_leaf_keys, lanes>>

Took(m) == msgs (-) SetToBag({m})

ShouldRequest(c, t) == treepiece_copy_started[c][t] = {}

\* receiveLeaves up to its unlock: the copy is here, or the partition waits.
ReceiveLeaves(m) ==
  LET c == layout.partOn[m.part] IN
  /\ BagIn(m, msgs) /\ m.type = "receiveLeaves"
  /\ \/ /\ m.piece \in local_tps[c]
        /\ lanes' = lanes \cup {m}
        /\ msgs' = Took(m)
        /\ UNCHANGED <<treepiece_copy_started, lookup_leaf_keys>>
     \/ /\ m.piece \notin local_tps[c]
        /\ lookup_leaf_keys' = [lookup_leaf_keys EXCEPT ![m.part][m.piece] = m.keys]
        /\ treepiece_copy_started' =
             [treepiece_copy_started EXCEPT ![c][m.piece] = @ \cup {m.part}]
        /\ msgs' = IF ShouldRequest(c, m.piece)
                     THEN Took(m) (+) SetToBag({[type |-> "requestCopy", process |-> c, piece |-> m.piece]})
                     ELSE Took(m)
        /\ UNCHANGED lanes
  /\ UNCHANGED <<driverVars, pieceVars, local_tps, leaf_lookup, copy, displaced, leaves>>

\* makeLeaves, right after receiveLeaves.
MakeLeavesFound(m) ==
  /\ m \in lanes /\ m.type = "receiveLeaves"
  /\ lanes' = lanes \ {m}
  /\ leaves' = [leaves EXCEPT ![m.part] = @ (+) Added(m.part, m.keys)]
  /\ UNCHANGED <<driverVars, pieceVars, cacheVars, lookup_leaf_keys, msgs>>

RequestCopy(m) ==
  /\ BagIn(m, msgs) /\ m.type = "requestCopy"
  /\ copy_requesters' = [copy_requesters EXCEPT ![m.piece] = Append(@, m.process)]
  /\ msgs' = Took(m) (+) SetToBag({[type |-> "receiveTreePiece", process |-> m.process,
                                    piece |-> m.piece, data |-> flat_subtree[m.piece]]})
  /\ UNCHANGED <<driverVars, version, flat_subtree, cacheVars, partVars, lanes>>

RegisteredLeaves(t) == LeavesOf(t)

\* receiveTreePiece: installSubtree registers the copy under the lock.
InstallCopy(m) ==
  /\ BagIn(m, msgs) /\ m.type = "receiveTreePiece"
  /\ msgs' = Took(m)
  /\ local_tps' = [local_tps EXCEPT ![m.process] = @ \cup {m.piece}]
  /\ leaf_lookup' = [leaf_lookup EXCEPT ![m.process] = @ \cup RegisteredLeaves(m.piece)]
  /\ copy' = [copy EXCEPT ![m.process][m.piece] = m.data]
  /\ lanes' = lanes \cup {m}
  /\ UNCHANGED <<driverVars, pieceVars, treepiece_copy_started, displaced, partVars>>

\* The rest of receiveTreePiece tells the partitions that waited.
TellPartitions(m) ==
  /\ m \in lanes /\ m.type = "receiveTreePiece"
  /\ lanes' = lanes \ {m}
  /\ msgs' = msgs (+) SetToBag({[type |-> "makeLeaves", part |-> p, piece |-> m.piece] :
                                  p \in treepiece_copy_started[m.process][m.piece]})
  /\ UNCHANGED <<driverVars, pieceVars, cacheVars, partVars>>

MakeLeaves(m) ==
  /\ BagIn(m, msgs) /\ m.type = "makeLeaves"
  /\ msgs' = Took(m)
  /\ leaves' = [leaves EXCEPT ![m.part] = @ (+) Added(m.part, lookup_leaf_keys[m.part][m.piece])]
  /\ UNCHANGED <<driverVars, pieceVars, cacheVars, lookup_leaf_keys, lanes>>

-----------------------------------------------------------------------------
(* Annotating the pieces after the build.                                  *)

\* callPerLeafFn and upwardPass, each waited for.
Annotate ==
  /\ phase = "built"
  /\ phase' = "annotated"
  /\ version' = [t \in Pieces |-> version[t] + 1]
  /\ UNCHANGED <<layout, toBuild, toRefresh, iter, flat_subtree, copy_requesters, cacheVars,
                 partVars, lanes, msgs>>

StartRefresh ==
  /\ phase = "annotated"
  /\ phase' = "refreshing"
  /\ toRefresh' = Pieces
  /\ UNCHANGED <<layout, toBuild, iter, pieceVars, cacheVars, partVars, lanes, msgs>>

\* Variant: the snapshot of the build is shipped again.
OldSnapshot(t) == flat_subtree[t]

Snapshot(t) == version[t]

RefreshCopies(t) ==
  /\ t \in toRefresh
  /\ toRefresh' = toRefresh \ {t}
  /\ flat_subtree' = IF copy_requesters[t] = << >> THEN flat_subtree
                     ELSE [flat_subtree EXCEPT ![t] = Snapshot(t)]
  /\ msgs' = msgs (+) SetToBag({[type |-> "refreshTreePieceCopy", process |-> c, piece |-> t,
                                 data |-> Snapshot(t)] : c \in ToSet(copy_requesters[t])})
  /\ UNCHANGED <<layout, phase, toBuild, iter, version, copy_requesters, cacheVars, partVars, lanes>>

RefreshTreePieceCopy(m) ==
  /\ BagIn(m, msgs) /\ m.type = "refreshTreePieceCopy"
  /\ msgs' = Took(m)
  /\ copy' = IF m.piece \in local_tps[m.process]
               THEN [copy EXCEPT ![m.process][m.piece] = m.data] ELSE copy
  /\ UNCHANGED <<driverVars, pieceVars, local_tps, leaf_lookup, treepiece_copy_started, displaced,
                 partVars, lanes>>

-----------------------------------------------------------------------------
(* The driver.                                                             *)

\* CkWaitQD returns.
Quiet ==
  /\ phase \in {"building", "refreshing"}
  /\ toBuild = {} /\ toRefresh = {} /\ lanes = {} /\ msgs = EmptyBag
  /\ phase' = IF phase = "building" THEN "built" ELSE "refreshed"
  /\ UNCHANGED <<layout, toBuild, toRefresh, iter, pieceVars, cacheVars, partVars, lanes, msgs>>

StartedCleared == NoPieces

\* The end of an iteration: the pieces and the partitions are reset and the
\* caches destroyed.
Reset ==
  /\ phase \in {"built", "refreshed"}
  /\ phase' = "idle"
  /\ version' = [t \in Pieces |-> 1]
  /\ flat_subtree' = [t \in Pieces |-> None]
  /\ copy_requesters' = [t \in Pieces |-> << >>]
  /\ local_tps' = [c \in Processes |-> {}]
  /\ leaf_lookup' = [c \in Processes |-> {}]
  /\ copy' = [c \in Processes |-> [t \in Pieces |-> None]]
  /\ treepiece_copy_started' = StartedCleared
  /\ displaced' = [c \in Processes |-> {}]
  /\ lookup_leaf_keys' = [p \in Partitions |-> [t \in Pieces |-> {}]]
  /\ leaves' = [p \in Partitions |-> EmptyBag]
  /\ UNCHANGED <<layout, toBuild, toRefresh, iter, lanes, msgs>>

Next ==
  \/ StartBuild \/ Annotate \/ StartRefresh \/ Quiet \/ Reset
  \/ \E t \in toBuild : BuildTree(t)
  \/ \E t \in toRefresh : RefreshCopies(t)
  \/ \E m \in lanes : MakeLeavesFound(m) \/ TellPartitions(m)
  \/ \E m \in BagToSet(msgs) :
       \/ ReceiveLeaves(m) \/ RequestCopy(m) \/ InstallCopy(m) \/ MakeLeaves(m)
       \/ RefreshTreePieceCopy(m)

Spec == Init /\ [][Next]_vars

-----------------------------------------------------------------------------
(* Properties.                                                             *)

TypeOK ==
  /\ layout \in Layouts
  /\ phase \in {"idle", "building", "built", "annotated", "refreshing", "refreshed"}
  /\ toBuild \subseteq Pieces /\ toRefresh \subseteq Pieces
  /\ iter \in 0 .. Iterations
  /\ version \in [Pieces -> Nat \ {None}] /\ flat_subtree \in [Pieces -> Nat]
  /\ copy_requesters \in [Pieces -> Seq(Processes)]
  /\ local_tps \in [Processes -> SUBSET Pieces]
  /\ leaf_lookup \in [Processes -> SUBSET AllLeaves]
  /\ copy \in [Processes -> [Pieces -> Nat]]
  /\ treepiece_copy_started \in [Processes -> [Pieces -> SUBSET Partitions]]
  /\ displaced \in [Processes -> SUBSET AllLeaves]
  /\ \A p \in Partitions :
       /\ \A t \in Pieces : lookup_leaf_keys[p][t] \subseteq LeavesOf(t)
       /\ \A e \in BagToSet(leaves[p]) : e.leaf \in AllLeaves /\ p \in e.leaf.of
  /\ IsABag(msgs)

Settled == phase \notin {"idle", "building"}

\* When the build is quiet every partition has every leaf with a particle of
\* its own, once, however the answers and its neighbours' requests crossed.
LeavesComplete ==
  Settled =>
    \A p \in Partitions :
      leaves[p] = Added(p, {l \in AllLeaves : p \in l.of})

\* The leaves a partition looks up are there: what makeLeaves asserts.
LookupFinds ==
  /\ \A m \in lanes : m.type = "receiveLeaves" =>
       m.keys \subseteq leaf_lookup[layout.partOn[m.part]]
  /\ \A m \in BagToSet(msgs) : m.type = "makeLeaves" =>
       lookup_leaf_keys[m.part][m.piece] \subseteq leaf_lookup[layout.partOn[m.part]]

\* A process asks for a piece once, however many of its partitions want it,
\* and never for its own.
OneCopyPerProcess ==
  \A t \in Pieces :
    /\ IsInjective(copy_requesters[t])
    /\ layout.pieceOn[t] \notin ToSet(copy_requesters[t])

\* After a build, and after an annotation whose refresh is quiet, no copy of a
\* piece differs from the piece.
CopiesFresh ==
  phase \in {"built", "refreshed"} =>
    \A c \in Processes : \A t \in local_tps[c] :
      c # layout.pieceOn[t] => copy[c][t] = version[t]

\* The leaves some of whose particles are held twice are the ones the piece's
\* process keeps as displaced.
DisplacedKnown ==
  Settled =>
    \A t \in Pieces : \A l \in LeavesOf(t) :
      l \in displaced[layout.pieceOn[t]] <=>
        \E p \in Partitions : \E e \in BagToSet(leaves[p]) :
          e.leaf = l /\ (e.own \/ layout.partOn[p] # layout.pieceOn[t])

\* What a quiet build leaves behind, for the walks and for the next reset.
BuildSettled == LeavesComplete /\ DisplacedKnown
=============================================================================
