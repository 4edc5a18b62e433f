------------------------------- MODULE Canopy -------------------------------
(***************************************************************************)
(* The tree above the tree pieces and what the driver shares of it         *)
(* (src/TreeCanopy.h; src/TreePiece.h: the constructor, populateTree,      *)
(* upwardPass; src/Modularization.C: buildCanopy; src/Driver.h: recvTC,    *)
(* sortStorage, loadCache, clearStorage).                                  *)
(*                                                                         *)
(* Every node above a tree piece is an element of the TreeCanopy array,    *)
(* named by its key.  In an accumulation round, at the tree build and at   *)
(* each upwardPass, every piece sends its data to its parent; a canopy     *)
(* that has heard all its children reports to the driver and to its own    *)
(* parent.  The driver appends the reports, and ships the newest of each   *)
(* key, in the order of the keys, as the starter pack of the caches.       *)
(* Elements outlive the decomposition that created them.                   *)
(*                                                                         *)
(* Data is the set of the contributions summed into it.  The keys of a     *)
(* tree fit in a word, so that the limit's loop never wraps.               *)
(***************************************************************************)
EXTENDS Integers, SequencesExt

CONSTANTS
  BranchFactor,
  Decompositions,  \* sets of tree piece keys
  ShareNodes,      \* settings of num_share_nodes
  Rounds,          \* accumulation rounds in a run
  Iterations       \* decompositions in a run

ParentKey(k) == k \div BranchFactor

ChildKeys(k) == k * BranchFactor .. k * BranchFactor + BranchFactor - 1

\* The keys above a key, and above the keys K.
Ancestors[k \in Nat] ==
  IF ParentKey(k) = 0 THEN {} ELSE {ParentKey(k)} \cup Ancestors[ParentKey(k)]
AncestorsOf(K) == UNION {Ancestors[k] : k \in K}

CanopyAssumption ==
  /\ BranchFactor \in Nat \ {0, 1}
  /\ ShareNodes \subseteq Nat
  /\ Rounds \in Nat /\ Iterations \in Nat
  /\ \A K \in Decompositions :
       /\ K # {} /\ K \subseteq Nat \ {0} /\ IsFiniteSet(K)
       /\ \A k \in K : k = 1 \/ 1 \in Ancestors[k]
       /\ AncestorsOf(K) \cap K = {}
       /\ \A a \in AncestorsOf(K) : ChildKeys(a) \subseteq K \cup AncestorsOf(K)

\* The place of an element that was never told one: tp_index is not initialised.
Unset == -2

Elements == UNION {K \cup AncestorsOf(K) : K \in Decompositions}

VARIABLES
  share,           \* num_share_nodes
  pieces,          \* keys of the tree pieces
  tp_index,        \* per element: the key of its tree piece, -1, or Unset
  my_sn,           \* per element: data
  recv_count,      \* per element
  toSend,          \* tree pieces that have not sent in this round
  proxies,         \* recvProxies under way
  contributions,   \* recvData under way
  reports,         \* recvTC under way
  storage,         \* what the driver received
  storage_sorted,
  pack,            \* the starter pack of this round
  built,           \* the tree of this decomposition has been built
  waiting,         \* the driver waits for quiescence
  round,           \* accumulation rounds begun
  iter             \* decompositions begun

elementVars == <<tp_index, my_sn, recv_count>>
messageVars == <<toSend, proxies, contributions, reports>>
storageVars == <<storage, storage_sorted, pack>>
vars == <<share, pieces, elementVars, messageVars, storageVars, built, waiting, round, iter>>

Canopies == AncestorsOf(pieces)

Level(k) == Cardinality(AncestorsOf({k}))

Init ==
  /\ share \in ShareNodes
  /\ pieces = {}
  /\ tp_index = [k \in Elements |-> Unset]
  /\ my_sn = [k \in Elements |-> {}]
  /\ recv_count = [k \in Elements |-> 0]
  /\ toSend = {}
  /\ proxies = {}
  /\ contributions = {}
  /\ reports = {}
  /\ storage = << >>
  /\ storage_sorted = FALSE
  /\ pack = << >>
  /\ built = FALSE
  /\ waiting = FALSE
  /\ round = 0
  /\ iter = 0

-----------------------------------------------------------------------------
(* Elements.                                                               *)

\* buildCanopy: a piece speaks for the ancestors it is the first leaf of.
SpeaksFor[k \in Nat] ==
  IF k = 0 \/ k % BranchFactor # 0 THEN {} ELSE {ParentKey(k)} \cup SpeaksFor[ParentKey(k)]

\* The TreePiece constructors send every element its place.
Decompose(K) ==
  /\ ~ waiting
  /\ iter < Iterations
  /\ iter' = iter + 1
  /\ pieces' = K
  /\ waiting' = TRUE
  /\ built' = FALSE
  /\ proxies' = {[to |-> k, tp |-> k] : k \in K}
                  \cup UNION {{[to |-> a, tp |-> -1] : a \in SpeaksFor[k]} : k \in K}
  /\ pack' = << >>
  /\ UNCHANGED <<share, elementVars, toSend, contributions, reports, storage, storage_sorted, round>>

RecvProxies(m) ==
  /\ m \in proxies
  /\ proxies' = proxies \ {m}
  /\ tp_index' = [tp_index EXCEPT ![m.to] = m.tp]
  /\ UNCHANGED <<share, pieces, my_sn, recv_count, toSend, contributions, reports, storageVars,
                 built, waiting, round, iter>>

\* buildTree, which starts an iteration, and upwardPass, broadcast by the driver.
Accumulate ==
  /\ ~ waiting
  /\ pieces # {}
  /\ built \/ storage = << >>
  /\ round < Rounds
  /\ round' = round + 1
  /\ waiting' = TRUE
  /\ built' = TRUE
  /\ toSend' = pieces
  /\ pack' = << >>
  /\ UNCHANGED <<share, pieces, elementVars, proxies, contributions, reports, storage,
                 storage_sorted, iter>>

\* A piece sends its data up; a piece that is the whole tree has no canopy.
SendUp(t) ==
  /\ t \in toSend
  /\ toSend' = toSend \ {t}
  /\ contributions' =
       IF ParentKey(t) > 0
         THEN contributions \cup {[to |-> ParentKey(t), from |-> t, data |-> {<<t, round>>}]}
         ELSE contributions
  /\ UNCHANGED <<share, pieces, elementVars, proxies, reports, storageVars, built, waiting, round, iter>>

\* canopyCollectLimit: 0 for no limit, or the smallest power of the branch
\* factor whose complete levels hold the nodes to share.
CollectLimit ==
  LET want == share * (BranchFactor - 1) + 1
      grown[limit \in Nat \ {0}] ==
        IF limit >= want THEN limit ELSE grown[limit * BranchFactor]
  IN  IF share = 0 THEN 0 ELSE grown[1]

Collected(k) == CollectLimit = 0 \/ k < CollectLimit

\* A fresh round clears what the one before left.
Base(k) == IF recv_count[k] = 0 THEN {} ELSE my_sn[k]

CountAfter(k) == IF recv_count[k] + 1 = BranchFactor THEN 0 ELSE recv_count[k] + 1

\* recvData: accumulate; the last child's contribution sends the sum on.
RecvData(m) ==
  LET k == m.to
      sum == Base(k) \cup m.data
      complete == recv_count[k] + 1 = BranchFactor IN
  /\ m \in contributions
  /\ my_sn' = [my_sn EXCEPT ![k] = sum]
  /\ recv_count' = [recv_count EXCEPT ![k] = CountAfter(k)]
  /\ contributions' = (contributions \ {m}) \cup
       IF complete /\ k # 1 THEN {[to |-> ParentKey(k), from |-> k, data |-> sum]} ELSE {}
  /\ reports' = IF complete /\ Collected(k) THEN reports \cup {[key |-> k, data |-> sum]} ELSE reports
  /\ UNCHANGED <<share, pieces, tp_index, toSend, proxies, storageVars, built, waiting, round, iter>>

-----------------------------------------------------------------------------
(* The driver.                                                             *)

SortedAfterReport == FALSE

RecvTC(m) ==
  /\ m \in reports
  /\ reports' = reports \ {m}
  /\ storage' = Append(storage, m)
  /\ storage_sorted' = SortedAfterReport
  /\ UNCHANGED <<share, pieces, elementVars, toSend, proxies, contributions, pack,
                 built, waiting, round, iter>>

\* CkWaitQD returns: nothing is under way.
Quiet ==
  /\ waiting
  /\ toSend = {} /\ proxies = {} /\ contributions = {} /\ reports = {}
  /\ waiting' = FALSE
  /\ UNCHANGED <<share, pieces, elementVars, messageVars, storageVars, built, round, iter>>

\* Variant: the first report of a key is kept.
Oldest(i) == \A j \in DOMAIN storage : j < i => storage[j].key # storage[i].key

\* The last report of its key.
Newest(i) == \A j \in DOMAIN storage : j > i => storage[j].key # storage[i].key

NewestReports == {storage[i] : i \in {j \in DOMAIN storage : Newest(j)}}

\* The place of a report in the order of the keys.
Place(m) == Cardinality({n \in NewestReports : n.key <= m.key})

\* sortStorage.
SortedStorage ==
  IF storage_sorted THEN storage
  ELSE [i \in 1 .. Cardinality(NewestReports) |-> CHOOSE m \in NewestReports : Place(m) = i]

\* loadCache ships the first num_share_nodes of the sorted storage.
LoadCache ==
  /\ ~ waiting
  /\ built
  /\ storage' = SortedStorage
  /\ storage_sorted' = TRUE
  /\ pack' = SubSeq(SortedStorage, 1,
                    IF share > 0 /\ share < Len(SortedStorage) THEN share ELSE Len(SortedStorage))
  /\ UNCHANGED <<share, pieces, elementVars, messageVars, built, waiting, round, iter>>

\* The end of an iteration, after the new decomposition if there is one:
\* clearStorage.
EndIteration ==
  /\ ~ waiting
  /\ storage # << >>
  /\ storage' = << >>
  /\ storage_sorted' = FALSE
  /\ pack' = << >>
  /\ built' = FALSE
  /\ UNCHANGED <<share, pieces, elementVars, messageVars, waiting, round, iter>>

Next ==
  \/ \E K \in Decompositions : Decompose(K)
  \/ Accumulate \/ Quiet \/ LoadCache \/ EndIteration
  \/ \E m \in proxies : RecvProxies(m)
  \/ \E t \in toSend : SendUp(t)
  \/ \E m \in contributions : RecvData(m)
  \/ \E m \in reports : RecvTC(m)

Spec == Init /\ [][Next]_vars

-----------------------------------------------------------------------------
(* Properties.                                                             *)

TypeOK ==
  /\ share \in ShareNodes
  /\ pieces \in Decompositions \cup {{}} /\ toSend \subseteq pieces
  /\ \A k \in DOMAIN tp_index : tp_index[k] \in {k, -1, Unset}
  /\ \A k \in DOMAIN recv_count : recv_count[k] \in 0 .. BranchFactor - 1
  /\ \A m \in contributions : m.from \in ChildKeys(m.to)
  /\ storage_sorted \in BOOLEAN /\ built \in BOOLEAN /\ waiting \in BOOLEAN
  /\ round \in 0 .. Rounds /\ iter \in 0 .. Iterations

\* The pieces below element k.
PiecesBelow(k) == {t \in pieces : k \in AncestorsOf({t})}

\* The sum of what this round's pieces below k hold.
Fresh(k) == PiecesBelow(k) \X {round}

\* Every element of the tree knows whether it is a tree piece's, whatever
\* tree it served before.
PlacesKnown ==
  ~ waiting =>
    /\ \A k \in pieces : tp_index[k] = k
    /\ \A k \in Canopies : tp_index[k] = -1

\* Whenever the driver goes on, every canopy of the tree holds the complete
\* sum of the newest round, for the pack and for requestData, is ready for the
\* next, and knows its place.
QuietIsComplete ==
  /\ PlacesKnown
  /\ ~ waiting /\ built => \A k \in Canopies : my_sn[k] = Fresh(k) /\ recv_count[k] = 0

\* The pack has the newest round's data, whatever the driver has heard before.
PackIsFresh ==
  \A i \in DOMAIN pack : pack[i].data = Fresh(pack[i].key)

\* The pack lists every parent before its children, each once: what the install
\* of the pack relies on.
ParentsFirst ==
  /\ \A i, j \in DOMAIN pack : i < j => pack[i].key < pack[j].key
  /\ \A i \in DOMAIN pack : pack[i].key # 1 =>
       \E j \in DOMAIN pack : pack[j].key = ParentKey(pack[i].key)

PackKeys == {pack[i].key : i \in DOMAIN pack}

\* The limit on what is collected keeps whole levels: a pack with room left
\* has nothing as deep as a canopy it misses.
LimitKeepsLevels ==
  pack # << >> /\ Len(pack) # share =>
    \A k \in Canopies \ PackKeys : \A a \in PackKeys : Level(a) < Level(k)

\* What the installs of the pack rely on: its order, its data and its extent.
PackSound == ParentsFirst /\ PackIsFresh /\ LimitKeepsLevels

=============================================================================
