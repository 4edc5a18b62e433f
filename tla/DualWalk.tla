------------------------------- MODULE DualWalk -------------------------------
(***************************************************************************)
(* The dual walk of FoF's phase 3 (src/Traverser.h: DualTraverser;         *)
(* src/TreePiece.h: startDual, goDown; fof/FoFPhase3.h: FoFEdgeVisitor;    *)
(* src/common.h: the PE sets and the tie-break of mirrored pairs).         *)
(*                                                                         *)
(* Each tree piece walks the global tree against its own tree: a pair is a *)
(* source node and a target node of the piece.  Phase 1 has grouped the    *)
(* particles of each process, or of each PE set of a process; the walk     *)
(* emits the pairs of groups (tips) that come within the linking length of *)
(* each other.  Two pieces meet in both directions, and keepMirroredPair   *)
(* leaves the pair to one of them.                                         *)
(*                                                                         *)
(* Space has one dimension.  The processes share nothing during the walk,  *)
(* so one walks after the other; the pieces of a process interleave at     *)
(* every pair.  Asking for a node and parking on it is one step: the steps *)
(* between are ParkInstall's.                                              *)
(***************************************************************************)
EXTENDS Integers, Sequences, FiniteSets, SequencesExt

CONSTANTS
  BranchFactor,
  PieceAt,     \* per node: the tree piece it belongs to, or 0 above them
  Leaves,
  LeafOf,      \* per particle: its leaf
  ProcessOf,   \* per piece
  RankOf,      \* per piece: the rank of its PE in the process
  HomeRank,    \* per piece: the rank of its home PE
  Ranks,       \* PEs of a process
  B,           \* the linking length
  Packs,       \* canopies the starter packs may have brought
  Settings     \* see Init

Nodes == DOMAIN PieceAt
Pieces == DOMAIN ProcessOf
Particles == DOMAIN LeafOf
Processes == {ProcessOf[t] : t \in Pieces}
PEs == Processes \X Ranks

Parent(n) == n \div BranchFactor
Children(n) == {n * BranchFactor + i : i \in 0 .. BranchFactor - 1}
Depth(n) == CHOOSE d \in 0 .. n : n \div BranchFactor ^ d = 1
Root(t) == CHOOSE n \in Nodes : PieceAt[n] = t /\ PieceAt[Parent(n)] = 0

VARIABLES
  setting,
  group_number,  \* per particle: its tip
  data,          \* per node: what upwardPass left there
  weights,       \* walkTieWeights, or << >> before it is set
  process,       \* the process that walks, or 0 when all have
  installed,     \* nodes in the process's cache
  requested,
  parked,        \* <<node, piece>>
  wakes,         \* <<node, piece, count>> of process messages under way
  trav,          \* per piece: its traverser, resumer queue and goDowns
  seen,          \* seen3_pairs of the process
  edges,         \* emitted, over all processes
  leaf_ints,     \* p3_leaf_ints, per PE
  walked         \* per pair of leaves: how often it was walked

fixed == <<setting, group_number, data>>
cacheVars == <<installed, requested, parked, wakes>>
outVars == <<seen, edges, leaf_ints, walked>>
vars == <<fixed, weights, process, cacheVars, trav, outVars>>

-----------------------------------------------------------------------------
(* Distances, between particles and between boxes.                         *)

Larger(a, b) == IF a > b THEN a ELSE b
Smaller(a, b) == IF a < b THEN a ELSE b
Abs(a) == IF a < 0 THEN - a ELSE a

Periodic == setting.period > 0

\* The nearest image is at most half a period away.
DistanceIn(s, p, q) ==
  LET d == Abs(s.x[p] - s.x[q]) IN
  IF s.period > 0 THEN Smaller(d % s.period, s.period - (d % s.period)) ELSE d

Distance(p, q) == DistanceIn(setting, p, q)

Gap(a, b, shift) == Larger(a.lo - (b.hi + shift), (b.lo + shift) - a.hi)

\* dualBoxMinDist2 leaves the period out.
OpenMinDist(a, b) == Larger(0, Gap(a, b, 0))

MinDist(a, b) ==
  LET images == IF Periodic THEN {0, setting.period, - setting.period} ELSE {0}
      nearest == CHOOSE s \in images : \A u \in images : Gap(a, b, s) <= Gap(a, b, u) IN
  Larger(0, Gap(a, b, nearest))

MaxDist(a, b) == Larger(Abs(a.lo - b.hi), Abs(a.hi - b.lo))

-----------------------------------------------------------------------------
(* What phase 1 leaves behind.                                             *)

\* peSetOfPe, by the rank that claimed the piece.
SetOf(s, t) ==
  LET sets == Smaller(s.sets, Cardinality(Ranks)) IN
  IF s.interleaved THEN s.claimed[t] % sets ELSE (s.claimed[t] * sets) \div Cardinality(Ranks)

Piece(p) == PieceAt[LeafOf[p]]

\* Phase 1 groups these two.
Grouped(s, p, q) ==
  /\ ProcessOf[Piece(p)] = ProcessOf[Piece(q)]
  /\ SetOf(s, Piece(p)) = SetOf(s, Piece(q))
  /\ DistanceIn(s, p, q) <= B

\* The least particle that p reaches is the tip of p.
Tips(s) ==
  LET reach[k \in Nat] ==
        IF k = 0 THEN [p \in Particles |-> p]
        ELSE LET before == reach[k - 1] IN
             [p \in Particles |->
               LET near == {before[q] : q \in {r \in Particles : Grouped(s, p, r)}} IN
               CHOOSE m \in near : \A n \in near : m <= n] IN
  reach[Cardinality(Particles)]

Below(n) == {p \in Particles : \E d \in 0 .. LeafOf[p] : LeafOf[p] \div BranchFactor ^ d = n}
LeastOf(S) == CHOOSE m \in S : \A n \in S : m <= n
GreatestOf(S) == CHOOSE m \in S : \A n \in S : m >= n

Annotation(s, tips, n) ==
  LET xs == {s.x[p] : p \in Below(n)}
      gs == {tips[p] : p \in Below(n)} IN
  [lo |-> LeastOf(xs), hi |-> GreatestOf(xs), min_frag |-> LeastOf(gs),
   max_frag |-> GreatestOf(gs), count |-> Cardinality(Below(n))]

\* start puts the pair of the root and the piece's own root in curr_nodes.
NewTraverser(t) ==
  [entry |-> "new", at |-> 0, pairs |-> << >>, curr_nodes |-> <<<<1, Root(t)>>>>,
   insertions |-> << >>, resume_nodes |-> << >>, goDowns |-> 0]

NoneWalked == [pair \in {{n, m} : n, m \in Leaves} |-> 0]

FreshWalk ==
  /\ installed \in Packs
  /\ requested = {} /\ parked = {} /\ wakes = {}
  /\ trav = [t \in Pieces |-> NewTraverser(t)]
  /\ seen = {}

\* A setting is where the particles are (x), the period or 0, how many PE sets
\* there are and which rank claimed each piece, the tie-break's mode, and the
\* hash of a pair of pieces.
Init ==
  /\ setting \in Settings
  /\ group_number = Tips(setting)
  /\ data = [n \in Nodes |-> Annotation(setting, group_number, n)]
  /\ weights = << >>
  /\ process = LeastOf(Processes)
  /\ FreshWalk
  /\ edges = {} /\ walked = NoneWalked
  /\ leaf_ints = [pe \in PEs |-> 0]

-----------------------------------------------------------------------------
(* Which pairs a piece leaves out.                                         *)

\* Variant: no local pair is kept.
PrunesAllLocal(s, t) == FALSE

\* peSetKeepLocalPair: phase 1 left out pairs of different sets.
KeepLocalPair(s, t) == SetOf(setting, s) # SetOf(setting, t)

SkipsLocal(t, n) ==
  /\ PieceAt[n] # 0 /\ ProcessOf[PieceAt[n]] = process
  /\ ~ KeepLocalPair(PieceAt[n], t)

Weight(t) == IF setting.mode = "hash" THEN 1 ELSE weights[<<ProcessOf[t], HomeRank[t]>>]

ByParity == setting.mode = "parity" \/ (setting.mode = "weighted" /\ weights = << >>)
KeptByParity(t, s) == IF (t + s) % 2 = 0 THEN t < s ELSE t > s

\* Variant: each side compares with its own weight.
KeepsByOwnWeight(t, s) ==
  IF ByParity THEN KeptByParity(t, s) ELSE setting.mix % (Weight(t) + Weight(s)) < Weight(t)

Keeps(t, s) ==
  LET lo == Smaller(t, s)
      hi == Larger(t, s) IN
  IF ByParity THEN KeptByParity(t, s)
    ELSE t = (IF setting.mix % (Weight(lo) + Weight(hi)) < Weight(hi) THEN lo ELSE hi)

\* A placeholder below a piece stands under a node that passed this test, and
\* the placeholder of a piece does not know whose it is.
SkipsMirrored(t, e) ==
  e.live /\ PieceAt[e.source] \notin {0, t} /\ ~ Keeps(t, PieceAt[e.source])

-----------------------------------------------------------------------------
(* The visitor.                                                            *)

Uniform(n) == data[n].min_frag = data[n].max_frag
BothUniform(s, t) == Uniform(s) /\ Uniform(t)
TipPair(s, t) == {data[s].min_frag, data[t].min_frag}

\* The same tip on both sides, or an edge that the process has emitted.
Settled(s, t) ==
  BothUniform(s, t) /\ (data[s].min_frag = data[t].min_frag \/ TipPair(s, t) \in seen)

\* Every particle of the one is near every particle of the other.
Certain(s, t) ==
  /\ BothUniform(s, t) /\ ~ Settled(s, t)
  /\ ~ Periodic /\ MaxDist(data[s], data[t]) <= B

Apart(s, t) == MinDist(data[s], data[t]) > B

\* The verdict of cell, which has no effect, and of open.
Opens(s, t) == ~ Settled(s, t) /\ ~ Certain(s, t) /\ ~ Apart(s, t)

OpenEmits(s, t) == IF Certain(s, t) THEN {TipPair(s, t)} ELSE {}

LeafEmits(s, t) ==
  IF Apart(s, t) \/ Settled(s, t) THEN {}
  ELSE {{group_number[pq[1]], group_number[pq[2]]} :
          pq \in {e \in Below(s) \X Below(t) :
                   /\ Distance(e[1], e[2]) <= B
                   /\ group_number[e[1]] # group_number[e[2]]}}

\* trySeenInsert and addPhase3Edge.
Emit(E) ==
  /\ seen' = seen \cup E
  /\ edges' = edges \cup E

-----------------------------------------------------------------------------
(* doTrav: one pair is taken from the stack.                               *)

IsLocal(n) == PieceAt[n] # 0 /\ ProcessOf[PieceAt[n]] = process
Here(n) == IsLocal(n) \/ n \in installed

Pair(n, g) == [source |-> n, live |-> Here(n), target |-> g, inverted |-> FALSE]
Inverted(n, g) == [source |-> n, live |-> TRUE, target |-> g, inverted |-> TRUE]

Top(t) == Head(trav[t].pairs)
Skips(t, e) == ~ e.inverted /\ (SkipsLocal(t, e.source) \/ SkipsMirrored(t, e))
Visits(t) == trav[t].pairs # << >> /\ ~ Skips(t, Top(t))

\* The top pair gives way to those in new.
Replace(t, new) == trav' = [trav EXCEPT ![t].pairs = new \o Tail(@)]

\* A leaf against the target's tree, and what cell has rejected.
TargetDown(t) == Visits(t) /\ Top(t).live /\ (Top(t).inverted \/ Top(t).source \in Leaves)

Skip(t) ==
  /\ trav[t].pairs # << >> /\ Skips(t, Top(t))
  /\ Replace(t, << >>)
  /\ UNCHANGED <<fixed, weights, process, cacheVars, outVars>>

VisitLeaves(t) ==
  LET s == Top(t).source
      g == Top(t).target
      pe == <<process, RankOf[t]>> IN
  /\ TargetDown(t) /\ g \in Leaves
  /\ Emit(LeafEmits(s, g))
  /\ leaf_ints' = IF Apart(s, g) THEN leaf_ints
                  ELSE [leaf_ints EXCEPT ![pe] = @ + data[s].count * data[g].count]
  /\ walked' = [walked EXCEPT ![{s, g}] = @ + 1]
  /\ Replace(t, << >>)
  /\ UNCHANGED <<fixed, weights, process, cacheVars>>

OpenTarget(t) ==
  LET s == Top(t).source
      g == Top(t).target IN
  /\ TargetDown(t) /\ g \notin Leaves
  /\ Emit(OpenEmits(s, g))
  /\ Replace(t, IF Opens(s, g) THEN [i \in 1 .. BranchFactor |->
                                       Inverted(s, (g + 1) * BranchFactor - i)]
                ELSE << >>)
  /\ UNCHANGED <<fixed, weights, process, cacheVars, leaf_ints, walked>>

\* Both are inner nodes or the source alone is.
SourceInner(t) == Visits(t) /\ Top(t).live /\ ~ Top(t).inverted /\ Top(t).source \notin Leaves

OpenSource(t) ==
  LET s == Top(t).source
      g == Top(t).target IN
  /\ SourceInner(t) /\ g \in Leaves
  /\ Emit(OpenEmits(s, g))
  /\ Replace(t, IF Opens(s, g) THEN [i \in 1 .. BranchFactor |->
                                       Pair((s + 1) * BranchFactor - i, g)]
                ELSE << >>)
  /\ UNCHANGED <<fixed, weights, process, cacheVars, leaf_ints, walked>>

\* The nearest is visited first.
ByDistance(children, m) ==
  {order \in SetToSeqs(children) : \A i, j \in DOMAIN order :
     i < j => OpenMinDist(data[order[i]], data[m]) <= OpenMinDist(data[order[j]], data[m])}

\* The larger side, which is the one nearer the root, gives way.
SplitsSource(s, g) == Depth(s) <= Depth(g)

Split(t) ==
  LET s == Top(t).source
      g == Top(t).target IN
  /\ SourceInner(t) /\ g \notin Leaves
  /\ IF ~ Opens(s, g) THEN Replace(t, <<Inverted(s, g)>>)
     ELSE IF SplitsSource(s, g)
       THEN \E order \in ByDistance(Children(s), g) :
              Replace(t, [i \in DOMAIN order |-> Pair(order[i], g)])
       ELSE \E order \in ByDistance(Children(g), s) :
              Replace(t, [i \in DOMAIN order |-> Pair(s, order[i])])
  /\ UNCHANGED <<fixed, weights, process, cacheVars, outVars>>

\* One more message of a kind under way.
Sent(n, t) ==
  IF \E w \in wakes : w[1] = n /\ w[2] = t
    THEN {IF w[1] = n /\ w[2] = t THEN <<n, t, w[3] + 1>> ELSE w : w \in wakes}
    ELSE wakes \cup {<<n, t, 1>>}

\* handleRemoteNode, with the park: the list is closed if the install came first.
Miss(t) ==
  LET n == Top(t).source IN
  /\ Visits(t) /\ ~ Top(t).live
  /\ trav' = [trav EXCEPT ![t].pairs = Tail(@),
                          ![t].insertions = Append(@, <<n, Top(t).target>>)]
  /\ requested' = requested \cup {n}
  /\ IF n \in installed THEN wakes' = Sent(n, t) /\ UNCHANGED parked
     ELSE parked' = parked \cup {<<n, t>>} /\ UNCHANGED wakes
  /\ UNCHANGED <<fixed, weights, process, installed, outVars>>

-----------------------------------------------------------------------------
(* The entry methods, and the fetches.                                     *)

Waiting(t, n) == SelectSeq(trav[t].curr_nodes, LAMBDA w : w[1] = n)

\* The pairs that wait at a node; the last of them is visited first.
Begin(t, n) ==
  [i \in DOMAIN Waiting(t, n) |-> Pair(n, Reverse(Waiting(t, n))[i][2])]

StartDual(t) ==
  /\ ProcessOf[t] = process /\ trav[t].entry = "new"
  /\ trav' = [trav EXCEPT ![t].entry = "start", ![t].at = 1, ![t].pairs = Begin(t, 1)]
  /\ UNCHANGED <<fixed, weights, process, cacheVars, outVars>>

\* doTrav's end: the node is erased before the insertions are made.
Inserted(w) == SelectSeq(w.curr_nodes, LAMBDA c : c[1] # w.at) \o w.insertions

EndTrav(t) ==
  /\ trav[t].at # 0 /\ trav[t].pairs = << >>
  /\ trav' = [trav EXCEPT ![t].at = 0, ![t].curr_nodes = Inserted(trav[t]), ![t].insertions = << >>,
                ![t].resume_nodes = IF trav[t].entry = "goDown" THEN Tail(@) ELSE @]
  /\ UNCHANGED <<fixed, weights, process, cacheVars, outVars>>

GoDown(t) ==
  /\ trav[t].entry = "none" /\ trav[t].goDowns > 0
  /\ trav' = [trav EXCEPT ![t].entry = "goDown", ![t].goDowns = @ - 1]
  /\ UNCHANGED <<fixed, weights, process, cacheVars, outVars>>

\* resumeTrav pops the queue after the node.
NextResume(t) ==
  LET n == Head(trav[t].resume_nodes) IN
  /\ trav[t].entry = "goDown" /\ trav[t].at = 0
  /\ trav[t].resume_nodes # << >>
  /\ trav' = [trav EXCEPT ![t].at = n, ![t].pairs = Begin(t, n)]
  /\ UNCHANGED <<fixed, weights, process, cacheVars, outVars>>

EndEntry(t) ==
  /\ trav[t].entry \in {"start", "goDown"} /\ trav[t].at = 0
  /\ trav[t].entry = "goDown" => trav[t].resume_nodes = << >>
  /\ trav' = [trav EXCEPT ![t].entry = "none"]
  /\ UNCHANGED <<fixed, weights, process, cacheVars, outVars>>

\* An install wakes who is parked; the share depth is one level.
Install(n) ==
  LET waiters == {w \in parked : w[1] = n} IN
  /\ n \in requested \ installed
  /\ installed' = installed \cup {n}
  /\ parked' = parked \ waiters
  /\ wakes' = UNION {Sent(w[1], w[2]) : w \in waiters} \cup wakes
  /\ UNCHANGED <<fixed, weights, process, requested, trav, outVars>>

\* Resumer::process.
Process(t, w) ==
  /\ w \in wakes /\ w[2] = t /\ trav[t].entry = "none"
  /\ wakes' = (wakes \ {w}) \cup (IF w[3] > 1 THEN {<<w[1], t, w[3] - 1>>} ELSE {})
  /\ trav' = [trav EXCEPT ![t].resume_nodes = Append(@, w[1]),
                          ![t].goDowns = IF trav[t].resume_nodes = << >> THEN @ + 1 ELSE @]
  /\ UNCHANGED <<fixed, weights, process, installed, requested, parked, outVars>>

Quiet ==
  /\ wakes = {} /\ requested \subseteq installed
  /\ \A t \in Pieces : ProcessOf[t] = process =>
       trav[t].entry = "none" /\ trav[t].goDowns = 0

\* The next process's walk.
NextProcess ==
  /\ process # 0 /\ Quiet
  /\ process' = IF process + 1 \in Processes THEN process + 1 ELSE 0
  /\ installed' \in (IF process' = 0 THEN {installed} ELSE Packs)
  /\ requested' = {}
  /\ seen' = {}
  /\ UNCHANGED <<fixed, weights, parked, wakes, trav, edges, leaf_ints, walked>>

\* The table of the weighted tie-break: one more than the leaf interactions of each PE.
WalkWeights == [pe \in PEs |-> 1 + leaf_ints[pe]]

\* The driver installs the table after the first walk; another iteration
\* begins with resetPhase3.
NextIteration ==
  /\ process = 0
  /\ setting.mode = "weighted" /\ weights = << >>
  /\ weights' = WalkWeights
  /\ process' = LeastOf(Processes)
  /\ installed' \in Packs
  /\ trav' = [t \in Pieces |-> NewTraverser(t)]
  /\ edges' = {} /\ walked' = NoneWalked
  /\ leaf_ints' = [pe \in PEs |-> 0]
  /\ UNCHANGED <<fixed, requested, parked, wakes, seen>>

Visit(t) ==
  Skip(t) \/ VisitLeaves(t) \/ OpenTarget(t) \/ OpenSource(t) \/ Split(t) \/ Miss(t)

Entry(t) ==
  \/ StartDual(t) \/ EndTrav(t) \/ GoDown(t) \/ NextResume(t) \/ EndEntry(t)
  \/ \E w \in wakes : Process(t, w)

Next ==
  \/ \E t \in Pieces : Visit(t) \/ Entry(t)
  \/ \E n \in requested : Install(n)
  \/ NextProcess \/ NextIteration

-----------------------------------------------------------------------------
(* Properties.                                                             *)

Done == process = 0 /\ (setting.mode = "weighted" => weights # << >>)

\* The pairs of tips that come within the linking length of each other.
TrueEdges ==
  {{group_number[pq[1]], group_number[pq[2]]} :
     pq \in {e \in Particles \X Particles :
              /\ Distance(e[1], e[2]) <= B
              /\ group_number[e[1]] # group_number[e[2]]}}

\* A pair of leaves is walked by one of the two pieces, once, although each
\* piece decides by itself and may be woken twice for a node; and a piece that
\* is between two entries has a goDown coming if its queue is not empty.
PairWalkedOnce ==
  /\ \A pair \in DOMAIN walked : walked[pair] <= 1
  /\ \A t \in Pieces : trav[t].entry = "none" =>
       trav[t].goDowns = (IF trav[t].resume_nodes = << >> THEN 0 ELSE 1)

\* When all processes have walked, every pair of tips that touch has been
\* emitted by one of them, and no other pair has.
EdgesExact == process = 0 => edges = TrueEdges
=============================================================================
