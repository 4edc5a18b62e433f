------------------------------ MODULE PieceWalk ------------------------------
\* The geometry of phase 1 inside one process: the walk over two local trees
\* that phase A and phase B share (walk of fof/FoFPhase1.h) with everything that
\* spares it distance tests: certificates, the memo of connected nodes, the cell
\* grid of dense nodes, one witness for two connected leaves, one fragment in a
\* node; and the pool of pairs of nodes phase B claims, split where a unit looks
\* costly and ordered by a partition of space.  Phase1Chain has who holds which
\* piece and in what order the PEs proceed; here the PEs do phase A in turn.
\*
\* Positions are integers.  The grid's cell is b / sqrt(6) wide: with a cell of
\* 2, the square of the linking length b is 24 without rounding.
EXTENDS MinUnion, Sequences, SequencesExt

CONSTANTS
  Scenes,    \* what the initial state chooses from: records with the trees of
             \* the process (kids and parts of each node, roots of each PE), the
             \* position of each particle, the period of each axis or 0, and
             \* the settings grid (the inverse of the threshold, or 0), rootOnly,
             \* annotate, depth, size, factor and regions
  MinGrid    \* the fewest particles a grid is set up for (64)

VARIABLES
  scene,         \* one of Scenes, with the particles and the box of each node
  turn,          \* "A", then "B", then "done"
  who,           \* the PE that walks
  todo,          \* the pairs of trees it has yet to walk
  work,          \* the pairs of nodes it has yet to visit
  cert_rep,      \* its memo of connected nodes
  uf,            \* uf_parent of all PEs, compressed
  group_number,
  walk_pool,     \* phaseb_pool
  cert_tip,      \* the memo of phase B, of each PE
  edge_buf       \* edge_buf of each PE, which seen keeps free of duplicates

walkVars == <<scene, turn, who, todo, work, cert_rep, uf, group_number, walk_pool,
              cert_tip, edge_buf>>

Side == 2
B2 == 6 * Side * Side
RoundedB == 5      \* b, in the estimates that only order and split the pool
NoRep == -1
Axes == 1 .. 3

-----------------------------------------------------------------------------
\* Nodes, boxes and distances.

\* The particles below each node and the tight box around them.
Built(c) ==
  LET below[n \in DOMAIN c.kids] ==
        IF c.kids[n] = <<>> THEN c.parts[n]
        ELSE FlattenSeq([i \in DOMAIN c.kids[n] |-> below[c.kids[n][i]]])
      Side3(n, Pick(_)) == [ax \in Axes |-> Pick({c.pos[x][ax] : x \in Range(below[n])})]
  IN  c @@ [below |-> [n \in DOMAIN c.kids |-> below[n]],
            box |-> [n \in DOMAIN c.kids |->
                      IF below[n] = <<>> THEN <<>>
                      ELSE [lo |-> Side3(n, Min), hi |-> Side3(n, Max)]]]

Nodes == DOMAIN scene.kids
Particles == DOMAIN scene.pos
PEsHere == DOMAIN scene.roots
Under(n) == Range(scene.below[n])
Count(n) == Len(scene.below[n])
IsLeaf(n) == scene.kids[n] = <<>>
First(n) == scene.below[n][1]                      \* firstFlat
Lo(n, ax) == scene.box[n].lo[ax]
Hi(n, ax) == scene.box[n].hi[ax]
Extent(n, ax) == Hi(n, ax) - Lo(n, ax)
Measure(n) == Extent(n, 1) + Extent(n, 2) + Extent(n, 3)     \* boxMeasure
Volume(n) == Extent(n, 1) * Extent(n, 2) * Extent(n, 3)

Square(x) == x * x
OverAxes(f(_)) == f(1) + f(2) + f(3)
Abs(x) == IF x < 0 THEN -x ELSE x
Shifts(ax) == {0, scene.period[ax], -scene.period[ax]}

\* periodicDistSq, and the pairs of particles within the linking length.
Dist2(x, y) ==
  OverAxes(LAMBDA ax : Min({Square(scene.pos[x][ax] - scene.pos[y][ax] + k) : k \in Shifts(ax)}))
Linked(x, y) == Dist2(x, y) <= B2

\* mindist2: the gaps between two boxes, over the images of the second.
Gap(a, b, ax, k) == Max({0, Lo(a, ax) - (Hi(b, ax) + k), (Lo(b, ax) + k) - Hi(a, ax)})
MinDist2(a, b) ==
  OverAxes(LAMBDA ax : Square(Min({Gap(a, b, ax, k) : k \in Shifts(ax)})))

\* maxdist2: the farthest points of two boxes; it knows no period.
MaxDist2(a, b) ==
  OverAxes(LAMBDA ax : Square(Max({Abs(Lo(a, ax) - Hi(b, ax)), Abs(Hi(a, ax) - Lo(b, ax))})))

IsNear(a, b) == scene.below[a] # <<>> /\ scene.below[b] # <<>> /\ MinDist2(a, b) <= B2

\* The positive certificate: every pair of particles is a link.  It is not
\* tried with a period, nor where the gate on the sizes excludes it.
Periodic == \E ax \in Axes : scene.period[ax] > 0
Certified(a, b) ==
  /\ ~Periodic
  /\ Square(Measure(a) + Measure(b)) <= 12 * B2
  /\ MaxDist2(a, b) <= B2

-----------------------------------------------------------------------------
\* The cell grid that solves the self pair of a dense node.

Dense(n) ==
  /\ scene.grid > 0 /\ Count(n) >= MinGrid /\ Volume(n) > 0
  /\ Count(n) * Side * Side * Side * scene.grid >= Volume(n)

\* gridSelfUnionRange declines when a box spans more than half a period.
Griddable(n) ==
  \A ax \in Axes : scene.period[ax] > 0 => 2 * Extent(n, ax) <= scene.period[ax]

CellOf(n, x) == [ax \in Axes |-> (scene.pos[x][ax] - Lo(n, ax)) \div Side]
InCell(n, c) == SelectSeq(scene.below[n], LAMBDA x : CellOf(n, x) = c)

\* gridOffsets: the forward half of the cells that may hold a link.
Forward(d) == d[3] > 0 \/ (d[3] = 0 /\ (d[2] > 0 \/ (d[2] = 0 /\ d[1] > 0)))
Reachable(d) == OverAxes(LAMBDA ax : Square(Max({0, Abs(d[ax]) - 1}))) <= 6
IsFace(d) == OverAxes(LAMBDA ax : Abs(d[ax])) = 1
\* One of a set of edges, or none.
OneOf(E) == IF E = {} THEN {} ELSE {CHOOSE e \in E : TRUE}

\* A cell is united through its first particle, cells that share a face by their
\* first particles, and two other cells by the first witness.
GridEdges(n) ==
  LET cells == {CellOf(n, x) : x \in Under(n)}
      rep(c) == InCell(n, c)[1]
      offset(c, d) == [ax \in Axes |-> d[ax] - c[ax]]
      between(c, d) ==
        IF IsFace(offset(c, d)) THEN {<<rep(c), rep(d)>>}
        ELSE OneOf({e \in Range(InCell(n, c)) \X Range(InCell(n, d)) : Linked(e[1], e[2])})
  IN  {<<rep(CellOf(n, x)), x>> : x \in Under(n)}
        \cup UNION {between(c[1], c[2]) :
               c \in {d \in cells \X cells :
                       Forward(offset(d[1], d[2])) /\ Reachable(offset(d[1], d[2]))}}

-----------------------------------------------------------------------------
\* The memo of phase A: the nodes known to be connected, each with one of its
\* particles.  An entry stays true when more is united.

\* connectedRep: a leaf asks the union-find, an inner node its children's entries.
ConnectedRep(memo, n) ==
  LET kids == {c \in Range(scene.kids[n]) : scene.below[c] # <<>>}
      marks == IF IsLeaf(n) THEN {uf[x] : x \in Under(n)} ELSE {uf[memo[c]] : c \in kids}
  IN  IF n \in DOMAIN memo THEN memo[n]
      ELSE IF kids \subseteq DOMAIN memo /\ Cardinality(marks) = 1 THEN Min(marks)
      ELSE NoRep

\* The memo after connectedRep of n.
Asked(memo, n) ==
  LET rep == ConnectedRep(memo, n) IN IF rep = NoRep THEN memo ELSE memo @@ (n :> rep)

\* The memo after connectedRep of a, and of b if a is connected.
AskedBoth(memo, a, b) ==
  IF ConnectedRep(memo, a) = NoRep \/ a = b THEN Asked(memo, a) ELSE Asked(Asked(memo, a), b)
BothConnected(memo, a, b) == {a, b} \subseteq DOMAIN AskedBoth(memo, a, b)

\* The pair is resolved: connected on either side, and in one group.
Suppressed(a, b) ==
  /\ BothConnected(cert_rep, a, b)
  /\ uf[ConnectedRep(cert_rep, a)] = uf[ConnectedRep(cert_rep, b)]

\* certRep: the first certificate of a node unites what is below it.
CertRep(memo, n) == IF n \in DOMAIN memo THEN memo[n] ELSE First(n)
Star(memo, n) == IF n \in DOMAIN memo THEN {} ELSE {<<First(n), x>> : x \in Under(n)}

-----------------------------------------------------------------------------
\* The walk.

\* The pairs of trees of a PE: first each tree with itself, then the others.
TopPairs(q) ==
  LET r == scene.roots[q]
      cross == SetToSortSeq({p \in (DOMAIN r) \X (DOMAIN r) : p[1] < p[2]},
                 LAMBDA x, y : x[1] < y[1] \/ (x[1] = y[1] /\ x[2] < y[2]))
  IN  [i \in DOMAIN r |-> <<r[i], r[i]>>] \o [k \in DOMAIN cross |-> <<r[cross[k][1]], r[cross[k][2]]>>]

\* The pairs a pair of nodes opens into: the larger of two nodes is opened, and
\* a node with itself opens into every pair of children, once.
SelfPairs(kids) ==
  FlattenSeq([i \in DOMAIN kids |-> [j \in 1 .. Len(kids) - i + 1 |-> <<kids[i], kids[i + j - 1]>>]])
OpensFirst(a, b) == ~IsLeaf(a) /\ (IsLeaf(b) \/ Measure(a) >= Measure(b))
Opened(a, b) ==
  IF a = b THEN SelfPairs(scene.kids[a])
  ELSE IF OpensFirst(a, b) THEN [i \in DOMAIN scene.kids[a] |-> <<scene.kids[a][i], b>>]
  ELSE [i \in DOMAIN scene.kids[b] |-> <<a, scene.kids[b][i]>>]

Visiting == work # <<>>
A == Head(work)[1]
B == Head(work)[2]
Leave == work' = Tail(work)

\* A pair with nothing below a node or too far apart ends the descent.
SkipPair ==
  /\ Visiting /\ ~IsNear(A, B)
  /\ Leave
  /\ UNCHANGED <<scene, turn, who, todo, cert_rep, uf, group_number, walk_pool, cert_tip, edge_buf>>

\* The pair survives the tests before the certificate; in phase A the memo has
\* learnt what the test for suppression found.
Reaches == Visiting /\ IsNear(A, B) /\ (turn = "A" => ~Suppressed(A, B))
Learnt == IF turn = "A" THEN AskedBoth(cert_rep, A, B) ELSE cert_rep

Open ==
  /\ Reaches /\ ~Certified(A, B) /\ ~(IsLeaf(A) /\ IsLeaf(B))
  /\ (A = B /\ ~scene.rootOnly) => ~(Dense(A) /\ Griddable(A))
  /\ work' = Opened(A, B) \o Tail(work)
  /\ cert_rep' = Learnt
  /\ UNCHANGED <<scene, turn, who, todo, uf, group_number, walk_pool, cert_tip, edge_buf>>

-----------------------------------------------------------------------------
\* Phase A.

InA == turn = "A" /\ UNCHANGED <<scene, turn, who, group_number, walk_pool, cert_tip, edge_buf>>

\* phaseASelfPair and phaseAWalkPair: a dense tree's self pair is the grid's.
NextTrees ==
  /\ InA /\ ~Visiting /\ todo # <<>>
  /\ todo' = Tail(todo)
  /\ LET a == Head(todo)[1]
         b == Head(todo)[2]
         grid == a = b /\ scene.below[a] # <<>> /\ Dense(a) /\ Griddable(a)
     IN  /\ uf' = IF grid THEN UniteAll(uf, GridEdges(a)) ELSE uf
         /\ work' = IF grid THEN <<>> ELSE <<<<a, b>>>>
  /\ UNCHANGED cert_rep

SuppressPair ==
  /\ InA /\ Visiting /\ IsNear(A, B) /\ Suppressed(A, B)
  /\ cert_rep' = AskedBoth(cert_rep, A, B)
  /\ Leave
  /\ UNCHANGED <<todo, uf>>

CertifyA ==
  /\ InA /\ Reaches /\ Certified(A, B)
  /\ uf' = UniteAll(uf, Star(Learnt, A) \cup Star(Learnt, B)
                          \cup {<<CertRep(Learnt, A), CertRep(Learnt, B)>>})
  /\ cert_rep' = Learnt @@ (A :> CertRep(Learnt, A)) @@ (B :> CertRep(Learnt, B))
  /\ Leave
  /\ UNCHANGED todo

\* The per-level gate: a dense inner node's self pair is the grid's.
GridNode ==
  /\ InA /\ Reaches /\ A = B /\ ~Certified(A, A) /\ ~IsLeaf(A)
  /\ ~scene.rootOnly /\ Dense(A) /\ Griddable(A)
  /\ uf' = UniteAll(uf, GridEdges(A))
  /\ cert_rep' = Learnt
  /\ Leave
  /\ UNCHANGED todo

\* leafLeafUnion: of two connected leaves the first witness is enough.
AnyWitness(memo, a, b) == a # b
OneWitness(memo, a, b) == BothConnected(memo, a, b)
LeafEdges(memo, a, b) ==
  LET links == {e \in Under(a) \X Under(b) : e[1] # e[2] /\ Linked(e[1], e[2])}
  IN  IF a # b /\ OneWitness(memo, a, b) THEN OneOf(links) ELSE links

LeavesA ==
  /\ InA /\ Reaches /\ ~Certified(A, B) /\ IsLeaf(A) /\ IsLeaf(B)
  /\ uf' = UniteAll(uf, LeafEdges(Learnt, A, B))
  /\ cert_rep' = IF A = B THEN Learnt ELSE AskedBoth(Learnt, A, B)
  /\ Leave
  /\ UNCHANGED todo

-----------------------------------------------------------------------------
\* The pool of phase B.

\* m2: the pairs expected within the linking length, rounded.
Overlap(a, b, ax) ==
  Max({0, Min({Hi(a, ax) + RoundedB, Hi(b, ax)}) - Max({Lo(a, ax) - RoundedB, Lo(b, ax)})})
Cost(u) ==
  LET a == u[1]
      b == u[2]
  IN  IF Volume(a) = 0 \/ Volume(b) = 0 THEN 0
      ELSE (Count(a) * Count(b) * Overlap(a, b, 1) * Overlap(a, b, 2) * Overlap(a, b, 3) * 492)
             \div (Volume(a) * Volume(b))
TotalCost(us) == FoldSeq(LAMBDA u, sum : sum + Cost(u), 0, us)

\* poolPushInto: a pair is split at every level until the depth is reached, or
\* at depth 1 if the boxes do not overlap; FOF_POOL_SPLIT_SIZE splits more.
IsBig(n) == Square(Measure(n)) > Square(scene.size) * B2
Stops(a, b, d) ==
  /\ d >= scene.depth \/ (d = 1 /\ MinDist2(a, b) > 0) \/ IsLeaf(a) \/ IsLeaf(b)
  /\ ~(/\ scene.size > 0 /\ ~IsLeaf(a) /\ ~IsLeaf(b) /\ d < 6
       /\ IsBig(a) \/ IsBig(b))
Pairs(as, bs) == FlattenSeq([i \in DOMAIN as |-> [j \in DOMAIN bs |-> <<as[i], bs[j]>>]])
Pushed(a, b) ==
  LET push[x \in Nodes, y \in Nodes, d \in 0 .. 7] ==
        IF ~IsNear(x, y) THEN <<>>
        ELSE IF Stops(x, y, d) THEN <<<<x, y>>>>
        ELSE LET kids == Pairs(scene.kids[x], scene.kids[y])
             IN  FlattenSeq([k \in DOMAIN kids |-> push[kids[k][1], kids[k][2], d + 1]])
  IN  push[a, b, 0]

PushedAll ==
  LET pes == SetToSortSeq({p \in PEsHere \X PEsHere : p[1] < p[2]},
               LAMBDA x, y : x[1] < y[1] \/ (x[1] = y[1] /\ x[2] < y[2]))
      trees == FlattenSeq([k \in DOMAIN pes |-> Pairs(scene.roots[pes[k][1]], scene.roots[pes[k][2]])])
  IN  FlattenSeq([k \in DOMAIN trees |-> Pushed(trees[k][1], trees[k][2])])

\* The tail split: a unit whose cost is FOF_PB_SPLIT times the mean is split on
\* its larger side, four times over at the most.
SplitTail(us) ==
  LET total == TotalCost(us)
      Costly(u) == Cost(u) * Len(us) > scene.factor * total
      split[u \in Nodes \X Nodes, d \in 0 .. 4] ==
        IF d = 4 \/ ~Costly(u) \/ (IsLeaf(u[1]) /\ IsLeaf(u[2])) THEN <<u>>
        ELSE LET halves == SelectSeq(Opened(u[1], u[2]), LAMBDA p : IsNear(p[1], p[2]))
             IN  FlattenSeq([k \in DOMAIN halves |-> split[halves[k], d + 1]])
  IN  IF scene.factor > 0 /\ total > 0
        THEN FlattenSeq([k \in DOMAIN us |-> split[us[k], 0]])
        ELSE us

\* The partition: weighted medians along the widest axis of the centres, the
\* costliest part first and in a part the costliest unit.
Centre(u, ax) == Lo(u[1], ax) + Hi(u[1], ax) + Lo(u[2], ax) + Hi(u[2], ax)
Spread(us, ax) ==
  LET at == {Centre(us[k], ax) : k \in DOMAIN us} IN Max(at) - Min(at)
WidestAxis(us) == CHOOSE ax \in Axes :
  \A o \in Axes : Spread(us, o) < Spread(us, ax) \/ (Spread(us, o) = Spread(us, ax) /\ ax <= o)
MedianAt(us) ==
  LET heavy == {k \in 1 .. Len(us) - 1 : 2 * TotalCost(SubSeq(us, 1, k)) >= TotalCost(us)}
  IN  IF heavy = {} THEN 1 ELSE Min(heavy)
PastMedian(us, k) == SubSeq(us, k + 1, Len(us))
ByCost(us) == SortSeq(us, LAMBDA u, v : Cost(u) > Cost(v))
Partition(us) ==
  LET split[vs \in Seq(Nodes \X Nodes), d \in 0 .. scene.regions] ==
        IF d = 0 \/ Len(vs) <= 1 THEN <<vs>>
        ELSE LET ax == WidestAxis(vs)
                 ws == SortSeq(vs, LAMBDA u, v : Centre(u, ax) < Centre(v, ax))
                 k == MedianAt(ws)
             IN  split[SubSeq(ws, 1, k), d - 1] \o split[PastMedian(ws, k), d - 1]
      regions == SortSeq(split[us, scene.regions], LAMBDA x, y : TotalCost(x) > TotalCost(y))
  IN  FlattenSeq([k \in DOMAIN regions |-> ByCost(regions[k])])

\* phaseAFreeze: the tips are written; the last PE has the pool built.
FreezePE ==
  /\ turn = "A" /\ ~Visiting /\ todo = <<>>
  /\ LET mine == UNION {Under(r) : r \in Range(scene.roots[who])}
     IN  group_number' = [x \in Particles |-> IF x \in mine THEN uf[x] ELSE group_number[x]]
  /\ cert_rep' = <<>>
  /\ IF who < Len(scene.roots)
       THEN who' = who + 1 /\ todo' = TopPairs(who + 1) /\ UNCHANGED <<turn, walk_pool>>
       ELSE turn' = "B" /\ walk_pool' = Partition(SplitTail(PushedAll)) /\ UNCHANGED <<who, todo>>
  /\ UNCHANGED <<scene, work, uf, cert_tip, edge_buf>>

-----------------------------------------------------------------------------
\* Phase B: any PE takes the next unit and walks it over frozen tips.

ClaimNext ==
  /\ turn = "B" /\ ~Visiting /\ walk_pool # <<>>
  /\ who' \in PEsHere
  /\ work' = <<Head(walk_pool)>>
  /\ walk_pool' = Tail(walk_pool)
  /\ UNCHANGED <<scene, turn, todo, cert_rep, uf, group_number, cert_tip, edge_buf>>

InB == turn = "B" /\ UNCHANGED <<scene, turn, who, todo, cert_rep, uf, group_number, walk_pool>>

Tips(n) == {group_number[x] : x \in Under(n)}
IsUniform(n) == scene.annotate /\ Cardinality(Tips(n)) = 1
EdgesBetween(S, T) == {Edge(e[1], e[2]) : e \in {f \in S \X T : f[1] # f[2]}}

\* certTipRep: the tip that stands for a node, and the star it needs once.
TipRep(n) == group_number[First(n)]
TipStar(memo, n) == IF IsUniform(n) \/ n \in memo THEN {} ELSE EdgesBetween({TipRep(n)}, Tips(n))
CertifyB ==
  /\ InB /\ Reaches /\ Certified(A, B)
  /\ LET memo == cert_tip[who]
     IN  /\ edge_buf' = [edge_buf EXCEPT ![who] =
              @ \cup TipStar(memo, A) \cup TipStar(memo, B) \cup EdgesBetween({TipRep(A)}, {TipRep(B)})]
         /\ cert_tip' = [cert_tip EXCEPT ![who] = @ \cup {n \in {A, B} : ~IsUniform(n)}]
  /\ Leave

\* leafLeafEmit: two leaves of one fragment each yield at most one edge.
LinkedTips(a, b) ==
  {<<group_number[e[1]], group_number[e[2]]>> : e \in {f \in Under(a) \X Under(b) : Linked(f[1], f[2])}}
LeavesB ==
  /\ InB /\ Reaches /\ ~Certified(A, B) /\ IsLeaf(A) /\ IsLeaf(B)
  /\ LET one == IsUniform(A) /\ IsUniform(B)
         found == {Edge(t[1], t[2]) : t \in {p \in LinkedTips(A, B) : p[1] # p[2]}}
     IN  edge_buf' = [edge_buf EXCEPT ![who] = @ \cup (IF one THEN OneOf(found) ELSE found)]
  /\ Leave
  /\ UNCHANGED cert_tip

\* mergeBody and relabelBody.
MergeAndRelabel ==
  /\ turn = "B" /\ ~Visiting /\ walk_pool = <<>>
  /\ LET map == UniteAll(Alone(Particles), UNION Range(edge_buf))
     IN  group_number' = [x \in Particles |-> map[group_number[x]]]
  /\ turn' = "done"
  /\ UNCHANGED <<scene, who, todo, work, cert_rep, uf, walk_pool, cert_tip, edge_buf>>

Init ==
  /\ scene \in {Built(c) : c \in Scenes}
  /\ turn = "A" /\ who = 1 /\ todo = TopPairs(1) /\ work = <<>>
  /\ cert_rep = <<>> /\ uf = Alone(Particles)
  /\ group_number = [x \in Particles |-> NoRep]
  /\ walk_pool = <<>>
  /\ cert_tip = [q \in PEsHere |-> {}]
  /\ edge_buf = [q \in PEsHere |-> {}]

Next ==
  \/ NextTrees \/ SkipPair \/ SuppressPair \/ CertifyA \/ GridNode \/ LeavesA \/ Open
  \/ FreezePE \/ ClaimNext \/ CertifyB \/ LeavesB \/ MergeAndRelabel

Spec == Init /\ [][Next]_walkVars

-----------------------------------------------------------------------------
\* What the application's own check compares the groups with (gridReference of
\* examples/fof3/FoF3.C): a union-find over the particles alone, which tries a
\* particle with those of its cell and of half the cells around it.


\* An open axis has cells of side b from the least position on; a period is
\* divided into the most cells that are not narrower than b, and they wrap.
Cells(ax) == Max({g \in 0 .. scene.period[ax] : g * g * B2 <= Square(scene.period[ax])})
Least(ax) == Min({scene.pos[x][ax] : x \in Particles})

CellIdx(x, ax) ==
  LET d == scene.pos[x][ax] - Least(ax)
      G == Cells(ax)
  IN  IF G = 0 THEN Max({k \in 0 .. d : k * k * B2 <= d * d})
               ELSE ((d * G) \div scene.period[ax]) % G

CellsOf == [x \in Particles |-> [ax \in Axes |-> CellIdx(x, ax)]]

\* The thirteen offsets that come after the cell itself.
Fwd ==
  {d \in [Axes -> -1 .. 1] :
     \/ d[1] > 0
     \/ d[1] = 0 /\ d[2] > 0
     \/ d[1] = 0 /\ d[2] = 0 /\ d[3] > 0}

\* An index off the low end of an open axis is no cell's.
NeighborIdx(k, ax) == IF Cells(ax) > 0 THEN k % Cells(ax) ELSE k

Neighbors(c) == {[ax \in Axes |-> NeighborIdx(c[ax] + d[ax], ax)] : d \in Fwd}

\* The pairs it tries and unites.
Tried ==
  LET cell == CellsOf
      around == [c \in Range(cell) |-> Neighbors(c) \cup {c}]
  IN  {e \in Particles \X Particles : e[1] # e[2] /\ cell[e[2]] \in around[cell[e[1]]]}

Reference == UniteAll(Alone(Particles), {Edge(e[1], e[2]) : e \in {f \in Tried : Linked(f[1], f[2])}})

-----------------------------------------------------------------------------
AllLinks == {e \in Particles \X Particles : e[1] < e[2] /\ Linked(e[1], e[2])}

\* When the process is done, every particle carries the least order its links
\* join it to, whatever pruning, certificate, memo or grid decided a pair, and
\* whoever walked which unit.
WalkExact ==
  turn = "done" =>
    \A x \in Particles : group_number[x] = LeastReached(AllLinks, x, Cardinality(Particles))

\* An entry of the memo stays true: the particles below the node are in one
\* group, that of the entry.
MemoSound ==
  \A n \in DOMAIN cert_rep : \A x \in Under(n) : uf[x] = uf[cert_rep[n]]

\* The check accepts the groups of phase 1: half the neighbourhood of a cell, with
\* cells that wrap (two of them at the least), misses no link.
ReferenceAgrees == turn = "done" => \A x \in Particles : group_number[x] = Reference[x]
=============================================================================
