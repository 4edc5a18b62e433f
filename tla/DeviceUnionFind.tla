-------------------------- MODULE DeviceUnionFind --------------------------
\* Phase 1 of Friends-of-Friends on a GPU (fof/gpu/FoFDevice.cpp): the kernels
\* that runPhase1Impl enqueues one after the other.  The grid kernels solve the
\* dense nodes, the walk sends one team of lanes per leaf through the trees of
\* the process, and the freeze writes the labels.  All lanes share one union-find
\* without locks, and a memo per node, node_rep, that says its particles are
\* connected; every read, write and compare-exchange of the two is a step.
\*
\* Space is a line.  A top-tree node is the set of the pieces below it.
EXTENDS Integers, Sequences, FiniteSets, FiniteSetsExt, SequencesExt, MinUnion

CONSTANTS
  Forests,    \* what may be staged: records of pos, order (of the particles),
              \* nodes, roots and top (boxes) of the pieces, b, cell, gate (0: no
              \* grid) and least (particles) of the grid, period (0: open), lanes
              \* (of a team), kStack
  Resident    \* how many teams run at a time

ASSUME ResidentAssumption == Resident \in Nat \ {0}

VARIABLES
  sc,         \* the forest on the device
  stage,      \* the kernel that runs
  grid_root,  \* d_grid_root: the maximal dense ancestor of a node, or -1
  cell_rep,   \* the first item of every occupied cell, in the order of the scatter
  queue,      \* what the kernel has not handed out: leaves, or items of the grid
  parent,     \* d_parent
  node_rep,   \* d_node_rep: -1, -2 (claimed) or the first particle of the node
  team,       \* the teams of the walk
  todo,       \* the rest of a team's forRange
  lane,       \* the lanes: what each is doing in the union-find
  overflows,  \* counters(0)
  h_label       \* the label of every particle, on the host

kernelVars == <<sc, stage, grid_root, cell_rep, queue, parent, node_rep, team, todo, lane,
          overflows, h_label>>
grid == <<sc, grid_root, cell_rep>>
deviceVars == <<sc, stage, grid_root, cell_rep, queue, parent, node_rep, team, todo,
                lane, overflows>>

Particles == DOMAIN sc.pos
Nodes == DOMAIN sc.nodes
Teams == 1 .. Resident
Lanes == Teams \X (1 .. sc.lanes)
Leader(w) == <<w, 1>>
None == -1
Claimed == -2

-----------------------------------------------------------------------------
\* Geometry.

First(n) == sc.nodes[n].begin
Below(n) == First(n) .. (First(n) + sc.nodes[n].n - 1)
Children(n) == sc.nodes[n].children
IsLeaf(n) == Children(n) = <<>>
Lo(S) == Min({sc.pos[p] : p \in S})
Hi(S) == Max({sc.pos[p] : p \in S})
Abs(x) == IF x < 0 THEN -x ELSE x

Images == IF sc.period > 0 THEN {-sc.period, 0, sc.period} ELSE {0}

Close(p, q) == \E s \in Images : Abs(sc.pos[p] - sc.pos[q] + s) <= sc.b

Near(lo1, hi1, lo2, hi2) ==
  \E s \in Images : Max({lo1 - hi2 - s, lo2 + s - hi1}) <= sc.b
BoxesNear(S, T) == Near(Lo(S), Hi(S), Lo(T), Hi(T))
BoxMaxDist(S, T) == Max({Abs(Lo(S) - Hi(T)), Abs(Hi(S) - Lo(T))})

\* A node of the top tree, the set of its pieces, and the lower half by the centre
\* of their boxes (buildTopTree).
TopNear(S, T) ==
  Near(Lo(S), Hi(S), Min({sc.top[i].lo : i \in T}), Max({sc.top[i].hi : i \in T}))
LowerHalf(S) ==
  CHOOSE T \in SUBSET S :
    /\ Cardinality(T) = Cardinality(S) \div 2
    /\ \A i \in T, j \in S \ T :
         sc.top[i].lo + sc.top[i].hi <= sc.top[j].lo + sc.top[j].hi

Cell(p, n) == <<n, (sc.pos[p] - Lo(Below(n))) \div sc.cell>>

-----------------------------------------------------------------------------
\* The union-find.  A lane calls it with a job: to "unite" a and b, to find
\* whether they are the "same", to "test" one more particle b against the root a
\* the lane holds, or for the "root" of a.

Idle == [at |-> "idle", job |-> "root", side |-> "a", a |-> None, b |-> None,
         i |-> None, g |-> None, cells |-> <<>>]
Call(job, a, b) == [Idle EXCEPT !.at = "read", !.job = job, !.a = a, !.b = b, !.i = a]

\* ufFind has the root r.
AtRoot(t, r) ==
  LET me == lane[t] w == t[1] IN
  \/ /\ me.side = "a" /\ me.job = "root"
     /\ lane' = [lane EXCEPT ![t] = [Idle EXCEPT !.a = r]]
     /\ UNCHANGED team
  \/ /\ me.side = "a" /\ me.job # "root"
     /\ lane' = [lane EXCEPT ![t].a = r, ![t].side = "b", ![t].i = me.b]
     /\ UNCHANGED team
  \/ /\ me.side = "b" /\ me.job = "unite"
     /\ lane' = [lane EXCEPT ![t] = IF r = me.a THEN Idle
                                    ELSE [me EXCEPT !.at = "attach", !.b = r]]
     /\ UNCHANGED team
  \/ /\ me.side = "b" /\ me.job \in {"same", "test"} /\ me.cells = <<>>
     /\ lane' = [lane EXCEPT ![t] = [Idle EXCEPT !.a = me.a]]
     /\ team' = [team EXCEPT ![w].same = @ /\ r = me.a]
  \/ \* two cells of the grid: the first witness between them, if they are apart
     /\ me.side = "b" /\ me.cells # <<>>
     /\ LET close == {e \in me.cells[1] \X me.cells[2] :
                         Abs(sc.pos[e[1]] - sc.pos[e[2]]) <= sc.b} IN
        \/ /\ r = me.a \/ close = {}
           /\ lane' = [lane EXCEPT ![t] = Idle]
        \/ /\ r # me.a
           /\ \E e \in close : lane' = [lane EXCEPT ![t] = Call("unite", e[1], e[2])]
     /\ UNCHANGED team

FindRead(t) ==
  LET me == lane[t] p == parent[me.i] IN
  /\ me.at = "read"
  /\ \/ p = me.i /\ AtRoot(t, p)
     \/ /\ p # me.i
        /\ lane' = [lane EXCEPT ![t].at = "next", ![t].g = p]
        /\ UNCHANGED team
  /\ UNCHANGED <<grid, stage, queue, parent, node_rep, todo, overflows, h_label>>

FindNext(t) ==
  /\ lane[t].at = "next"
  /\ lane' = [lane EXCEPT ![t].at = "write", ![t].g = parent[@]]
  /\ UNCHANGED <<grid, stage, queue, parent, node_rep, team, todo, overflows, h_label>>

Onward(t) == lane[t].g
FindWrite(t) ==
  /\ lane[t].at = "write"
  /\ parent' = [parent EXCEPT ![lane[t].i] = lane[t].g]
  /\ lane' = [lane EXCEPT ![t].at = "read", ![t].i = Onward(t), ![t].g = None]
  /\ UNCHANGED <<grid, stage, queue, node_rep, team, todo, overflows, h_label>>

\* The compare-exchange of ufUnite: the root of larger order goes below the other.
Lower(a, b) == IF sc.order[a] > sc.order[b] THEN b ELSE a
Attaches(hi) == parent[hi] = hi
Attach(t) ==
  LET me == lane[t]
      lo == Lower(me.a, me.b)
      hi == IF lo = me.a THEN me.b ELSE me.a
  IN
  /\ me.at = "attach"
  /\ \/ /\ Attaches(hi)
        /\ parent' = [parent EXCEPT ![hi] = lo]
        /\ lane' = [lane EXCEPT ![t] = Idle]
     \/ /\ ~Attaches(hi)
        /\ lane' = [lane EXCEPT ![t] = Call("unite", me.a, me.b)]
        /\ UNCHANGED parent
  /\ UNCHANGED <<grid, stage, queue, node_rep, team, todo, overflows, h_label>>

\* A lane takes its next item of the team's forRange.
TakeItem(t) ==
  LET w == t[1] me == lane[t] IN
  /\ me.at = "idle"
  /\ \E e \in todo[w] :
       /\ todo' = [todo EXCEPT ![w] = @ \ {e}]
       /\ lane' = [lane EXCEPT ![t] =
                     IF team[w].at = "lazy"
                     THEN [Call("test", me.a, e[2]) EXCEPT !.side = "b", !.i = e[2]]
                     ELSE Call("unite", e[1], e[2])]
  /\ UNCHANGED <<grid, stage, queue, parent, node_rep, team, overflows, h_label>>

\* The barrier after it.
LeaderPassed(w) == todo[w] = {} /\ lane[Leader(w)].at = "idle"
Passed(w) == todo[w] = {} /\ \A l \in 1 .. sc.lanes : lane[<<w, l>>].at = "idle"

-----------------------------------------------------------------------------
\* The grid kernels.

\* The gate of fof_grid_mark: as many particles for its cells, and under a period
\* no wider than half of it.
Dense(n) ==
  LET S == Below(n) wide == Hi(S) - Lo(S) IN
  /\ sc.gate > 0 /\ Cardinality(S) >= sc.least /\ wide > 0
  /\ Cardinality(S) * sc.cell >= sc.gate * wide
  /\ sc.period > 0 => 2 * wide <= sc.period

Mark ==
  /\ stage = "mark"
  /\ grid_root' = [n \in Nodes |-> IF Dense(n) THEN n ELSE None]
  /\ stage' = "push"
  /\ UNCHANGED <<sc, cell_rep, queue, parent, node_rep, team, todo, lane, overflows, h_label>>

Differs(n) ==
  grid_root[n] # None /\ \E c \in Range(Children(n)) : grid_root[c] # grid_root[n]

\* One node of a pass of fof_grid_push; the nodes of a pass go in any order.
Push(n) ==
  /\ stage = "push" /\ Differs(n)
  /\ grid_root' = [m \in Nodes |-> IF m \in Range(Children(n)) THEN grid_root[n]
                                   ELSE grid_root[m]]
  /\ UNCHANGED <<sc, stage, cell_rep, queue, parent, node_rep, team, todo, lane,
                 overflows, h_label>>

Maximal == {n \in Nodes : grid_root[n] = n}
InCell(c) == {p \in Below(c[1]) : Cell(p, c[1]) = c}
Cells == UNION {{Cell(p, n) : p \in Below(n)} : n \in Maximal}

\* The passes changed nothing: bin and scatter, then fof_grid_clique.  Which item
\* of a cell comes first is up to the atomics of the scatter.
StartClique ==
  /\ stage = "push" /\ \A n \in Nodes : ~Differs(n)
  /\ \E rep \in {r \in [Cells -> Particles] : \A c \in Cells : r[c] \in InCell(c)} :
       /\ cell_rep' = rep
       /\ queue' = UNION {{<<rep[c], p>> : p \in InCell(c) \ {rep[c]}} : c \in Cells}
  /\ stage' = "clique"
  /\ UNCHANGED <<sc, grid_root, parent, node_rep, team, todo, lane, overflows, h_label>>

TakeClique(t) ==
  /\ stage = "clique" /\ lane[t].at = "idle"
  /\ \E e \in queue : /\ queue' = queue \ {e}
                      /\ lane' = [lane EXCEPT ![t] = Call("unite", e[1], e[2])]
  /\ UNCHANGED <<grid, stage, parent, node_rep, team, todo, overflows, h_label>>

AllIdle == \A t \in Lanes : lane[t].at = "idle"

\* The forward half of the stencil: (|d| - 1)^2 <= 6.
StartNear ==
  /\ stage = "clique" /\ queue = {} /\ AllIdle
  /\ queue' = {e \in Cells \X Cells : e[1][1] = e[2][1] /\ e[2][2] - e[1][2] \in 1 .. 3}
  /\ stage' = "near"
  /\ UNCHANGED <<grid, parent, node_rep, team, todo, lane, overflows, h_label>>

\* Face-adjacent cells are within b without a test.
TakeNear(t) ==
  /\ stage = "near" /\ lane[t].at = "idle"
  /\ \E e \in queue :
       /\ queue' = queue \ {e}
       /\ LET c == e[1] d == e[2] IN
          lane' = [lane EXCEPT ![t] =
            IF d[2] = c[2] + 1 THEN Call("unite", cell_rep[c], cell_rep[d])
            ELSE [Call("same", cell_rep[c], cell_rep[d])
                    EXCEPT !.cells = <<InCell(c), InCell(d)>>]]
  /\ UNCHANGED <<grid, stage, parent, node_rep, team, todo, overflows, h_label>>

StartWalk ==
  /\ stage = "near" /\ queue = {} /\ AllIdle
  /\ queue' = {n \in Nodes : IsLeaf(n)}
  /\ stage' = "walk"
  /\ UNCHANGED <<grid, parent, node_rep, team, todo, lane, overflows, h_label>>

-----------------------------------------------------------------------------
\* The walk of one leaf (walkOneLeaf).

Free == [at |-> "free", leaf |-> None, stack |-> <<>>, node |-> None, rep |-> None,
         dirty |-> TRUE, kid |-> 1, same |-> TRUE]
Top(S) == [top |-> TRUE, of |-> S]
Node(n) == [top |-> FALSE, of |-> {n}]
Only(S) == CHOOSE n \in S : TRUE

StartLeaf(w) ==
  /\ stage = "walk" /\ team[w].at = "free"
  /\ \E n \in queue :
       /\ queue' = queue \ {n}
       /\ team' = [team EXCEPT ![w] = [Free EXCEPT !.at = "pop", !.leaf = n,
                                                   !.stack = <<Top(DOMAIN sc.roots)>>]]
  /\ UNCHANGED <<grid, stage, parent, node_rep, todo, lane, overflows, h_label>>

Leaf(w) == Below(team[w].leaf)
walkData == <<grid, stage, queue, parent, h_label>>

\* What a team pushes: all of it, or none of it and the overflow is counted.
Pushes(w, rest, es) ==
  IF Len(rest) + Len(es) <= sc.kStack
  THEN /\ team' = [team EXCEPT ![w].at = "pop", ![w].stack = rest \o es, ![w].node = None]
       /\ UNCHANGED overflows
  ELSE /\ team' = [team EXCEPT ![w].at = "pop", ![w].stack = rest, ![w].node = None]
       /\ overflows' = overflows + 1

PopTop(w) ==
  LET S == Last(team[w].stack).of rest == Front(team[w].stack) IN
  /\ team[w].at = "pop" /\ team[w].stack # <<>> /\ Last(team[w].stack).top
  /\ Pushes(w, rest,
       IF ~TopNear(Leaf(w), S) THEN <<>>
       ELSE IF Cardinality(S) = 1 THEN <<Node(sc.roots[Only(S)])>>
       ELSE <<Top(LowerHalf(S)), Top(S \ LowerHalf(S))>>)
  /\ UNCHANGED <<walkData, node_rep, todo, lane>>

\* Solved by the grid, or too far.
Prunes(w, n) == n = grid_root[team[w].leaf]
PopNode(w) ==
  LET n == Only(Last(team[w].stack).of) rest == Front(team[w].stack) IN
  /\ team[w].at = "pop" /\ team[w].stack # <<>> /\ ~Last(team[w].stack).top
  /\ team' = [team EXCEPT ![w].stack = rest,
       ![w].node = IF Prunes(w, n) \/ ~BoxesNear(Leaf(w), Below(n)) THEN None ELSE n,
       ![w].at = IF Prunes(w, n) \/ ~BoxesNear(Leaf(w), Below(n)) THEN "pop"
                 ELSE IF team[w].rep = None THEN "rep" ELSE "memo"]
  /\ UNCHANGED <<walkData, node_rep, todo, lane, overflows>>

EndLeaf(w) ==
  /\ team[w].at = "pop" /\ team[w].stack = <<>>
  /\ team' = [team EXCEPT ![w] = Free]
  /\ UNCHANGED <<walkData, node_rep, todo, lane, overflows>>

\* The suppression needs the leaf connected: it reads the leaf's memo, or counts
\* the particles that do not share the root of the first one.
ReadRep(w) ==
  LET me == team[w] r == node_rep[me.leaf] f == First(me.leaf) IN
  /\ me.at = "rep"
  /\ \/ /\ r >= 0
        /\ team' = [team EXCEPT ![w].rep = r, ![w].at = "memo"]
        /\ UNCHANGED <<todo, lane>>
     \/ /\ r < 0 /\ me.dirty
        /\ team' = [team EXCEPT ![w].at = "lazy", ![w].dirty = FALSE]
        /\ todo' = [todo EXCEPT ![w] = {<<f, p>> : p \in Below(me.leaf) \ {f}}]
        /\ lane' = [t \in Lanes |-> IF t[1] = w THEN Call("root", f, None) ELSE lane[t]]
     \/ /\ r < 0 /\ ~me.dirty
        /\ team' = [team EXCEPT ![w].at = "test"]
        /\ UNCHANGED <<todo, lane>>
  /\ UNCHANGED <<walkData, node_rep, overflows>>

\* The compare-exchange of a memo that nobody claimed.
Published(n) == [node_rep EXCEPT ![n] = IF @ = None THEN First(n) ELSE @]

EndLazy(w) ==
  LET me == team[w] IN
  /\ me.at = "lazy" /\ Passed(w)
  /\ IF me.same
     THEN /\ team' = [team EXCEPT ![w].rep = First(me.leaf), ![w].at = "memo"]
          /\ node_rep' = Published(me.leaf)
     ELSE /\ team' = [team EXCEPT ![w].same = TRUE, ![w].at = "test"]
          /\ UNCHANGED node_rep
  /\ lane' = [t \in Lanes |-> IF t[1] = w THEN Idle ELSE lane[t]]
  /\ UNCHANGED <<walkData, todo, overflows>>

\* The node's memo: known, to be had from the children's, or unknown.
ReadMemo(w) ==
  LET me == team[w] m == node_rep[me.node] IN
  /\ me.at = "memo"
  /\ \/ /\ m >= 0
        /\ team' = [team EXCEPT ![w].at = "same"]
        /\ lane' = [lane EXCEPT ![Leader(w)] = Call("same", m, me.rep)]
     \/ /\ m < 0
        /\ team' = [team EXCEPT ![w].at = IF IsLeaf(me.node) THEN "test" ELSE "kids"]
        /\ UNCHANGED lane
  /\ UNCHANGED <<walkData, node_rep, todo, overflows>>

ReadKid(w) ==
  LET me == team[w] kids == Children(me.node) r == lane[Leader(w)].a IN
  /\ me.at = "kids" /\ LeaderPassed(w) /\ me.same /\ me.kid <= Len(kids)
  /\ LET cr == node_rep[kids[me.kid]] IN
     \/ /\ cr < 0
        /\ team' = [team EXCEPT ![w].at = "test", ![w].kid = 1]
        /\ lane' = [lane EXCEPT ![Leader(w)] = Idle]
     \/ /\ cr >= 0
        /\ team' = [team EXCEPT ![w].kid = @ + 1]
        /\ lane' = [lane EXCEPT ![Leader(w)] =
                      IF me.kid = 1 THEN Call("root", cr, None)
                      ELSE [Call("same", r, cr) EXCEPT !.side = "b", !.i = cr]]
  /\ UNCHANGED <<walkData, node_rep, todo, overflows>>

EndKids(w) ==
  LET me == team[w] IN
  /\ me.at = "kids" /\ LeaderPassed(w)
  /\ \/ /\ ~me.same
        /\ team' = [team EXCEPT ![w].at = "test", ![w].kid = 1, ![w].same = TRUE]
        /\ lane' = [lane EXCEPT ![Leader(w)] = Idle]
        /\ UNCHANGED node_rep
     \/ /\ me.same /\ me.kid > Len(Children(me.node))
        /\ team' = [team EXCEPT ![w].at = "same", ![w].kid = 1]
        /\ lane' = [lane EXCEPT ![Leader(w)] = Call("same", First(me.node), me.rep)]
        /\ node_rep' = Published(me.node)
  /\ UNCHANGED <<walkData, todo, overflows>>

\* Connected nodes of one component: the subtree is dead (suppression).
EndSame(w) ==
  /\ team[w].at = "same" /\ LeaderPassed(w)
  /\ team' = [team EXCEPT ![w].at = IF team[w].same THEN "pop" ELSE "test",
                          ![w].node = IF team[w].same THEN None ELSE @,
                          ![w].same = TRUE]
  /\ lane' = [lane EXCEPT ![Leader(w)] = Idle]
  /\ UNCHANGED <<walkData, node_rep, todo, overflows>>

\* Not suppressed: certificate, leaf pair (owned by the smaller index) or descent.
Certified(w) ==
  sc.period = 0 /\ BoxMaxDist(Leaf(w), Below(team[w].node)) <= sc.b
Certify(w) ==
  /\ team[w].at = "test" /\ Certified(w)
  /\ team' = [team EXCEPT ![w].at = "claimL"]
  /\ UNCHANGED <<walkData, node_rep, todo, lane, overflows>>

OwnedPairs(l, n) ==
  IF n < l THEN {}
  ELSE {e \in Below(l) \X Below(n) : (l = n => e[1] < e[2]) /\ Close(e[1], e[2])}
LeafPair(w) ==
  LET me == team[w] IN
  /\ me.at = "test" /\ ~Certified(w) /\ IsLeaf(me.node)
  /\ todo' = [todo EXCEPT ![w] = OwnedPairs(me.leaf, me.node)]
  /\ team' = [team EXCEPT ![w].at = IF me.node >= me.leaf THEN "pairs" ELSE "pop",
                          ![w].node = None]
  /\ UNCHANGED <<walkData, node_rep, lane, overflows>>

EndPairs(w) ==
  /\ team[w].at = "pairs" /\ Passed(w)
  /\ team' = [team EXCEPT ![w].at = "pop", ![w].dirty = TRUE]
  /\ UNCHANGED <<walkData, node_rep, todo, lane, overflows>>

Descend(w) ==
  LET kids == Children(team[w].node) IN
  /\ team[w].at = "test" /\ ~Certified(w) /\ kids # <<>>
  /\ Pushes(w, team[w].stack, [k \in 1 .. Len(kids) |-> Node(kids[k])])
  /\ UNCHANGED <<walkData, node_rep, todo, lane>>

\* The star-union of the leaf, then of the node, then the union of the two.
OfLeaf(w) == team[w].at \in {"claimL", "starL"}
StarOf(w) == IF OfLeaf(w) THEN team[w].leaf ELSE team[w].node
AfterStar(w) ==
  IF OfLeaf(w)
  THEN /\ team' = [team EXCEPT ![w] =
                     IF @.node # @.leaf THEN [@ EXCEPT !.at = "claimM"]
                     ELSE [@ EXCEPT !.at = "pop", !.node = None, !.dirty = TRUE]]
       /\ UNCHANGED lane
  ELSE /\ team' = [team EXCEPT ![w].at = "first"]
       /\ lane' = [lane EXCEPT ![Leader(w)] =
                     Call("unite", First(team[w].leaf), First(team[w].node))]

Claim(w) ==
  LET n == StarOf(w) f == First(n) IN
  /\ team[w].at \in {"claimL", "claimM"}
  /\ \/ /\ node_rep[n] = None
        /\ node_rep' = [node_rep EXCEPT ![n] = Claimed]
        /\ todo' = [todo EXCEPT ![w] = {<<f, p>> : p \in Below(n) \ {f}}]
        /\ team' = [team EXCEPT ![w].at = IF OfLeaf(w) THEN "starL" ELSE "starM"]
        /\ UNCHANGED lane
     \/ /\ node_rep[n] # None
        /\ AfterStar(w)
        /\ UNCHANGED <<node_rep, todo>>
  /\ UNCHANGED <<walkData, overflows>>

EndStar(w) ==
  /\ team[w].at \in {"starL", "starM"} /\ Passed(w)
  /\ node_rep' = [node_rep EXCEPT ![StarOf(w)] = First(StarOf(w))]
  /\ AfterStar(w)
  /\ UNCHANGED <<walkData, todo, overflows>>

EndFirst(w) ==
  /\ team[w].at = "first" /\ LeaderPassed(w)
  /\ team' = [team EXCEPT ![w].at = "pop", ![w].node = None, ![w].dirty = TRUE]
  /\ UNCHANGED <<walkData, node_rep, todo, lane, overflows>>

-----------------------------------------------------------------------------
\* The root of every particle, when following the links ends.
RootOf ==
  LET Up[k \in 0 .. Cardinality(Particles)] ==
        IF k = 0 THEN parent ELSE [p \in Particles |-> parent[Up[k - 1][p]]]
  IN  Up[Cardinality(Particles)]

\* The freeze: nothing is united any more, so its finds, whatever they do to each
\* other's paths, end in these roots.
Freeze ==
  /\ stage = "walk" /\ queue = {} /\ \A w \in Teams : team[w].at = "free"
  /\ h_label' = [p \in Particles |-> sc.order[RootOf[p]]]
  /\ stage' = "freeze"
  /\ UNCHANGED <<grid, queue, parent, node_rep, team, todo, lane, overflows>>

\* completePhase1: the host has the labels and the counters.
Complete ==
  /\ stage = "freeze"
  /\ stage' = "done"
  /\ UNCHANGED <<grid, queue, parent, node_rep, team, todo, lane, overflows, h_label>>

NoForest == [pos |-> <<>>, order |-> <<>>, nodes |-> <<>>, roots |-> <<>>, top |-> <<>>,
             b |-> 0, cell |-> 1, gate |-> 0, least |-> 0, period |-> 0, lanes |-> 1,
             kStack |-> 0]

DeviceInit ==
  /\ sc = NoForest
  /\ stage = "idle" /\ queue = {} /\ cell_rep = <<>> /\ overflows = 0
  /\ grid_root = <<>> /\ parent = <<>> /\ node_rep = <<>> /\ h_label = <<>>
  /\ team = [w \in Teams |-> Free]
  /\ todo = [w \in Teams |-> {}]
  /\ lane = [t \in Lanes |-> Idle]

\* The start of a pass: everything but the staged data is made anew.
Prepare(f) ==
  /\ stage \in {"idle", "done"}
  /\ sc' = f /\ stage' = "mark" /\ queue' = {} /\ cell_rep' = <<>> /\ overflows' = 0
  /\ grid_root' = [n \in DOMAIN f.nodes |-> None]
  /\ parent' = [p \in DOMAIN f.pos |-> p]
  /\ node_rep' = [n \in DOMAIN f.nodes |-> None]
  /\ lane' = [t \in Teams \X (1 .. f.lanes) |-> Idle]
  /\ UNCHANGED <<team, todo>>

LaneStep(t) ==
  FindRead(t) \/ FindNext(t) \/ FindWrite(t) \/ Attach(t)
    \/ TakeItem(t) \/ TakeClique(t) \/ TakeNear(t)

TeamStep(w) ==
  \/ StartLeaf(w) \/ PopTop(w) \/ PopNode(w) \/ EndLeaf(w)
  \/ ReadRep(w) \/ EndLazy(w) \/ ReadMemo(w) \/ ReadKid(w) \/ EndKids(w) \/ EndSame(w)
  \/ Certify(w) \/ LeafPair(w) \/ EndPairs(w) \/ Descend(w)
  \/ Claim(w) \/ EndStar(w) \/ EndFirst(w)

Kernels ==
  \/ Mark \/ StartClique \/ StartNear \/ StartWalk \/ Freeze
  \/ \E n \in Nodes : Push(n)
  \/ \E t \in Lanes : LaneStep(t)
  \/ \E w \in Teams : TeamStep(w)

KernelNext == Kernels \/ Complete \/ \E f \in Forests : Prepare(f) /\ UNCHANGED h_label

Spec == DeviceInit /\ [][KernelNext]_kernelVars

-----------------------------------------------------------------------------
\* A link goes to a smaller order, or a root's to itself: what the comment above
\* ufFind calls acyclic by construction, whatever the lanes of finds and unites
\* have read before.
LinksDescend ==
  \A p \in Particles : parent[p] = p \/ sc.order[parent[p]] < sc.order[p]

\* A memo that names a particle says that all of its node's particles are in that
\* particle's component.
MemosTrue ==
  \A n \in Nodes :
    node_rep[n] >= 0 => \A p \in Below(n) : RootOf[p] = RootOf[node_rep[n]]

\* The two hold while other lanes split paths and move roots, and whoever published
\* a memo: a star-union after its barrier, a leaf's count or the memos of a node's
\* children.
ForestSound == LinksDescend /\ MemosTrue
=============================================================================
