--------------------------- MODULE LabellingProof ---------------------------
\* The merge at the end of phase 3 gives the labels that one union-find over all
\* the edges gives, in each of its modes and in every iteration.
\*
\* The invariant follows an edge from the walk to the union.  Raw, it is in a
\* buffer, at the library or gathered.  Staged, its process has it; one that a
\* process owns both ends of is in the process's forest, and one between two
\* processes goes, an end at a time, to the local roots of its ends.
EXTENDS Labelling, MinUnionProof

\* What the walk has emitted stays with a PE or has gone to the library.
Kept(e) ==
  \/ \E q \in PEs : e \in buf[q]
  \/ mode.kind = "dist" /\ e \in requests \cup gathered

WalkInv ==
  /\ mode \in Modes /\ edges \in Graphs
  /\ toFind \in [PEs -> SUBSET edges] /\ buf \in [PEs -> SUBSET edges]
  /\ seen \in [Procs -> SUBSET edges]
  /\ requests \subseteq edges
  /\ \A q \in PEs : \A e \in toFind[q] \cup buf[q] : ProcOf[q] \in {Owner[e[1]], Owner[e[2]]}
  /\ \A e \in edges : (\E q \in PEs : e \in toFind[q]) \/ Kept(e)
  /\ \A p \in Procs : \A e \in seen[p] : Kept(e)
  /\ step # "walk" => \A q \in PEs : toFind[q] = {}

\* Each mode has its steps; a step without participants waits for nobody, and
\* requests are under way only until the library is drained.
StepInv ==
  /\ step \in {"walk", "stage", "contract", "route", "forward", "flush", "finish",
               "apply", "applyAll", "fire", "drain", "collect", "applyUF2", "done"}
  /\ step = "flush" => mode.kind \in {"raw", "broadcast"}
  /\ step \in {"stage", "contract", "route", "forward"} => mode.kind = "staged"
  /\ step \in {"fire", "drain", "collect", "applyUF2"} => mode.kind = "dist"
  /\ step = "finish" => mode.kind # "dist"
  /\ step = "apply" => mode.kind \in {"raw", "staged"}
  /\ step = "applyAll" => mode.kind = "broadcast"
  /\ step \in {"walk", "drain", "finish", "done"} => waiting = {}
  /\ requests # {} => mode.kind = "dist" /\ step \in {"walk", "fire", "drain"}

\* Raw edges are gathered as they are, and all of them before they are united.
RawInv ==
  /\ mode.kind # "staged" => gathered \subseteq edges
  /\ step = "flush" => \A q \in PEs \ waiting : buf[q] \subseteq gathered
  /\ step = "fire" => \A q \in PEs \ waiting : buf[q] \subseteq requests \cup gathered
  /\ step = "drain" => \A q \in PEs : buf[q] \subseteq requests \cup gathered
  /\ mode.kind # "staged" /\ step \in {"finish", "apply", "applyAll", "collect", "applyUF2", "done"}
       => gathered = edges

-----------------------------------------------------------------------------
\* The staged mode.
LocalEdges(p) == {e \in edges : Owner[e[1]] = p /\ Owner[e[2]] = p}
CrossEdges == {e \in edges : Owner[e[1]] # Owner[e[2]]}
CrossAt(p) == {e \in CrossEdges : Owner[e[1]] = p \/ Owner[e[2]] = p}

\* The root of a tip in the forest of its process, and an edge with both ends there.
LocalRoot(t) == forest[Owner[t]][t]
Contract(e) == Edge(LocalRoot(e[1]), LocalRoot(e[2]))
ContractedEdges == {Contract(e) : e \in CrossEdges}

\* A process has its edges.
StagedInv ==
  /\ stageLocal \in [Procs -> SUBSET edges] /\ stageCross \in [Procs -> SUBSET edges]
  /\ \A p \in Procs : stageLocal[p] \subseteq LocalEdges(p) /\ stageCross[p] \subseteq CrossAt(p)
  /\ step = "stage" => \A q \in PEs \ waiting :
                         buf[q] \subseteq stageLocal[ProcOf[q]] \cup stageCross[ProcOf[q]]
  /\ mode.kind = "staged" /\ step \notin {"walk", "stage"} =>
       edges \subseteq UNION {stageLocal[p] \cup stageCross[p] : p \in Procs}

\* Its forest is over its local edges.
HasContracted(p) ==
  \/ step = "contract" /\ p \notin waiting
  \/ mode.kind = "staged" /\ step \in {"route", "forward", "finish", "apply", "done"}

ForestInv ==
  /\ forest = [p \in Procs |-> forest[p]]
  /\ stageTips \in [Procs -> SUBSET Touched]
  /\ \A p \in Procs : \A t \in stageTips[p] : Owner[t] = p
  /\ \A p \in Procs :
       IF HasContracted(p)
         THEN /\ Joins(forest[p], stageLocal[p], Tips)
              /\ OwnedTips(p, stageLocal[p] \cup stageCross[p]) \subseteq stageTips[p]
         ELSE forest[p] = Alone(Tips)

\* A cross edge has reached the owner of its far end or is on the way there.
Arrived(p, d, e) ==
  \/ \E m \in batches : m.to = d /\ AtRoots(p, e) \in m.edges
  \/ Contract(e) \in toRoot[d] /\ OwnedEnds(d, e) \subseteq stageTips[d]

Routable(p, d, x) == \E e \in stageCross[p] : OwnedEnds(d, e) # {} /\ x = AtRoots(p, e)

HasRouted(p) ==
  \/ step = "route" /\ p \notin waiting
  \/ mode.kind = "staged" /\ step \in {"forward", "finish", "apply", "done"}

RouteInv ==
  /\ toRoot = [p \in Procs |-> toRoot[p]]
  /\ batches # {} => step = "route"
  /\ \A m \in batches : \A x \in m.edges : \E p \in Procs \ {m.to} : Routable(p, m.to, x)
  /\ \A p \in Procs : toRoot[p] \subseteq ContractedEdges
  /\ \A p \in Procs : toRoot[p] # {} =>
       mode.kind = "staged" /\ step \in {"route", "forward", "finish", "apply", "done"}
  /\ \A p \in Procs : HasRouted(p) =>
       \A d \in Procs \ {p} : \A e \in stageCross[p] : OwnedEnds(d, e) # {} => Arrived(p, d, e)

\* The driver gets the contracted edges.
ForwardInv ==
  mode.kind = "staged" =>
    /\ gathered \subseteq ContractedEdges
    /\ gathered # {} => step \in {"forward", "finish", "apply", "done"}
    /\ step = "forward" => \A p \in Procs \ waiting : toRoot[p] \subseteq gathered
    /\ step \in {"finish", "apply", "done"} =>
         /\ gathered = ContractedEdges
         /\ \A p \in Procs : stageTips[p] = {t \in Touched : Owner[t] = p}

-----------------------------------------------------------------------------
\* The labels go from initial to final.
FirstLabels(q) == [t \in TipsOf[q] |-> t]
FinalLabels(q) == [t \in TipsOf[q] |-> FinalLabel(t)]

TouchedOf(p) == {t \in Touched : Owner[t] = p}
IsFinalMap(p, map) == map = [t \in TouchedOf(p) |-> FinalLabel(t)]

HasApplied(q) ==
  \/ step \in {"apply", "applyAll", "applyUF2"} /\ q \notin waiting
  \/ step = "done"

LabelInv ==
  /\ label = [q \in PEs |-> IF HasApplied(q) THEN FinalLabels(q) ELSE FirstLabels(q)]

\* What is stored and sent of the labels on the way there: a slice is for PEs that
\* have still to apply it.
SliceInv ==
  /\ globalSlice = [p \in Procs |-> globalSlice[p]]
  /\ \A q \in told :
       /\ q \in PEs /\ step = "apply" /\ q \in waiting
       /\ ProcOf[q] \notin DOMAIN mapSlices
       /\ IsFinalMap(ProcOf[q], globalSlice[ProcOf[q]])
  /\ \A q \in PEs : ProcOf[q] \in DOMAIN mapSlices =>
       /\ step = "apply" /\ q \in waiting
       /\ mapSlices[ProcOf[q]] = SliceOf(ProcOf[q])
  /\ \A q \in PEs : step = "applyUF2" \/ (step = "collect" /\ ProcOf[q] \notin waiting) =>
       globalSlice[ProcOf[q]] = [t \in TouchedOf(ProcOf[q]) |-> LeastOf[edges][t]]

MergeInv ==
  /\ WalkInv /\ StepInv /\ RawInv /\ StagedInv /\ ForestInv /\ RouteInv /\ ForwardInv
  /\ LabelInv /\ SliceInv

\* The census runs when the merge is done, and the next iteration comes after it.
IInv == MergeInv /\ (census \in {"fragments", "idle"} \/ step = "done")

-----------------------------------------------------------------------------
\* What the unions compute.

\* Edges join tips, the smaller end first.
LEMMA EdgeFacts ==
  ASSUME edges \in Graphs, NEW e \in edges
  PROVE  /\ e \in Tips \X Tips /\ e[1] \in Tips /\ e[2] \in Tips
         /\ e[1] \in Nat /\ e[2] \in Nat /\ e[1] < e[2]
         /\ e = <<e[1], e[2]>>
         /\ Owner[e[1]] \in Procs /\ Owner[e[2]] \in Procs
BY TipsAssumption, FindersAssumption

\* Sets of edges between tips are finite.
LEMMA EdgesFinite ==
  ASSUME NEW E \in SUBSET (Tips \X Tips)
  PROVE  IsFiniteSet(E)
BY TipsAssumption, FS_Product, FS_Subset

\* One union-find over edges labels by them.
LEMMA BossJoins ==
  ASSUME NEW E \in SUBSET (Tips \X Tips)
  PROVE  Joins(UniteAll(Alone(Tips), E), E, Tips)
<1>1. Tips \in SUBSET Nat /\ IsFiniteSet(E)
  BY TipsAssumption, EdgesFinite
<1>2. Joins(Alone(Tips), {}, Tips)
  BY <1>1, AloneJoins
<1>3. Joins(UniteAll(Alone(Tips), E), {} \cup E, Tips)
  BY <1>1, <1>2, UniteAllJoins
<1>4. {} \cup E = E
  OBVIOUS
<1>5. QED
  BY <1>3, <1>4

\* And that is what the promise looks up.
LEMMA LeastIsLabel ==
  ASSUME NEW E \in Graphs, NEW r, Joins(r, E, Tips), NEW t \in Tips
  PROVE  LeastOf[E][t] = r[t]
<1>1. LeastReached(E, t, Cardinality(Tips)) = r[t]
  BY TipsAssumption, LeastReachedIsLabel
<1>2. QED
  BY <1>1 DEF LeastOf

\* What no edge touches keeps its label.
LEMMA UntouchedAlone ==
  ASSUME NEW E, NEW r, Joins(r, E, Tips), NEW x \in Tips,
         \A e \in E : e[1] # x /\ e[2] # x
  PROVE  r[x] = x
<1>1. Tips \subseteq Nat
  BY TipsAssumption
<1>2. CASE \E y \in Tips : y # x
  <2>1. PICK y \in Tips : y # x
    BY <1>2
  <2> DEFINE f == [z \in Tips |-> IF z = x THEN x ELSE y]
  <2>2. f \in [Tips -> Tips]
    OBVIOUS
  <2>3. \A e \in E : e[1] \in Tips /\ e[2] \in Tips
    BY DEF Joins
  <2>4. Respects(f, E)
    BY <2>3 DEF Respects
  <2>5. f[r[x]] = f[x]
    BY <2>2, <2>4 DEF Joins
  <2>6. r[x] \in Tips
    BY DEF Joins
  <2>7. QED
    BY <2>1, <2>5, <2>6
<1>3. CASE \A y \in Tips : y = x
  BY <1>3 DEF Joins
<1>4. QED
  BY <1>2, <1>3

\* The forests of the processes are together a labelling by all local edges.
Locals == UNION {stageLocal[p] : p \in Procs}
LocalRoots == [t \in Tips |-> LocalRoot(t)]

ForestsJoin ==
  \A p \in Procs : Joins(forest[p], stageLocal[p], Tips) /\ stageLocal[p] \subseteq LocalEdges(p)

\* A local root has the owner of its tip, in every forest.
LEMMA RootKeepsOwner ==
  ASSUME edges \in Graphs, NEW p \in Procs, NEW r,
         NEW D \in SUBSET LocalEdges(p), Joins(r, D, Tips), NEW t \in Tips
  PROVE  r[t] \in Tips /\ Owner[r[t]] = Owner[t]
<1> DEFINE A == {u \in Tips : Owner[u] = Owner[t]}
<1>1. r[t] \in Tips
  BY DEF Joins
<1>2. Keeps(D, A)
  BY EdgeFacts DEF Keeps, LocalEdges
<1>3. r[t] \in A
  BY <1>2, TipsAssumption, JoinsWithin
<1>4. QED
  BY <1>1, <1>3

LEMMA LocalRootsJoin ==
  ASSUME edges \in Graphs, ForestsJoin
  PROVE  /\ \A t \in Tips : LocalRoot(t) \in Tips /\ Owner[LocalRoot(t)] = Owner[t]
         /\ Joins(LocalRoots, Locals, Tips)
<1>1. \A t \in Tips : Owner[t] \in Procs
  BY TipsAssumption
<1>2. \A t \in Tips : LocalRoot(t) \in Tips /\ Owner[LocalRoot(t)] = Owner[t]
  BY <1>1, RootKeepsOwner DEF LocalRoot, ForestsJoin
<1>3. Locals \subseteq Tips \X Tips
  BY EdgeFacts DEF Locals, ForestsJoin, LocalEdges
<1>4. LocalRoots \in [Tips -> Tips]
  BY <1>2 DEF LocalRoots
<1>5. ASSUME NEW x \in Tips
      PROVE  LocalRoots[LocalRoots[x]] = LocalRoots[x] /\ LocalRoots[x] <= x
  <2> DEFINE o == Owner[x]
             y == forest[o][x]
  <2>1. o \in Procs /\ Joins(forest[o], stageLocal[o], Tips)
    BY <1>1 DEF ForestsJoin
  <2>2. forest[o][y] = y /\ y <= x
    BY <2>1 DEF Joins
  <2>3. LocalRoots[x] = y /\ y \in Tips /\ Owner[y] = o
    BY <1>2 DEF LocalRoots, LocalRoot
  <2>4. LocalRoots[y] = forest[o][y]
    BY <2>3 DEF LocalRoots, LocalRoot
  <2>5. QED
    BY <2>2, <2>3, <2>4
<1>6. Respects(LocalRoots, Locals)
  <2>1. SUFFICES ASSUME NEW p \in Procs, NEW e \in stageLocal[p]
                 PROVE  LocalRoots[e[1]] = LocalRoots[e[2]]
    BY DEF Respects, Locals
  <2>2. forest[p][e[1]] = forest[p][e[2]]
    BY DEF ForestsJoin, Joins, Respects
  <2>3. e \in edges /\ Owner[e[1]] = p /\ Owner[e[2]] = p
    BY DEF ForestsJoin, LocalEdges
  <2>4. e[1] \in Tips /\ e[2] \in Tips
    BY <2>3, EdgeFacts
  <2>5. QED
    BY <2>2, <2>3, <2>4 DEF LocalRoots, LocalRoot
<1>7. ASSUME NEW f \in [Tips -> Tips], Respects(f, Locals), NEW x \in Tips
      PROVE  f[LocalRoots[x]] = f[x]
  <2> DEFINE o == Owner[x]
  <2>1. o \in Procs
    BY <1>1
  <2>2. Joins(forest[o], stageLocal[o], Tips) /\ Respects(f, stageLocal[o])
    BY <1>7, <2>1 DEF ForestsJoin, Respects, Locals
  <2>3. f[forest[o][x]] = f[x]
    BY <2>2 DEF Joins
  <2>4. QED
    BY <2>3 DEF LocalRoots, LocalRoot
<1>8. QED
  BY <1>2, <1>3, <1>4, <1>5, <1>6, <1>7 DEF Joins

\* The edge of two tips does not depend on which comes first, and has the two as ends.
LEMMA EdgeEnds ==
  ASSUME NEW a \in Nat, NEW b \in Nat
  PROVE  /\ Edge(a, b) = Edge(b, a)
         /\ Edge(a, b) = <<a, b>> \/ Edge(a, b) = <<b, a>>
         /\ a < b => Edge(a, b) = <<a, b>>
<1>1. {a, b} = {b, a}
  OBVIOUS
<1>2. /\ Min({a, b}) \in {a, b} /\ Min({a, b}) <= a /\ Min({a, b}) <= b
      /\ Max({a, b}) \in {a, b} /\ Max({a, b}) >= a /\ Max({a, b}) >= b
  BY MinOfTwo
<1>3. QED
  BY <1>1, <1>2 DEF Edge

\* The serial finisher, at the local root of a tip, finds the label that all edges give
\* the tip.
LEMMA StagedLabels ==
  ASSUME edges \in Graphs, ForestsJoin,
         edges \subseteq UNION {stageLocal[p] \cup stageCross[p] : p \in Procs},
         \A p \in Procs : stageCross[p] \subseteq CrossAt(p),
         NEW t \in Tips
  PROVE  /\ UniteAll(Alone(Tips), ContractedEdges)[LocalRoot(t)] = LeastOf[edges][t]
         /\ Joins(UniteAll(Alone(Tips), ContractedEdges), ContractedEdges, Tips)
<1> DEFINE m == UniteAll(Alone(Tips), ContractedEdges)
<1>1. /\ \A u \in Tips : LocalRoot(u) \in Tips
      /\ Joins(LocalRoots, Locals, Tips)
  BY LocalRootsJoin
<1>2. \A e \in CrossEdges : /\ e \in edges /\ e[1] \in Tips /\ e[2] \in Tips
                            /\ LocalRoot(e[1]) \in Tips /\ LocalRoot(e[2]) \in Tips
                            /\ LocalRoot(e[1]) \in Nat /\ LocalRoot(e[2]) \in Nat
  BY <1>1, EdgeFacts, TipsAssumption DEF CrossEdges
<1>3. ContractedEdges \subseteq Tips \X Tips
  <2>1. \A e \in CrossEdges : Contract(e) \in Tips \X Tips
    BY <1>2, EdgeEnds DEF Contract
  <2>2. QED
    BY <2>1 DEF ContractedEdges
<1>4. Joins(m, ContractedEdges, Tips)
  BY <1>3, BossJoins
<1>5. CrossEdges \in SUBSET (Tips \X Tips)
  BY EdgeFacts DEF CrossEdges
<1>6. ASSUME NEW f \in [Tips -> Tips], Respects(f, Locals \cup CrossEdges)
      PROVE  Respects(f, ContractedEdges)
  <2>1. Respects(f, Locals) /\ Respects(f, CrossEdges)
    BY <1>6 DEF Respects
  <2>2. \A u \in Tips : f[LocalRoots[u]] = f[u]
    BY <1>1, <2>1 DEF Joins
  <2>3. \A u \in Tips : LocalRoots[u] = LocalRoot(u)
    BY DEF LocalRoots
  <2>4. ASSUME NEW e \in CrossEdges
        PROVE  f[Contract(e)[1]] = f[Contract(e)[2]]
    <3>1. f[LocalRoot(e[1])] = f[LocalRoot(e[2])]
      BY <1>2, <2>1, <2>2, <2>3 DEF Respects
    <3>2. Contract(e) = <<LocalRoot(e[1]), LocalRoot(e[2])>>
            \/ Contract(e) = <<LocalRoot(e[2]), LocalRoot(e[1])>>
      BY <1>2, EdgeEnds DEF Contract
    <3>3. QED
      BY <3>1, <3>2
  <2>5. QED
    BY <2>4 DEF Respects, ContractedEdges
<1>7. \A e \in CrossEdges : Edge(LocalRoots[e[1]], LocalRoots[e[2]]) \in ContractedEdges
  BY <1>2 DEF ContractedEdges, Contract, LocalRoots
<1>8. Joins([x \in Tips |-> m[LocalRoots[x]]], Locals \cup CrossEdges, Tips)
  <2> HIDE DEF m
  <2>1. Tips \in SUBSET Nat
    BY TipsAssumption
  <2>2. QED
    BY <2>1, <1>1, <1>4, <1>5, <1>6, <1>7, JoinsInTurn
<1>9. Locals \cup CrossEdges = edges
  BY DEF Locals, CrossEdges, CrossAt, ForestsJoin, LocalEdges
<1> DEFINE r == [x \in Tips |-> m[LocalRoots[x]]]
<1>10. LeastOf[edges][t] = r[t]
  <2>1. Joins(r, edges, Tips)
    BY <1>8, <1>9
  <2> HIDE DEF r
  <2>2. QED
    BY <2>1, LeastIsLabel
<1>11. QED
  BY <1>4, <1>10 DEF LocalRoots

-----------------------------------------------------------------------------
\* The maps that reach the PEs.

LEMMA TouchedFacts ==
  ASSUME edges \in Graphs
  PROVE  /\ Touched \subseteq Tips
         /\ \A e \in edges : e[1] \in Touched /\ e[2] \in Touched
         /\ gathered = edges => Remapped = Touched
BY EdgeFacts DEF Touched, Remapped

\* A map made from all edges, raw.
LEMMA RawMap ==
  ASSUME edges \in Graphs, gathered = edges, NEW T \in SUBSET Touched
  PROVE  /\ LabelMap(T) = [t \in T |-> FinalLabel(t)]
         /\ \A t \in T : UniteAll(Alone(Tips), gathered)[t] = LeastOf[edges][t]
<1> DEFINE boss == UniteAll(Alone(Tips), gathered)
<1>1. edges \subseteq Tips \X Tips
  BY EdgeFacts
<1>2. Joins(boss, edges, Tips)
  BY <1>1, BossJoins
<1>3. \A t \in T : t \in Tips
  BY TouchedFacts
<1> HIDE DEF boss
<1>4. \A t \in T : boss[t] = LeastOf[edges][t]
  BY <1>2, <1>3, LeastIsLabel
<1>5. [t \in T |-> -(boss[t] + 2)] = [t \in T |-> FinalLabel(t)]
  BY <1>4 DEF FinalLabel
<1>6. QED
  BY <1>4, <1>5 DEF LabelMap, boss

\* The staged slices, as a process expands them.
LEMMA StagedMap ==
  ASSUME edges \in Graphs, ForestsJoin,
         edges \subseteq UNION {stageLocal[p] \cup stageCross[p] : p \in Procs},
         \A p \in Procs : stageCross[p] \subseteq CrossAt(p),
         gathered = ContractedEdges,
         NEW p \in Procs, stageTips[p] = TouchedOf(p)
  PROVE  IsFinalMap(p, Expanded(p, SliceOf(p)))
<1> DEFINE root == UniteAll(Alone(Tips), gathered)
           known == {s \in Remapped : Owner[s] = p}
           slice == [t \in known |-> -(root[t] + 2)]
<1>1. SliceOf(p) = slice
  BY DEF SliceOf, LabelMap
<1>2. \A t \in Tips : root[LocalRoot(t)] = LeastOf[edges][t]
  BY StagedLabels
<1>3. \A t \in Tips : LocalRoot(t) \in Tips /\ Owner[LocalRoot(t)] = Owner[t]
  BY LocalRootsJoin
<1>4. ASSUME NEW t \in TouchedOf(p)
      PROVE  RootLabel(slice, forest[p][t]) = FinalLabel(t)
  <2> DEFINE r == forest[p][t]
  <2>1. t \in Tips /\ t \in Touched /\ Owner[t] = p
    BY TouchedFacts DEF TouchedOf
  <2>2. r = LocalRoot(t) /\ r \in Tips /\ Owner[r] = p
    BY <1>3, <2>1 DEF LocalRoot
  <2>3. FinalLabel(t) = -(root[r] + 2)
    BY <1>2, <2>1, <2>2 DEF FinalLabel
  <2>4. CASE r \in Remapped
    BY <2>2, <2>3, <2>4 DEF RootLabel
  <2>5. CASE r \notin Remapped
    <3>1. \A e \in gathered : e[1] # r /\ e[2] # r
      BY <2>5 DEF Remapped
    <3>2. Joins(root, gathered, Tips)
      BY <2>1, StagedLabels
    <3> HIDE DEF root
    <3>3. root[r] = r
      BY <2>2, <3>1, <3>2, UntouchedAlone
    <3>4. QED
      BY <2>3, <2>5, <3>3 DEF RootLabel
  <2>6. QED
    BY <2>4, <2>5
<1> HIDE DEF slice
<1>5. Expanded(p, slice) = [t \in TouchedOf(p) |-> FinalLabel(t)]
  BY <1>4 DEF Expanded
<1>6. QED
  BY <1>1, <1>5 DEF IsFinalMap

\* A PE that applies a final map to its first labels has its final labels.
LEMMA AppliedIsFinal ==
  ASSUME NEW q \in PEs, NEW D, NEW map,
         map = [t \in D |-> FinalLabel(t)],
         \A t \in TipsOf[q] : t \in D <=> t \in Touched
  PROVE  [t \in TipsOf[q] |-> IF FirstLabels(q)[t] \in DOMAIN map
                                THEN map[FirstLabels(q)[t]] ELSE FirstLabels(q)[t]]
           = FinalLabels(q)
<1>1. ASSUME NEW t \in TipsOf[q]
      PROVE  (IF FirstLabels(q)[t] \in DOMAIN map
                THEN map[FirstLabels(q)[t]] ELSE FirstLabels(q)[t]) = FinalLabel(t)
  <2>1. FirstLabels(q)[t] = t /\ DOMAIN map = D
    BY DEF FirstLabels
  <2>2. t \in D => map[t] = FinalLabel(t)
    OBVIOUS
  <2>3. t \notin Touched => FinalLabel(t) = t
    BY DEF FinalLabel
  <2>4. QED
    BY <2>1, <2>2, <2>3
<1>2. QED
  BY <1>1 DEF FinalLabels

-----------------------------------------------------------------------------
\* The steps of the driver.

LEMMA ModeFacts ==
  ASSUME mode \in Modes
  PROVE  /\ mode.kind \in {"raw", "broadcast", "staged", "dist"}
         /\ mode.batch \in Nat
         /\ mode.kind # "dist" => mode.batch = 0
BY ModesAssumption

\* One of the transitions of the driver, and who takes part in the next step.
Passes(from, to, who) == step = from /\ step' = to /\ waiting' = who

Rawly == mode.kind \in {"raw", "broadcast"}
Staged == mode.kind = "staged"
Distributed == mode.kind = "dist"

LEMMA GoOnCases ==
  ASSUME mode \in Modes, StepInv, GoOn
  PROVE  \/ Rawly /\ Passes("walk", "flush", PEs)
         \/ Rawly /\ Passes("flush", "finish", {})
         \/ Staged /\ Passes("walk", "stage", PEs)
         \/ Staged /\ Passes("stage", "contract", Procs)
         \/ Staged /\ Passes("contract", "route", Procs)
         \/ Staged /\ Passes("route", "forward", Procs)
         \/ Staged /\ Passes("forward", "finish", {})
         \/ Distributed /\ Passes("walk", "fire", PEs)
         \/ Distributed /\ Passes("fire", "drain", {})
         \/ Distributed /\ Passes("drain", "collect", Procs)
         \/ Distributed /\ Passes("collect", "applyUF2", PEs)
         \/ step \in {"apply", "applyAll", "applyUF2"} /\ step' = "done" /\ waiting' = {}
<1>1. /\ step' = Following /\ waiting' = Participants(step')
      /\ step \notin {"finish", "done"}
  BY DEF GoOn
<1>2. mode.kind \in {"raw", "broadcast", "staged", "dist"}
  BY ModeFacts
<1>3. CASE step = "walk"
  <2>1. Following = [raw |-> "flush", broadcast |-> "flush", staged |-> "stage",
                     dist |-> "fire"][mode.kind]
    BY <1>3 DEF Following
  <2>2. CASE mode.kind \in {"raw", "broadcast"}
    BY <1>1, <1>3, <2>1, <2>2 DEF Participants, Passes, Rawly
  <2>3. CASE mode.kind = "staged"
    BY <1>1, <1>3, <2>1, <2>3 DEF Participants, Passes, Staged
  <2>4. CASE mode.kind = "dist"
    BY <1>1, <1>3, <2>1, <2>4 DEF Participants, Passes, Distributed
  <2>5. QED
    BY <1>2, <2>2, <2>3, <2>4
<1>4. CASE step \in {"stage", "contract", "route", "forward"}
  <2>1. Staged
    BY <1>4 DEF StepInv, Staged
  <2>2. QED
    BY <1>1, <1>4, <2>1 DEF Following, Participants, Passes
<1>5. CASE step \in {"fire", "drain", "collect"}
  <2>1. Distributed
    BY <1>5 DEF StepInv, Distributed
  <2>2. QED
    BY <1>1, <1>5, <2>1 DEF Following, Participants, Passes
<1>6. CASE step = "flush"
  <2>1. Rawly
    BY <1>6 DEF StepInv, Rawly
  <2>2. QED
    BY <1>1, <1>6, <2>1 DEF Following, Participants, Passes
<1>7. CASE step \in {"apply", "applyAll", "applyUF2"}
  BY <1>1, <1>7 DEF Following, Participants, Passes
<1>8. QED
  BY <1>1, <1>3, <1>4, <1>5, <1>6, <1>7 DEF StepInv

\* The actions, each with its PE or process.
LEMMA NextCases ==
  ASSUME Next
  PROVE  \/ \E p \in Procs : ContractLocalEdges(p)
         \/ \E p \in Procs : RouteCrossEdges(p)
         \/ \E p \in Procs : ContractRemote(p)
         \/ \E p \in Procs : ForwardContracted(p)
         \/ \E p \in Procs : CollectUF2Labels(p)
         \/ \E p \in Procs : StoreSlice(p)
         \/ \E q \in PEs : Discover(q)
         \/ \E q \in PEs : Stage(q)
         \/ \E q \in PEs : FlushPhase3Edges(q)
         \/ \E q \in PEs : ApplySliceOnPE(q)
         \/ \E q \in PEs : FireUF2Edges(q)
         \/ \E q \in PEs : ApplyUF2Labels(q)
         \/ \E q \in PEs : ApplyGlobalMap(q)
         \/ GoOn \/ Finish \/ Broadcast \/ Absorb
BY DEF Next, ProcStep, PEStep, DriverStep

\* In each mode its steps remain.
LEMMA StepNext ==
  ASSUME MergeInv, Next
  PROVE  StepInv'
<1>1. mode \in Modes /\ StepInv
  BY DEF MergeInv, WalkInv
<1>2. mode.kind \in {"raw", "broadcast", "staged", "dist"} /\ (mode.kind # "dist" => mode.batch = 0)
  BY <1>1, ModeFacts
<1>3. mode' = mode
  BY NextCases DEF ContractLocalEdges, RouteCrossEdges, ContractRemote, ForwardContracted,
     CollectUF2Labels, StoreSlice, Discover, Stage, FlushPhase3Edges, ApplySliceOnPE,
     FireUF2Edges, ApplyUF2Labels, ApplyGlobalMap, GoOn, Finish, Broadcast, Absorb
<1>4. CASE GoOn
  <2>1. requests' = requests /\ (step = "drain" => requests = {}) /\ (step = "walk" => requests = {})
    BY <1>4 DEF GoOn, StepOver, Quiet
  <2>2. QED
    BY <1>1, <1>2, <1>3, <1>4, <2>1, GoOnCases DEF StepInv, Passes, Rawly, Staged, Distributed
<1>5. CASE Finish \/ Broadcast
  BY <1>1, <1>2, <1>3, <1>5 DEF StepInv, Finish, Broadcast
<1>6. CASE Absorb
  BY <1>1, <1>3, <1>6 DEF StepInv, Absorb
<1>7. ASSUME NEW q \in PEs, Discover(q)
      PROVE  StepInv'
  <2>1. mode.kind # "dist" => requests' = requests
    BY <1>2, <1>7 DEF Discover, IsFull
  <2>2. step = "walk" /\ step' = step /\ waiting' = waiting
    BY <1>7 DEF Discover
  <2>3. QED
    BY <1>1, <1>3, <2>1, <2>2 DEF StepInv
<1>8. CASE \E q \in PEs : FireUF2Edges(q)
  BY <1>1, <1>3, <1>8 DEF StepInv, FireUF2Edges, Contributes
<1>9. CASE /\ UNCHANGED <<step, requests>> /\ (waiting' = waiting \/ \E x : Contributes(x))
  BY <1>1, <1>3, <1>9 DEF StepInv, Contributes
<1>10. QED
  BY <1>4, <1>5, <1>6, <1>7, <1>8, <1>9, NextCases DEF ContractLocalEdges, RouteCrossEdges,
     ContractRemote, ForwardContracted, CollectUF2Labels, StoreSlice, Stage,
     FlushPhase3Edges, ApplySliceOnPE, ApplyUF2Labels, ApplyGlobalMap

-----------------------------------------------------------------------------
\* The walk.

\* An action other than the walk's keeps what was emitted.
LEMMA WalkKept ==
  ASSUME WalkInv, UNCHANGED <<mode, edges, walkVars>>,
         requests' \subseteq edges,
         requests \cup gathered \subseteq requests' \cup gathered',
         step' = "walk" => step = "walk",
         step' # "walk" => \A q \in PEs : toFind[q] = {}
  PROVE  WalkInv'
<1>1. \A e : Kept(e) => Kept(e)'
  BY DEF Kept, walkVars
<1>2. QED
  BY <1>1 DEF WalkInv, walkVars

LEMMA WalkNext ==
  ASSUME MergeInv, Next
  PROVE  WalkInv'
<1>1. WalkInv /\ StepInv
  BY DEF MergeInv
<1>2. mode.kind # "dist" => mode.batch = 0
  BY <1>1, ModeFacts DEF WalkInv
<1>3. ASSUME NEW q \in PEs, Discover(q)
      PROVE  WalkInv'
  <2>1. PICK e \in toFind[q] :
          /\ toFind' = [toFind EXCEPT ![q] = @ \ {e}]
          /\ seen' = [seen EXCEPT ![ProcOf[q]] = @ \cup {e}]
          /\ buf' = [buf EXCEPT ![q] = IF IsFull(Emitted(q, e)) THEN {} ELSE Emitted(q, e)]
          /\ requests' = IF IsFull(Emitted(q, e)) THEN requests \cup Emitted(q, e) ELSE requests
    BY <1>3 DEF Discover
  <2>2. step = "walk" /\ UNCHANGED <<mode, edges, step, gathered>>
    BY <1>3 DEF Discover
  <2>3. e \in edges /\ ProcOf[q] \in Procs /\ ProcOf[q] \in {Owner[e[1]], Owner[e[2]]}
    BY <1>1, PEsAssumption DEF WalkInv
  <2>4. Emitted(q, e) \subseteq buf[q] \cup {e} /\ buf[q] \subseteq Emitted(q, e)
    BY DEF Emitted
  <2>5. /\ buf \in [PEs -> SUBSET edges] /\ toFind \in [PEs -> SUBSET edges]
        /\ seen \in [Procs -> SUBSET edges] /\ requests \subseteq edges
    BY <1>1 DEF WalkInv
  <2>6. IsFull(Emitted(q, e)) => mode.kind = "dist"
    BY <1>1, <1>2, ModeFacts DEF IsFull, WalkInv
  <2>7. /\ toFind' \in [PEs -> SUBSET edges'] /\ buf' \in [PEs -> SUBSET edges']
        /\ seen' \in [Procs -> SUBSET edges'] /\ requests' \subseteq edges'
    BY <2>1, <2>2, <2>3, <2>4, <2>5
  <2>8. ASSUME NEW f, Kept(f)
        PROVE  Kept(f)'
    <3>1. CASE \E r \in PEs : f \in buf[r]
      <4>1. PICK r \in PEs : f \in buf[r]
        BY <3>1
      <4>2. CASE r = q /\ IsFull(Emitted(q, e))
        BY <2>1, <2>2, <2>4, <2>6, <4>1, <4>2 DEF Kept
      <4>3. CASE ~(r = q /\ IsFull(Emitted(q, e)))
        <5>1. f \in buf'[r]
          BY <2>1, <2>4, <2>5, <4>1, <4>3
        <5>2. QED
          BY <5>1 DEF Kept
      <4>4. QED
        BY <4>2, <4>3
    <3>2. CASE mode.kind = "dist" /\ f \in requests \cup gathered
      BY <2>1, <2>2, <3>2 DEF Kept
    <3>3. QED
      BY <2>8, <3>1, <3>2 DEF Kept
  <2>9. Kept(e)'
    <3>1. CASE e \in seen[ProcOf[q]]
      <4>1. Kept(e)
        BY <1>1, <2>3, <3>1 DEF WalkInv
      <4>2. QED
        BY <2>8, <4>1
    <3>2. CASE e \notin seen[ProcOf[q]]
      <4>1. e \in Emitted(q, e)
        BY <3>2 DEF Emitted
      <4>2. CASE IsFull(Emitted(q, e))
        BY <2>1, <2>2, <2>6, <4>1, <4>2 DEF Kept
      <4>3. CASE ~IsFull(Emitted(q, e))
        <5>1. e \in buf'[q]
          BY <2>1, <2>5, <4>1, <4>3
        <5>2. QED
          BY <5>1 DEF Kept
      <4>4. QED
        BY <4>2, <4>3
    <3>3. QED
      BY <3>1, <3>2
  <2>10. \A r \in PEs : \A f \in toFind'[r] \cup buf'[r] : ProcOf[r] \in {Owner[f[1]], Owner[f[2]]}
    <3>1. \A r \in PEs : toFind'[r] \cup buf'[r] \subseteq toFind[r] \cup buf[r]
      BY <2>1, <2>4, <2>5
    <3>2. QED
      BY <1>1, <3>1 DEF WalkInv
  <2>11. ASSUME NEW f \in edges
         PROVE  (\E r \in PEs : f \in toFind'[r]) \/ Kept(f)'
    <3>1. CASE \E r \in PEs : f \in toFind[r]
      <4>1. PICK r \in PEs : f \in toFind[r]
        BY <3>1
      <4>2. f = e \/ f \in toFind'[r]
        BY <2>1, <2>5, <4>1
      <4>3. QED
        BY <2>9, <4>2
    <3>2. CASE Kept(f)
      BY <2>8, <3>2
    <3>3. QED
      BY <1>1, <3>1, <3>2 DEF WalkInv
  <2>12. ASSUME NEW p \in Procs, NEW f \in seen'[p]
         PROVE  Kept(f)'
    <3>1. f \in seen[p] \/ f = e
      BY <2>1, <2>5, <2>12
    <3>2. f \in seen[p] => Kept(f)
      BY <1>1 DEF WalkInv
    <3>3. QED
      BY <2>8, <2>9, <3>1, <3>2
  <2>13. QED
    BY <1>1, <2>2, <2>7, <2>10, <2>11, <2>12 DEF WalkInv
<1>4. CASE GoOn
  <2>1. step' = "walk" => step = "walk"
    BY <1>1, <1>4, GoOnCases DEF Passes, WalkInv
  <2>2. step' # "walk" => \A q \in PEs : toFind[q] = {}
    BY <1>1, <1>4 DEF GoOn, StepOver, WalkInv
  <2>3. QED
    BY <1>1, <1>4, <2>1, <2>2, WalkKept DEF GoOn, WalkInv
<1>5. CASE Finish \/ Broadcast
  BY <1>1, <1>5, WalkKept DEF Finish, Broadcast, WalkInv
<1>6. CASE Absorb
  BY <1>1, <1>6, WalkKept DEF Absorb, WalkInv
<1>7. ASSUME NEW q \in PEs, FireUF2Edges(q)
      PROVE  WalkInv'
  <2>1. requests' \subseteq edges
    BY <1>1, <1>7 DEF FireUF2Edges, WalkInv
  <2>2. QED
    BY <1>1, <1>7, <2>1, WalkKept DEF FireUF2Edges, WalkInv
<1>8. CASE /\ UNCHANGED <<mode, edges, walkVars, step, requests>> /\ gathered \subseteq gathered'
  BY <1>1, <1>8, WalkKept DEF WalkInv
<1>9. QED
  BY <1>3, <1>4, <1>5, <1>6, <1>7, <1>8, NextCases DEF ContractLocalEdges, RouteCrossEdges,
     ContractRemote, ForwardContracted, CollectUF2Labels, StoreSlice, Stage,
     FlushPhase3Edges, ApplySliceOnPE, ApplyUF2Labels, ApplyGlobalMap

-----------------------------------------------------------------------------
\* The raw edges.

\* After the walk every edge is where a PE or the library has it.
LEMMA AllKept ==
  ASSUME WalkInv, step # "walk", NEW e \in edges
  PROVE  Kept(e)
BY DEF WalkInv

LEMMA RawNext ==
  ASSUME MergeInv, Next
  PROVE  RawInv'
<1>1. WalkInv /\ StepInv /\ RawInv
  BY DEF MergeInv
<1>2. mode.kind \in {"raw", "broadcast", "staged", "dist"}
  BY <1>1, ModeFacts DEF WalkInv
<1>3. requests \subseteq edges /\ \A q \in PEs : buf[q] \subseteq edges
  BY <1>1 DEF WalkInv
<1>4. ASSUME NEW q \in PEs, Discover(q)
      PROVE  RawInv'
  BY <1>1, <1>4 DEF RawInv, Discover
<1>5. ASSUME NEW q \in PEs, FlushPhase3Edges(q)
      PROVE  RawInv'
  <2>1. step = "flush" /\ waiting' = waiting \ {q} /\ gathered' = gathered \cup buf[q]
    BY <1>5 DEF FlushPhase3Edges, Contributes
  <2>2. UNCHANGED <<mode, edges, buf, step, requests>>
    BY <1>5 DEF FlushPhase3Edges, walkVars
  <2>3. QED
    BY <1>1, <1>3, <2>1, <2>2 DEF RawInv
<1>6. ASSUME NEW q \in PEs, FireUF2Edges(q)
      PROVE  RawInv'
  <2>1. step = "fire" /\ waiting' = waiting \ {q} /\ requests' = requests \cup buf[q]
    BY <1>6 DEF FireUF2Edges, Contributes
  <2>2. UNCHANGED <<mode, edges, buf, step, gathered>>
    BY <1>6 DEF FireUF2Edges, walkVars
  <2>3. QED
    BY <1>1, <1>3, <2>1, <2>2 DEF RawInv
<1>7. CASE Absorb
  <2>1. PICK e \in requests : requests' = requests \ {e} /\ gathered' = gathered \cup {e}
    BY <1>7 DEF Absorb
  <2>2. UNCHANGED <<mode, edges, buf, step, waiting>>
    BY <1>7 DEF Absorb, walkVars
  <2>3. mode.kind = "dist" /\ step \in {"walk", "fire", "drain"} /\ e \in edges
    BY <1>1, <1>3, <2>1 DEF StepInv
  <2>4. QED
    BY <1>1, <2>1, <2>2, <2>3 DEF RawInv
<1>8. ASSUME NEW p \in Procs, ForwardContracted(p)
      PROVE  RawInv'
  <2>1. step = "forward" /\ mode.kind = "staged" /\ UNCHANGED <<mode, step>>
    BY <1>1, <1>8 DEF ForwardContracted, StepInv
  <2>2. QED
    BY <2>1 DEF RawInv
<1>9. CASE GoOn
  <2>1. /\ UNCHANGED <<mode, edges, buf, requests, gathered>>
        /\ waiting = {} /\ (step = "drain" => requests = {})
    BY <1>9 DEF GoOn, StepOver, Quiet, walkVars
  <2>2. CASE Rawly /\ Passes("flush", "finish", {})
    <3>1. mode.kind # "staged" /\ mode.kind # "dist" /\ step = "flush" /\ step' = "finish"
      BY <2>2 DEF Rawly, Passes
    <3>2. \A e \in edges : \E q \in PEs : e \in buf[q]
      BY <1>1, <3>1, AllKept DEF Kept
    <3>3. edges \subseteq gathered
      BY <1>1, <2>1, <3>1, <3>2 DEF RawInv
    <3>4. QED
      BY <1>1, <2>1, <3>1, <3>3 DEF RawInv
  <2>3. CASE Distributed /\ Passes("drain", "collect", Procs)
    <3>1. mode.kind = "dist" /\ step = "drain" /\ step' = "collect" /\ requests = {}
      BY <2>1, <2>3 DEF Distributed, Passes
    <3>2. \A e \in edges : (\E q \in PEs : e \in buf[q]) \/ e \in gathered
      BY <1>1, <3>1, AllKept DEF Kept
    <3>3. edges \subseteq gathered
      BY <1>1, <3>1, <3>2 DEF RawInv
    <3>4. QED
      BY <1>1, <2>1, <3>1, <3>3 DEF RawInv
  <2>4. CASE Distributed /\ Passes("fire", "drain", {})
    BY <1>1, <2>1, <2>4 DEF RawInv, Distributed, Passes
  <2>5. CASE \/ Rawly /\ Passes("walk", "flush", PEs)
             \/ Staged /\ Passes("walk", "stage", PEs)
             \/ Staged /\ Passes("stage", "contract", Procs)
             \/ Staged /\ Passes("contract", "route", Procs)
             \/ Staged /\ Passes("route", "forward", Procs)
             \/ Staged /\ Passes("forward", "finish", {})
             \/ Distributed /\ Passes("walk", "fire", PEs)
             \/ Distributed /\ Passes("collect", "applyUF2", PEs)
             \/ step \in {"apply", "applyAll", "applyUF2"} /\ step' = "done" /\ waiting' = {}
    <3>1. \/ Rawly /\ step' = "flush" /\ waiting' = PEs
          \/ Staged /\ step' \in {"stage", "contract", "route", "forward", "finish"}
          \/ Distributed /\ step' = "fire" /\ waiting' = PEs
          \/ Distributed /\ step = "collect" /\ step' = "applyUF2"
          \/ step \in {"apply", "applyAll", "applyUF2"} /\ step' = "done"
      BY <2>5 DEF Passes
    <3>2. QED
      BY <1>1, <2>1, <3>1 DEF RawInv, Rawly, Staged, Distributed
  <2>6. QED
    BY <1>1, <1>9, <2>2, <2>3, <2>4, <2>5, GoOnCases DEF WalkInv
<1>10. CASE Finish \/ Broadcast
  <2>1. step = "finish" /\ step' \in {"apply", "applyAll"} /\ UNCHANGED <<mode, edges, gathered>>
    BY <1>10 DEF Finish, Broadcast
  <2>2. QED
    BY <1>1, <2>1 DEF RawInv
<1>11. ASSUME UNCHANGED <<mode, edges, walkVars, step, requests, gathered>>,
              waiting' = waiting \/ step \notin {"flush", "fire"}
       PROVE  RawInv'
  BY <1>1, <1>11 DEF RawInv, walkVars
<1>12. ASSUME NEW p \in Procs,
              \/ ContractLocalEdges(p) \/ RouteCrossEdges(p) \/ ContractRemote(p)
              \/ CollectUF2Labels(p) \/ StoreSlice(p)
       PROVE  RawInv'
  BY <1>11, <1>12 DEF ContractLocalEdges, RouteCrossEdges, ContractRemote, CollectUF2Labels, StoreSlice
<1>13. ASSUME NEW q \in PEs,
              Stage(q) \/ ApplySliceOnPE(q) \/ ApplyUF2Labels(q) \/ ApplyGlobalMap(q)
       PROVE  RawInv'
  <2>1. ApplySliceOnPE(q) => step = "apply"
    BY DEF ApplySliceOnPE, MergeInv, SliceInv
  <2>2. QED
    BY <1>11, <1>13, <2>1 DEF Stage, ApplySliceOnPE, ApplyUF2Labels, ApplyGlobalMap
<1>14. QED
  BY <1>4, <1>5, <1>6, <1>7, <1>8, <1>9, <1>10, <1>12, <1>13, NextCases

-----------------------------------------------------------------------------
\* The staged edges.

LEMMA OwnedEndsFacts ==
  ASSUME NEW p, NEW e
  PROVE  /\ BothOwned(p, e) <=> Owner[e[1]] = p /\ Owner[e[2]] = p
         /\ OwnedEnds(p, e) # {} <=> Owner[e[1]] = p \/ Owner[e[2]] = p
BY DEF BothOwned, OwnedEnds

LEMMA StagedNext ==
  ASSUME MergeInv, Next
  PROVE  StagedInv'
<1>1. WalkInv /\ StepInv /\ StagedInv
  BY DEF MergeInv
<1>2. /\ stageLocal \in [Procs -> SUBSET edges] /\ stageCross \in [Procs -> SUBSET edges]
      /\ buf \in [PEs -> SUBSET edges]
  BY <1>1 DEF StagedInv, WalkInv
<1>3. ASSUME NEW q \in PEs, Stage(q)
      PROVE  StagedInv'
  <2> DEFINE p == ProcOf[q]
             local == {e \in buf[q] : BothOwned(p, e)}
             cross == {e \in buf[q] : ~BothOwned(p, e)}
  <2>1. /\ step = "stage" /\ waiting' = waiting \ {q} /\ UNCHANGED <<mode, edges, buf, step>>
        /\ stageLocal' = [stageLocal EXCEPT ![p] = @ \cup local]
        /\ stageCross' = [stageCross EXCEPT ![p] = @ \cup cross]
    BY <1>3 DEF Stage, Contributes, walkVars
  <2>2. p \in Procs
    BY PEsAssumption
  <2>3. local \subseteq LocalEdges(p)
    BY <1>2, OwnedEndsFacts DEF LocalEdges
  <2>4. cross \subseteq CrossAt(p)
    <3>1. \A e \in buf[q] : p \in {Owner[e[1]], Owner[e[2]]}
      BY <1>1 DEF WalkInv
    <3>2. QED
      BY <1>2, <3>1, OwnedEndsFacts DEF CrossAt, CrossEdges
  <2>5. buf[q] = local \cup cross /\ local \subseteq edges /\ cross \subseteq edges
    BY <1>2
  <2> HIDE DEF local, cross
  <2>6. /\ stageLocal' \in [Procs -> SUBSET edges'] /\ stageCross' \in [Procs -> SUBSET edges']
    BY <1>2, <2>1, <2>2, <2>5
  <2>7. ASSUME NEW d \in Procs
        PROVE  stageLocal'[d] \subseteq LocalEdges(d)' /\ stageCross'[d] \subseteq CrossAt(d)'
    <3>1. LocalEdges(d)' = LocalEdges(d) /\ CrossAt(d)' = CrossAt(d)
      BY <2>1 DEF LocalEdges, CrossAt, CrossEdges
    <3>2. stageLocal[d] \subseteq LocalEdges(d) /\ stageCross[d] \subseteq CrossAt(d)
      BY <1>1 DEF StagedInv
    <3>3. QED
      BY <1>2, <2>1, <2>2, <2>3, <2>4, <3>1, <3>2
  <2>8. ASSUME NEW r \in PEs \ waiting'
        PROVE  buf'[r] \subseteq stageLocal'[ProcOf[r]] \cup stageCross'[ProcOf[r]]
    <3>1. ProcOf[r] \in Procs
      BY PEsAssumption
    <3>2. /\ stageLocal[ProcOf[r]] \subseteq stageLocal'[ProcOf[r]]
          /\ stageCross[ProcOf[r]] \subseteq stageCross'[ProcOf[r]]
      BY <1>2, <2>1, <3>1
    <3>3. CASE r = q
      BY <1>2, <2>1, <2>2, <2>5, <3>3
    <3>4. CASE r # q
      <4>1. r \in PEs \ waiting
        BY <2>1, <3>4
      <4>2. buf[r] \subseteq stageLocal[ProcOf[r]] \cup stageCross[ProcOf[r]]
        BY <1>1, <2>1, <4>1 DEF StagedInv
      <4>3. QED
        BY <2>1, <3>2, <4>2
    <3>5. QED
      BY <3>3, <3>4
  <2>9. QED
    BY <2>1, <2>6, <2>7, <2>8 DEF StagedInv
<1>4. ASSUME UNCHANGED <<mode, edges, buf, stageLocal, stageCross>>,
             step' = "stage" => step = "stage" /\ waiting' = waiting,
             mode.kind = "staged" /\ step' \notin {"walk", "stage"} => step \notin {"walk", "stage"}
      PROVE  StagedInv'
  <2>1. \A d : LocalEdges(d)' = LocalEdges(d) /\ CrossAt(d)' = CrossAt(d)
    BY <1>4 DEF LocalEdges, CrossAt, CrossEdges
  <2>2. QED
    BY <1>1, <1>4, <2>1 DEF StagedInv
<1>5. CASE GoOn
  <2>1. UNCHANGED <<mode, edges, buf, stageLocal, stageCross>> /\ waiting = {}
    BY <1>5 DEF GoOn, StepOver, walkVars, stageVars
  <2>2. \A d : LocalEdges(d)' = LocalEdges(d) /\ CrossAt(d)' = CrossAt(d)
    BY <2>1 DEF LocalEdges, CrossAt, CrossEdges
  <2>3. CASE Staged /\ Passes("walk", "stage", PEs)
    BY <1>1, <2>1, <2>2, <2>3 DEF StagedInv, Passes
  <2>4. CASE Staged /\ Passes("stage", "contract", Procs)
    <3>1. mode.kind = "staged" /\ step = "stage" /\ step' = "contract"
      BY <2>4 DEF Staged, Passes
    <3>2. \A e \in edges : \E q \in PEs : e \in buf[q]
      BY <1>1, <3>1, AllKept DEF Kept
    <3>3. \A q \in PEs : /\ buf[q] \subseteq stageLocal[ProcOf[q]] \cup stageCross[ProcOf[q]]
                         /\ ProcOf[q] \in Procs
      BY <1>1, <2>1, <3>1, PEsAssumption DEF StagedInv
    <3>4. edges \subseteq UNION {stageLocal[p] \cup stageCross[p] : p \in Procs}
      BY <3>2, <3>3
    <3>5. QED
      BY <1>1, <2>1, <2>2, <3>1, <3>4 DEF StagedInv
  <2>5. CASE ~(Staged /\ step = "walk") /\ ~(Staged /\ step = "stage")
    <3>1. step' # "stage"
      BY <1>1, <1>5, <2>5, GoOnCases DEF WalkInv, Passes
    <3>2. QED
      BY <1>1, <1>4, <2>1, <2>5, <3>1 DEF StepInv, Staged
  <2>6. QED
    BY <1>1, <1>5, <2>3, <2>4, <2>5, GoOnCases DEF WalkInv, Passes, Staged, Rawly, Distributed
<1>6. CASE Finish \/ Broadcast
  BY <1>4, <1>6 DEF Finish, Broadcast, walkVars, stageVars
<1>7. CASE Absorb
  BY <1>4, <1>7 DEF Absorb, walkVars, stageVars
<1>8. ASSUME NEW p \in Procs,
             \/ ContractLocalEdges(p) \/ RouteCrossEdges(p) \/ ContractRemote(p)
             \/ ForwardContracted(p) \/ CollectUF2Labels(p) \/ StoreSlice(p)
      PROVE  StagedInv'
  BY <1>4, <1>8 DEF ContractLocalEdges, RouteCrossEdges, ContractRemote, ForwardContracted,
     CollectUF2Labels, StoreSlice, walkVars, stageVars
<1>9. ASSUME NEW q \in PEs, Discover(q)
      PROVE  StagedInv'
  <2>1. step = "walk" /\ step' = step /\ UNCHANGED <<mode, edges, stageLocal, stageCross>>
    BY <1>9 DEF Discover, stageVars
  <2>2. \A d : LocalEdges(d)' = LocalEdges(d) /\ CrossAt(d)' = CrossAt(d)
    BY <2>1 DEF LocalEdges, CrossAt, CrossEdges
  <2>3. QED
    BY <1>1, <2>1, <2>2 DEF StagedInv
<1>10. ASSUME NEW q \in PEs,
              \/ FlushPhase3Edges(q) \/ ApplySliceOnPE(q) \/ FireUF2Edges(q) \/ ApplyUF2Labels(q)
              \/ ApplyGlobalMap(q)
       PROVE  StagedInv'
  <2>1. ApplySliceOnPE(q) => step = "apply"
    BY DEF ApplySliceOnPE, MergeInv, SliceInv
  <2>2. QED
    BY <1>4, <1>10, <2>1 DEF FlushPhase3Edges, ApplySliceOnPE, FireUF2Edges, ApplyUF2Labels,
       ApplyGlobalMap, walkVars, stageVars
<1>11. QED
  BY <1>3, <1>5, <1>6, <1>7, <1>8, <1>9, <1>10, NextCases

\* A cross edge on the way: its far end is as it was, and the owner of the far end
\* makes the contracted edge of it.
LEMMA AtRootsFar ==
  ASSUME edges \in Graphs, ForestsJoin, NEW p \in Procs, NEW d \in Procs, p # d,
         NEW e \in CrossAt(p), OwnedEnds(d, e) # {}
  PROVE  /\ OwnedEnds(d, AtRoots(p, e)) = OwnedEnds(d, e)
         /\ AtRoots(d, AtRoots(p, e)) = Contract(e)
         /\ e \in CrossEdges
<1>1. e \in CrossEdges /\ e \in edges
  BY DEF CrossAt, CrossEdges
<1>2. e[1] \in Tips /\ e[2] \in Tips /\ e[1] \in Nat /\ e[2] \in Nat
  BY <1>1, EdgeFacts
<1>3. \A t \in Tips : /\ LocalRoot(t) \in Tips /\ LocalRoot(t) \in Nat
                      /\ Owner[LocalRoot(t)] = Owner[t]
  BY LocalRootsJoin, TipsAssumption
<1>4. CASE Owner[e[1]] = p /\ Owner[e[2]] = d
  <2> DEFINE r == LocalRoot(e[1])
             s == LocalRoot(e[2])
  <2>1. r = forest[p][e[1]] /\ s = forest[d][e[2]] /\ r \in Nat /\ s \in Nat /\ Owner[r] = p
    BY <1>2, <1>3, <1>4 DEF LocalRoot
  <2>2. OwnedEnds(d, e) = {e[2]}
    BY <1>4 DEF OwnedEnds
  <2>3. AtRoots(p, e) = Edge(r, e[2])
    BY <1>4, <2>1 DEF AtRoots
  <2>4. Edge(r, e[2]) = <<r, e[2]>> \/ Edge(r, e[2]) = <<e[2], r>>
    BY <1>2, <2>1, EdgeEnds
  <2>5. Edge(r, s) = Edge(s, r)
    BY <2>1, EdgeEnds
  <2>6. OwnedEnds(d, <<r, e[2]>>) = {e[2]} /\ OwnedEnds(d, <<e[2], r>>) = {e[2]}
    BY <1>4, <2>1 DEF OwnedEnds
  <2>7. AtRoots(d, <<r, e[2]>>) = Edge(r, s) /\ AtRoots(d, <<e[2], r>>) = Edge(s, r)
    BY <1>4, <2>1 DEF AtRoots
  <2>8. QED
    BY <1>1, <2>2, <2>3, <2>4, <2>5, <2>6, <2>7 DEF Contract
<1>5. CASE Owner[e[1]] = d /\ Owner[e[2]] = p
  <2> DEFINE r == LocalRoot(e[2])
             s == LocalRoot(e[1])
  <2>1. r = forest[p][e[2]] /\ s = forest[d][e[1]] /\ r \in Nat /\ s \in Nat /\ Owner[r] = p
    BY <1>2, <1>3, <1>5 DEF LocalRoot
  <2>2. OwnedEnds(d, e) = {e[1]}
    BY <1>5 DEF OwnedEnds
  <2>3. AtRoots(p, e) = Edge(e[1], r)
    BY <1>5, <2>1 DEF AtRoots
  <2>4. Edge(e[1], r) = <<e[1], r>> \/ Edge(e[1], r) = <<r, e[1]>>
    BY <1>2, <2>1, EdgeEnds
  <2>5. Edge(r, s) = Edge(s, r)
    BY <2>1, EdgeEnds
  <2>6. OwnedEnds(d, <<r, e[1]>>) = {e[1]} /\ OwnedEnds(d, <<e[1], r>>) = {e[1]}
    BY <1>5, <2>1 DEF OwnedEnds
  <2>7. AtRoots(d, <<r, e[1]>>) = Edge(r, s) /\ AtRoots(d, <<e[1], r>>) = Edge(s, r)
    BY <1>5, <2>1 DEF AtRoots
  <2>8. QED
    BY <1>1, <2>2, <2>3, <2>4, <2>5, <2>6, <2>7 DEF Contract
<1>6. Owner[e[1]] = d \/ Owner[e[2]] = d
  BY OwnedEndsFacts
<1>7. QED
  BY <1>4, <1>5, <1>6 DEF CrossAt, CrossEdges

-----------------------------------------------------------------------------
\* The forests.

\* From the routing on all forests are there.
LEMMA AllContracted ==
  ASSUME StagedInv, ForestInv, mode.kind = "staged",
         step \in {"route", "forward", "finish", "apply", "done"}
  PROVE  /\ ForestsJoin
         /\ \A p \in Procs : OwnedTips(p, stageLocal[p] \cup stageCross[p]) \subseteq stageTips[p]
BY DEF ForestInv, HasContracted, ForestsJoin, StagedInv

LEMMA OwnedTipsTouched ==
  ASSUME NEW p, NEW E \in SUBSET edges
  PROVE  \A t \in OwnedTips(p, E) : t \in Touched /\ Owner[t] = p
BY DEF OwnedTips, OwnedEnds, Touched

\* The far ends of a batch are touched tips of the process it goes to.
LEMMA BatchTips ==
  ASSUME edges \in Graphs, StagedInv, ForestsJoin, RouteInv, NEW p \in Procs,
         NEW m \in batches, m.to = p
  PROVE  \A t \in OwnedTips(p, m.edges) : t \in Touched /\ Owner[t] = p
<1>1. SUFFICES ASSUME NEW x \in m.edges, NEW t \in OwnedEnds(p, x)
               PROVE  t \in Touched /\ Owner[t] = p
  BY DEF OwnedTips
<1>2. PICK d \in Procs \ {p} : Routable(d, p, x)
  BY DEF RouteInv
<1>3. PICK e \in stageCross[d] : OwnedEnds(p, e) # {} /\ x = AtRoots(d, e)
  BY <1>2 DEF Routable
<1>4. e \in CrossAt(d)
  BY <1>2, <1>3 DEF StagedInv
<1>5. t \in OwnedEnds(p, e) /\ e \in edges
  BY <1>2, <1>3, <1>4, AtRootsFar DEF CrossEdges
<1>6. QED
  BY <1>5 DEF OwnedEnds, Touched

LEMMA ForestKept ==
  ASSUME ForestInv, UNCHANGED <<edges, stageLocal, stageCross, forest, stageTips>>,
         \A p \in Procs : HasContracted(p)' <=> HasContracted(p)
  PROVE  ForestInv'
<1>1. Touched' = Touched
  BY DEF Touched
<1>2. \A p \in Procs : OwnedTips(p, stageLocal[p] \cup stageCross[p])'
                         = OwnedTips(p, stageLocal[p] \cup stageCross[p])
  BY DEF OwnedTips, OwnedEnds
<1>3. QED
  BY <1>1, <1>2 DEF ForestInv

LEMMA ForestNext ==
  ASSUME MergeInv, Next
  PROVE  ForestInv'
<1>1. WalkInv /\ StepInv /\ StagedInv /\ ForestInv /\ RouteInv
  BY DEF MergeInv
<1>2. /\ stageLocal \in [Procs -> SUBSET edges] /\ stageCross \in [Procs -> SUBSET edges]
      /\ stageTips \in [Procs -> SUBSET Touched]
      /\ edges \in Graphs
  BY <1>1 DEF StagedInv, ForestInv, WalkInv
<1>3. ASSUME NEW p \in Procs, ContractLocalEdges(p)
      PROVE  ForestInv'
  <2> DEFINE E == stageLocal[p] \cup stageCross[p]
  <2>1. /\ step = "contract" /\ p \in waiting /\ waiting' = waiting \ {p}
        /\ UNCHANGED <<mode, edges, step, stageLocal, stageCross>>
        /\ forest' = [forest EXCEPT ![p] = UniteAll(@, stageLocal[p])]
        /\ stageTips' = [stageTips EXCEPT ![p] = @ \cup OwnedTips(p, E)]
    BY <1>3 DEF ContractLocalEdges, Contributes
  <2>2. forest = [d \in Procs |-> forest[d]] /\ forest[p] = Alone(Tips)
    BY <1>1, <2>1 DEF ForestInv, HasContracted
  <2>3. \A t \in OwnedTips(p, E) : t \in Touched /\ Owner[t] = p
    BY <1>2, OwnedTipsTouched
  <2>4. Touched' = Touched
    BY <2>1 DEF Touched
  <2>5. \A d \in Procs : OwnedTips(d, stageLocal[d] \cup stageCross[d])'
                           = OwnedTips(d, stageLocal[d] \cup stageCross[d])
    BY <2>1 DEF OwnedTips, OwnedEnds
  <2>6. /\ forest' = [d \in Procs |-> forest'[d]]
        /\ forest'[p] = UniteAll(Alone(Tips), stageLocal[p])
        /\ \A d \in Procs \ {p} : forest'[d] = forest[d]
    BY <2>1, <2>2
  <2>7. /\ stageTips' \in [Procs -> SUBSET Touched]
        /\ stageTips'[p] = stageTips[p] \cup OwnedTips(p, E)
        /\ \A d \in Procs \ {p} : stageTips'[d] = stageTips[d]
    BY <1>2, <2>1, <2>3
  <2>8. Joins(forest'[p], stageLocal[p], Tips)
    <3>1. stageLocal[p] \in SUBSET (Tips \X Tips)
      BY <1>2, EdgeFacts
    <3>2. QED
      BY <2>6, <3>1, BossJoins
  <2>9. ASSUME NEW d \in Procs
        PROVE  /\ \A t \in stageTips'[d] : Owner[t] = d
               /\ IF HasContracted(d)'
                    THEN /\ Joins(forest'[d], stageLocal'[d], Tips)
                         /\ OwnedTips(d, stageLocal[d] \cup stageCross[d])' \subseteq stageTips'[d]
                    ELSE forest'[d] = Alone(Tips)
    <3>1. CASE d = p
      <4>1. HasContracted(d)'
        BY <2>1, <3>1 DEF HasContracted
      <4>2. \A t \in stageTips'[d] : Owner[t] = d
        BY <1>1, <2>3, <2>7, <3>1 DEF ForestInv
      <4>3. OwnedTips(d, stageLocal[d] \cup stageCross[d])' \subseteq stageTips'[d]
        BY <2>5, <2>7, <3>1
      <4>4. QED
        BY <2>1, <2>8, <3>1, <4>1, <4>2, <4>3
    <3>2. CASE d # p
      <4>1. HasContracted(d)' <=> HasContracted(d)
        BY <2>1, <3>2 DEF HasContracted
      <4>2. forest'[d] = forest[d] /\ stageTips'[d] = stageTips[d] /\ stageLocal'[d] = stageLocal[d]
        BY <2>1, <2>6, <2>7, <3>2
      <4>3. /\ \A t \in stageTips[d] : Owner[t] = d
            /\ IF HasContracted(d)
                 THEN /\ Joins(forest[d], stageLocal[d], Tips)
                      /\ OwnedTips(d, stageLocal[d] \cup stageCross[d]) \subseteq stageTips[d]
                 ELSE forest[d] = Alone(Tips)
        BY <1>1 DEF ForestInv
      <4>4. QED
        BY <2>5, <4>1, <4>2, <4>3
    <3>3. QED
      BY <3>1, <3>2
  <2>10. QED
    BY <2>4, <2>6, <2>7, <2>9 DEF ForestInv
<1>4. ASSUME NEW p \in Procs, ContractRemote(p)
      PROVE  ForestInv'
  <2>1. PICK m \in batches :
          /\ m.to = p
          /\ stageTips' = [stageTips EXCEPT ![p] = @ \cup OwnedTips(p, m.edges)]
    BY <1>4 DEF ContractRemote
  <2>2. UNCHANGED <<mode, edges, step, waiting, stageLocal, stageCross, forest>>
    BY <1>4 DEF ContractRemote
  <2>3. step = "route" /\ mode.kind = "staged"
    BY <1>1, <2>1 DEF RouteInv, StepInv
  <2>4. ForestsJoin
    BY <1>1, <2>3, AllContracted
  <2>5. \A t \in OwnedTips(p, m.edges) : t \in Touched /\ Owner[t] = p
    BY <1>1, <1>2, <2>1, <2>4, BatchTips
  <2>6. /\ stageTips' \in [Procs -> SUBSET Touched]
        /\ stageTips'[p] = stageTips[p] \cup OwnedTips(p, m.edges)
        /\ \A d \in Procs \ {p} : stageTips'[d] = stageTips[d]
    BY <1>2, <2>1, <2>5
  <2>7. Touched' = Touched
    BY <2>2 DEF Touched
  <2>8. \A d \in Procs : OwnedTips(d, stageLocal[d] \cup stageCross[d])'
                           = OwnedTips(d, stageLocal[d] \cup stageCross[d])
    BY <2>2 DEF OwnedTips, OwnedEnds
  <2>9. \A d \in Procs : HasContracted(d)' <=> HasContracted(d)
    BY <2>2 DEF HasContracted
  <2>10. \A d \in Procs : stageTips[d] \subseteq stageTips'[d]
    BY <2>6
  <2>11. \A d \in Procs : \A t \in stageTips'[d] : Owner[t] = d
    BY <1>1, <2>5, <2>6 DEF ForestInv
  <2>12. QED
    BY <1>1, <2>2, <2>6, <2>7, <2>8, <2>9, <2>10, <2>11 DEF ForestInv
<1>5. ASSUME NEW q \in PEs, Stage(q)
      PROVE  ForestInv'
  <2>1. step = "stage" /\ UNCHANGED <<edges, step, forest, stageTips>>
    BY <1>5 DEF Stage
  <2>2. Touched' = Touched
    BY <2>1 DEF Touched
  <2>3. \A d \in Procs : ~HasContracted(d) /\ ~HasContracted(d)'
    BY <2>1 DEF HasContracted
  <2>4. QED
    BY <1>1, <2>1, <2>2, <2>3 DEF ForestInv
<1>6. CASE GoOn
  <2>1. UNCHANGED <<mode, edges, stageLocal, stageCross, forest, stageTips>> /\ waiting = {}
    BY <1>6 DEF GoOn, StepOver, stageVars
  <2>2. \A p \in Procs : HasContracted(p)' <=> HasContracted(p)
    BY <1>1, <1>6, <2>1, GoOnCases DEF HasContracted, WalkInv, StepInv, Passes, Staged, Rawly, Distributed
  <2>3. QED
    BY <1>1, <2>1, <2>2, ForestKept
<1>7. ASSUME UNCHANGED <<mode, edges, stageLocal, stageCross, forest, stageTips>>,
             \/ step' = step /\ (step = "contract" => waiting' = waiting)
             \/ step = "finish" /\ step' \in {"apply", "applyAll"} /\ (mode.kind = "staged" => step' = "apply")
      PROVE  ForestInv'
  <2>1. \A p \in Procs : HasContracted(p)' <=> HasContracted(p)
    BY <1>7 DEF HasContracted
  <2>2. QED
    BY <1>1, <1>7, <2>1, ForestKept
<1>8. CASE Finish \/ Broadcast
  <2>1. Broadcast => mode.kind # "staged"
    BY DEF Broadcast
  <2>2. QED
    BY <1>7, <1>8, <2>1 DEF Finish, Broadcast, stageVars
<1>9. CASE Absorb
  BY <1>7, <1>9 DEF Absorb, stageVars
<1>10. ASSUME NEW p \in Procs,
              \/ RouteCrossEdges(p) \/ ForwardContracted(p) \/ CollectUF2Labels(p) \/ StoreSlice(p)
       PROVE  ForestInv'
  BY <1>7, <1>10 DEF RouteCrossEdges, ForwardContracted, CollectUF2Labels, StoreSlice, stageVars
<1>11. ASSUME NEW q \in PEs,
              \/ Discover(q) \/ FlushPhase3Edges(q) \/ ApplySliceOnPE(q) \/ FireUF2Edges(q)
              \/ ApplyUF2Labels(q) \/ ApplyGlobalMap(q)
       PROVE  ForestInv'
  <2>1. ApplySliceOnPE(q) => step = "apply"
    BY DEF ApplySliceOnPE, MergeInv, SliceInv
  <2>2. QED
    BY <1>7, <1>11, <2>1 DEF Discover, FlushPhase3Edges, ApplySliceOnPE, FireUF2Edges, ApplyUF2Labels,
       ApplyGlobalMap, stageVars
<1>12. QED
  BY <1>3, <1>4, <1>5, <1>6, <1>8, <1>9, <1>10, <1>11, NextCases

-----------------------------------------------------------------------------
\* The cross edges on their way.

\* Before the routing there is nothing to keep.
LEMMA RouteIdle ==
  ASSUME RouteInv, UNCHANGED <<step, batches, toRoot>>,
         step \in {"walk", "stage", "contract"}
  PROVE  RouteInv'
<1>1. /\ batches' = {} /\ toRoot' = [p \in Procs |-> toRoot'[p]]
      /\ \A p \in Procs : toRoot'[p] = {}
  BY DEF RouteInv
<1>2. \A p \in Procs : ~HasRouted(p)'
  BY DEF HasRouted
<1>3. QED
  BY <1>1, <1>2 DEF RouteInv

LEMMA PlacesKept ==
  ASSUME UNCHANGED <<edges, stageCross, forest>>
  PROVE  /\ \A p, e : AtRoots(p, e)' = AtRoots(p, e)
         /\ \A e : Contract(e)' = Contract(e)
         /\ ContractedEdges' = ContractedEdges
         /\ \A p, d, x : Routable(p, d, x)' <=> Routable(p, d, x)
<1>1. \A p, e : AtRoots(p, e)' = AtRoots(p, e)
  BY DEF AtRoots
<1>2. \A e : Contract(e)' = Contract(e)
  BY DEF Contract, LocalRoot
<1>3. CrossEdges' = CrossEdges
  BY DEF CrossEdges
<1>4. ContractedEdges' = ContractedEdges
  BY <1>2, <1>3 DEF ContractedEdges
<1>5. \A p, d, x : Routable(p, d, x)' <=> Routable(p, d, x)
  BY <1>1 DEF Routable, OwnedEnds
<1>6. QED
  BY <1>1, <1>2, <1>4, <1>5

LEMMA RouteKept ==
  ASSUME RouteInv, UNCHANGED <<mode, edges, stageCross, forest, stageTips, batches, toRoot>>,
         \A p \in Procs : HasRouted(p)' => HasRouted(p),
         batches # {} => step' = "route",
         mode.kind = "staged" /\ step \in {"route", "forward", "finish", "apply", "done"}
           => step' \in {"route", "forward", "finish", "apply", "done"}
  PROVE  RouteInv'
<1>1. /\ \A p, e : AtRoots(p, e)' = AtRoots(p, e)
      /\ \A e : Contract(e)' = Contract(e)
      /\ ContractedEdges' = ContractedEdges
      /\ \A p, d, x : Routable(p, d, x)' <=> Routable(p, d, x)
  BY PlacesKept
<1>2. \A p, d, e : Arrived(p, d, e)' <=> Arrived(p, d, e)
  BY <1>1 DEF Arrived, OwnedEnds
<1>3. \A d, e : OwnedEnds(d, e)' = OwnedEnds(d, e)
  BY DEF OwnedEnds
<1>4. QED
  BY <1>1, <1>2, <1>3 DEF RouteInv

LEMMA RouteCrossKeeps ==
  ASSUME MergeInv, NEW p \in Procs, RouteCrossEdges(p)
  PROVE  RouteInv'
<1> DEFINE far == {d \in Procs \ {p} : Routed(p, d) # {}}
           New(d) == [to |-> d, edges |-> Routed(p, d)]
<1>1. RouteInv /\ step = "route" /\ p \in waiting /\ waiting' = waiting \ {p}
  BY DEF MergeInv, RouteCrossEdges, Contributes
<1>2. /\ batches' = batches \cup {New(d) : d \in far}
      /\ UNCHANGED <<mode, edges, step, stageLocal, stageCross, forest, stageTips, toRoot, gathered>>
  BY DEF RouteCrossEdges
<1>3. /\ \A d, e : AtRoots(d, e)' = AtRoots(d, e)
      /\ \A e : Contract(e)' = Contract(e)
      /\ ContractedEdges' = ContractedEdges
      /\ \A c, d, x : Routable(c, d, x)' <=> Routable(c, d, x)
  BY <1>2, PlacesKept
<1>4. \A d : New(d).to = d /\ New(d).edges = Routed(p, d)
  OBVIOUS
<1>5. \A c, d, e : Arrived(c, d, e) => Arrived(c, d, e)'
  BY <1>2, <1>3 DEF Arrived, OwnedEnds
<1>6. ASSUME NEW m \in batches', NEW x \in m.edges
      PROVE  \E c \in Procs \ {m.to} : Routable(c, m.to, x)'
  <2>1. CASE m \in batches
    BY <1>1, <1>3, <1>6, <2>1 DEF RouteInv
  <2>2. CASE m \notin batches
    <3>1. PICK d \in far : m = New(d)
      BY <1>2, <2>2
    <3>2. Routable(p, d, x) /\ p \in Procs \ {d} /\ m.to = d
      BY <1>4, <1>6, <3>1 DEF Routed, Routable
    <3>3. QED
      BY <1>3, <3>2
  <2>3. QED
    BY <2>1, <2>2
<1>7. ASSUME NEW c \in Procs, HasRouted(c)', NEW d \in Procs \ {c}, NEW e \in stageCross'[c],
             OwnedEnds(d, e)' # {}
      PROVE  Arrived(c, d, e)'
  <2>1. OwnedEnds(d, e) # {} /\ e \in stageCross[c]
    BY <1>2, <1>7 DEF OwnedEnds
  <2>2. CASE c = p
    <3>1. AtRoots(p, e) \in Routed(p, d)
      BY <2>1, <2>2 DEF Routed
    <3>2. New(d) \in batches'
      BY <1>2, <2>2, <3>1
    <3>3. New(d).to = d /\ AtRoots(p, e)' \in New(d).edges
      BY <1>3, <1>4, <3>1
    <3> HIDE DEF New
    <3>4. QED
      BY <2>2, <3>2, <3>3 DEF Arrived
  <2>3. CASE c # p
    <3>1. HasRouted(c)
      BY <1>1, <1>2, <1>7, <2>3 DEF HasRouted
    <3>2. QED
      BY <1>1, <1>5, <2>1, <3>1 DEF RouteInv
  <2>4. QED
    BY <2>2, <2>3
<1> HIDE DEF far, New
<1>8. mode.kind = "staged"
  BY <1>1 DEF MergeInv, StepInv
<1>9. QED
  BY <1>1, <1>2, <1>3, <1>6, <1>7, <1>8 DEF RouteInv

LEMMA ContractRemoteKeeps ==
  ASSUME MergeInv, NEW p \in Procs, ContractRemote(p)
  PROVE  RouteInv'
<1>1. WalkInv /\ StepInv /\ StagedInv /\ ForestInv /\ RouteInv
  BY DEF MergeInv
<1>2. PICK m \in batches :
        /\ m.to = p
        /\ batches' = batches \ {m}
        /\ stageTips' = [stageTips EXCEPT ![p] = @ \cup OwnedTips(p, m.edges)]
        /\ toRoot' = [toRoot EXCEPT ![p] = @ \cup {AtRoots(p, e) : e \in m.edges}]
  BY DEF ContractRemote
<1>3. UNCHANGED <<mode, edges, step, waiting, stageLocal, stageCross, forest>>
  BY DEF ContractRemote
<1>4. step = "route" /\ mode.kind = "staged" /\ edges \in Graphs
  BY <1>1, <1>2 DEF RouteInv, StepInv, WalkInv
<1>5. ForestsJoin
  BY <1>1, <1>4, AllContracted
<1>6. /\ \A d, e : AtRoots(d, e)' = AtRoots(d, e)
      /\ \A e : Contract(e)' = Contract(e)
      /\ ContractedEdges' = ContractedEdges
      /\ \A c, d, x : Routable(c, d, x)' <=> Routable(c, d, x)
  BY <1>3, PlacesKept
<1>7. /\ stageTips \in [Procs -> SUBSET Touched]
      /\ toRoot = [d \in Procs |-> toRoot[d]]
      /\ \A d \in Procs : stageCross[d] \subseteq CrossAt(d)
  BY <1>1 DEF ForestInv, RouteInv, StagedInv
<1>8. /\ stageTips'[p] = stageTips[p] \cup OwnedTips(p, m.edges)
      /\ \A d \in Procs : stageTips[d] \subseteq stageTips'[d]
  BY <1>2, <1>7
<1>9. /\ toRoot' = [d \in Procs |-> toRoot'[d]]
      /\ toRoot'[p] = toRoot[p] \cup {AtRoots(p, e) : e \in m.edges}
      /\ \A d \in Procs \ {p} : toRoot'[d] = toRoot[d]
  BY <1>2, <1>7
<1>10. ASSUME NEW x \in {AtRoots(p, e) : e \in m.edges}
       PROVE  x \in ContractedEdges
  <2>1. PICK y \in m.edges : x = AtRoots(p, y)
    BY <1>10
  <2>2. PICK c \in Procs \ {p} : Routable(c, p, y)
    BY <1>1, <1>2, <2>1 DEF RouteInv
  <2>3. PICK e \in stageCross[c] : OwnedEnds(p, e) # {} /\ y = AtRoots(c, e)
    BY <2>2 DEF Routable
  <2>4. x = Contract(e) /\ e \in CrossEdges
    BY <1>4, <1>5, <1>7, <2>1, <2>2, <2>3, AtRootsFar
  <2>5. QED
    BY <2>4 DEF ContractedEdges
<1>11. ASSUME NEW c \in Procs, NEW d \in Procs \ {c}, NEW e \in stageCross[c],
              OwnedEnds(d, e) # {}, Arrived(c, d, e)
       PROVE  Arrived(c, d, e)'
  <2>1. CASE Contract(e) \in toRoot[d] /\ OwnedEnds(d, e) \subseteq stageTips[d]
    <3>1. Contract(e)' \in toRoot'[d] /\ OwnedEnds(d, e)' \subseteq stageTips'[d]
      BY <1>6, <1>8, <1>9, <2>1 DEF OwnedEnds
    <3>2. QED
      BY <3>1 DEF Arrived
  <2>2. CASE \E n \in batches : n.to = d /\ AtRoots(c, e) \in n.edges
    <3>1. PICK n \in batches : n.to = d /\ AtRoots(c, e) \in n.edges
      BY <2>2
    <3>2. CASE n # m
      BY <1>2, <1>6, <3>1, <3>2 DEF Arrived
    <3>3. CASE n = m
      <4>1. d = p /\ AtRoots(c, e) \in m.edges
        BY <1>2, <3>1, <3>3
      <4>2. /\ OwnedEnds(p, AtRoots(c, e)) = OwnedEnds(p, e)
            /\ AtRoots(p, AtRoots(c, e)) = Contract(e)
        BY <1>4, <1>5, <1>7, <1>11, <4>1, AtRootsFar
      <4>3. Contract(e) \in toRoot'[p]
        BY <1>9, <4>1, <4>2
      <4>4. OwnedEnds(p, e) \subseteq stageTips'[p]
        BY <1>8, <4>1, <4>2 DEF OwnedTips
      <4>5. QED
        BY <1>6, <4>1, <4>3, <4>4 DEF Arrived, OwnedEnds
    <3>4. QED
      BY <3>2, <3>3
  <2>3. QED
    BY <1>11, <2>1, <2>2 DEF Arrived
<1>12. ASSUME NEW c \in Procs, HasRouted(c)', NEW d \in Procs \ {c}, NEW e \in stageCross'[c],
              OwnedEnds(d, e)' # {}
       PROVE  Arrived(c, d, e)'
  <2>1. HasRouted(c) /\ OwnedEnds(d, e) # {} /\ e \in stageCross[c]
    BY <1>3, <1>12 DEF HasRouted, OwnedEnds
  <2>2. Arrived(c, d, e)
    BY <1>1, <2>1 DEF RouteInv
  <2>3. QED
    BY <1>11, <2>1, <2>2
<1>13. \A n \in batches' : \A x \in n.edges : \E c \in Procs \ {n.to} : Routable(c, n.to, x)'
  BY <1>1, <1>2, <1>6 DEF RouteInv
<1>14. \A d \in Procs : toRoot'[d] \subseteq ContractedEdges'
  BY <1>1, <1>6, <1>9, <1>10 DEF RouteInv
<1>15. QED
  BY <1>3, <1>4, <1>9, <1>12, <1>13, <1>14 DEF RouteInv

LEMMA RouteNext ==
  ASSUME MergeInv, Next
  PROVE  RouteInv'
<1>1. WalkInv /\ StepInv /\ RouteInv
  BY DEF MergeInv
<1>2. ASSUME NEW q \in PEs, Stage(q)
      PROVE  RouteInv'
  BY <1>1, <1>2, RouteIdle DEF Stage
<1>3. ASSUME NEW p \in Procs, ContractLocalEdges(p)
      PROVE  RouteInv'
  BY <1>1, <1>3, RouteIdle DEF ContractLocalEdges
<1>4. ASSUME UNCHANGED <<mode, edges, stageVars>>,
             \/ step' = step /\ (step = "route" => waiting' = waiting)
             \/ step = "finish" /\ step' \in {"apply", "applyAll"} /\ (mode.kind = "staged" => step' = "apply")
      PROVE  RouteInv'
  <2>1. \A p \in Procs : HasRouted(p)' => HasRouted(p)
    BY <1>4 DEF HasRouted
  <2>2. batches # {} => step' = "route"
    BY <1>1, <1>4 DEF RouteInv
  <2>3. UNCHANGED <<mode, edges, stageCross, forest, stageTips, batches, toRoot>>
    BY <1>4 DEF stageVars
  <2>4. QED
    BY <1>1, <1>4, <2>1, <2>2, <2>3, RouteKept
<1>5. CASE GoOn
  <2>1. /\ UNCHANGED <<mode, edges, stageCross, forest, stageTips, batches, toRoot>>
        /\ waiting = {} /\ (step = "route" => batches = {})
    BY <1>5 DEF GoOn, StepOver, Quiet, stageVars
  <2>2. batches = {}
    BY <1>1, <2>1 DEF RouteInv
  <2>3. \A p \in Procs : HasRouted(p)' => HasRouted(p)
    BY <1>1, <1>5, <2>1, GoOnCases DEF HasRouted, WalkInv, StepInv, Passes, Staged, Rawly, Distributed
  <2>4. mode.kind = "staged" /\ step \in {"route", "forward", "finish", "apply", "done"}
           => step' \in {"route", "forward", "finish", "apply", "done"}
    BY <1>1, <1>5, <2>1, GoOnCases DEF WalkInv, StepInv, Passes, Staged, Rawly, Distributed
  <2>5. QED
    BY <1>1, <2>1, <2>2, <2>3, <2>4, RouteKept
<1>6. CASE Finish \/ Broadcast
  <2>1. Broadcast => mode.kind # "staged"
    BY DEF Broadcast
  <2>2. QED
    BY <1>4, <1>6, <2>1 DEF Finish, Broadcast
<1>7. CASE Absorb
  BY <1>4, <1>7 DEF Absorb
<1>8. ASSUME NEW p \in Procs, ForwardContracted(p) \/ CollectUF2Labels(p) \/ StoreSlice(p)
      PROVE  RouteInv'
  BY <1>4, <1>8 DEF ForwardContracted, CollectUF2Labels, StoreSlice
<1>9. ASSUME NEW q \in PEs,
              \/ Discover(q) \/ FlushPhase3Edges(q) \/ ApplySliceOnPE(q) \/ FireUF2Edges(q)
              \/ ApplyUF2Labels(q) \/ ApplyGlobalMap(q)
      PROVE  RouteInv'
  <2>1. ApplySliceOnPE(q) => step = "apply"
    BY DEF ApplySliceOnPE, MergeInv, SliceInv
  <2>2. QED
    BY <1>4, <1>9, <2>1 DEF Discover, FlushPhase3Edges, ApplySliceOnPE, FireUF2Edges, ApplyUF2Labels,
       ApplyGlobalMap
<1>10. QED
  BY <1>2, <1>3, <1>5, <1>6, <1>7, <1>8, <1>9, RouteCrossKeeps, ContractRemoteKeeps, NextCases

-----------------------------------------------------------------------------
\* What the driver has.

\* When everything has been forwarded, every cross edge has, and every touched tip
\* is known to its process.
LEMMA AllForwarded ==
  ASSUME WalkInv, StagedInv, ForestInv, RouteInv, ForwardInv,
         mode.kind = "staged", step = "forward", waiting = {}
  PROVE  /\ gathered = ContractedEdges
         /\ \A p \in Procs : stageTips[p] = TouchedOf(p)
<1>1. edges \in Graphs /\ edges \subseteq UNION {stageLocal[p] \cup stageCross[p] : p \in Procs}
  BY DEF WalkInv, StagedInv
<1>2. batches = {}
  BY DEF RouteInv
<1>3. \A p \in Procs : toRoot[p] \subseteq gathered
  BY DEF ForwardInv
<1>4. ASSUME NEW p \in Procs, NEW d \in Procs \ {p}, NEW e \in stageCross[p], OwnedEnds(d, e) # {}
      PROVE  Contract(e) \in toRoot[d] /\ OwnedEnds(d, e) \subseteq stageTips[d]
  <2>1. HasRouted(p)
    BY DEF HasRouted
  <2>2. Arrived(p, d, e)
    BY <1>4, <2>1 DEF RouteInv
  <2>3. QED
    BY <1>2, <2>2 DEF Arrived
<1>5. ASSUME NEW e \in CrossEdges
      PROVE  Contract(e) \in gathered
  <2>1. e \in edges /\ Owner[e[1]] # Owner[e[2]] /\ Owner[e[1]] \in Procs /\ Owner[e[2]] \in Procs
    BY <1>1, EdgeFacts DEF CrossEdges
  <2>2. PICK p \in Procs : e \in stageLocal[p] \cup stageCross[p]
    BY <1>1, <2>1
  <2>3. e \in stageCross[p]
    BY <2>1, <2>2 DEF StagedInv, LocalEdges
  <2>4. PICK d \in Procs \ {p} : Owner[e[1]] = d \/ Owner[e[2]] = d
    BY <2>1
  <2>5. OwnedEnds(d, e) # {}
    BY <2>4, OwnedEndsFacts
  <2>6. QED
    BY <1>3, <1>4, <2>3, <2>4, <2>5
<1>6. ASSUME NEW p \in Procs, NEW t \in TouchedOf(p)
      PROVE  t \in stageTips[p]
  <2>1. PICK e \in edges : t \in {e[1], e[2]}
    BY DEF TouchedOf, Touched
  <2>2. t \in OwnedEnds(p, e)
    BY <2>1 DEF OwnedEnds, TouchedOf
  <2>3. PICK d \in Procs : e \in stageLocal[d] \cup stageCross[d]
    BY <1>1, <2>1
  <2>4. CASE d = p
    <3>1. OwnedTips(p, stageLocal[p] \cup stageCross[p]) \subseteq stageTips[p]
      BY DEF ForestInv, HasContracted
    <3>2. QED
      BY <2>2, <2>3, <2>4, <3>1 DEF OwnedTips
  <2>5. CASE d # p
    <3>1. e \in stageCross[d]
      BY <2>1, <2>2, <2>3, <2>5 DEF StagedInv, LocalEdges, OwnedEnds
    <3>2. QED
      BY <1>4, <2>2, <2>5, <3>1
  <2>6. QED
    BY <2>4, <2>5
<1>7. \A p \in Procs : stageTips[p] \subseteq TouchedOf(p)
  BY DEF ForestInv, TouchedOf
<1>8. gathered \subseteq ContractedEdges
  BY DEF ForwardInv
<1>9. QED
  BY <1>5, <1>6, <1>7, <1>8 DEF ContractedEdges

LEMMA ForwardKept ==
  ASSUME ForwardInv, UNCHANGED <<mode, edges, stageCross, forest, stageTips, toRoot, gathered>>,
         mode.kind = "staged" =>
           \/ step' = step /\ (step = "forward" => waiting' = waiting)
           \/ step' \notin {"forward", "finish", "apply", "done"} /\ gathered = {}
           \/ step' = "forward" /\ waiting' = Procs
           \/ step \in {"finish", "apply", "done"} /\ step' \in {"finish", "apply", "done"}
  PROVE  ForwardInv'
<1>1. ContractedEdges' = ContractedEdges
  BY PlacesKept
<1>2. Touched' = Touched
  BY DEF Touched
<1>3. QED
  BY <1>1, <1>2 DEF ForwardInv

\* A step of the staged mode before anything is gathered.
LEMMA ForwardIdle ==
  ASSUME ForwardInv, UNCHANGED <<mode, step, gathered>>,
         step \notin {"forward", "finish", "apply", "done"}
  PROVE  ForwardInv'
BY DEF ForwardInv

LEMMA ForwardNext ==
  ASSUME MergeInv, Next
  PROVE  ForwardInv'
<1>1. WalkInv /\ StepInv /\ StagedInv /\ ForestInv /\ RouteInv /\ ForwardInv
  BY DEF MergeInv
<1>2. ASSUME NEW p \in Procs, ForwardContracted(p)
      PROVE  ForwardInv'
  <2>1. /\ step = "forward" /\ waiting' = waiting \ {p} /\ gathered' = gathered \cup toRoot[p]
        /\ UNCHANGED <<mode, edges, step, stageCross, forest, stageTips, toRoot>>
    BY <1>2 DEF ForwardContracted, Contributes, stageVars
  <2>2. ContractedEdges' = ContractedEdges
    BY <2>1, PlacesKept
  <2>3. toRoot[p] \subseteq ContractedEdges
    BY <1>1 DEF RouteInv
  <2>4. QED
    BY <1>1, <2>1, <2>2, <2>3 DEF ForwardInv
<1>3. ASSUME NEW p \in Procs, ContractLocalEdges(p) \/ RouteCrossEdges(p)
      PROVE  ForwardInv'
  BY <1>1, <1>3, ForwardIdle DEF ContractLocalEdges, RouteCrossEdges
<1>4. ASSUME NEW p \in Procs, ContractRemote(p)
      PROVE  ForwardInv'
  <2>1. step = "route"
    BY <1>1, <1>4 DEF ContractRemote, RouteInv
  <2>2. QED
    BY <1>1, <1>4, <2>1, ForwardIdle DEF ContractRemote
<1>5. ASSUME NEW q \in PEs, Stage(q) \/ Discover(q)
      PROVE  ForwardInv'
  BY <1>1, <1>5, ForwardIdle DEF Stage, Discover
<1>6. ASSUME NEW q \in PEs, FlushPhase3Edges(q)
      PROVE  ForwardInv'
  <2>1. mode.kind # "staged" /\ mode' = mode
    BY <1>1, <1>6 DEF FlushPhase3Edges, StepInv
  <2>2. QED
    BY <2>1 DEF ForwardInv
<1>7. CASE Absorb
  <2>1. mode.kind # "staged" /\ mode' = mode
    BY <1>1, <1>7 DEF Absorb, StepInv
  <2>2. QED
    BY <2>1 DEF ForwardInv
<1>8. CASE GoOn
  <2>1. /\ UNCHANGED <<mode, edges, stageCross, forest, stageTips, toRoot, gathered>>
        /\ waiting = {}
    BY <1>8 DEF GoOn, StepOver, stageVars
  <2>2. CASE mode.kind # "staged"
    BY <2>1, <2>2 DEF ForwardInv
  <2>3. CASE mode.kind = "staged"
    <3>1. \/ Passes("walk", "stage", PEs) \/ Passes("stage", "contract", Procs)
          \/ Passes("contract", "route", Procs) \/ Passes("route", "forward", Procs)
          \/ Passes("forward", "finish", {})
          \/ step = "apply" /\ step' = "done" /\ waiting' = {}
      BY <1>1, <1>8, <2>3, GoOnCases DEF WalkInv, StepInv, Staged, Rawly, Distributed
    <3>2. CASE Passes("forward", "finish", {})
      <4>1. gathered = ContractedEdges /\ \A p \in Procs : stageTips[p] = TouchedOf(p)
        BY <1>1, <2>1, <2>3, <3>2, AllForwarded DEF Passes
      <4>2. ContractedEdges' = ContractedEdges
        BY <2>1, PlacesKept
      <4>3. Touched' = Touched
        BY <2>1 DEF Touched
      <4>4. QED
        BY <2>1, <3>2, <4>1, <4>2, <4>3 DEF ForwardInv, TouchedOf, Passes
    <3>3. CASE ~Passes("forward", "finish", {})
      <4>1. step \notin {"forward", "finish", "apply", "done"} => gathered = {}
        BY <1>1, <2>3 DEF ForwardInv
      <4>2. \/ step' \notin {"forward", "finish", "apply", "done"} /\ gathered = {}
            \/ step' = "forward" /\ waiting' = Procs
            \/ step \in {"finish", "apply", "done"} /\ step' \in {"finish", "apply", "done"}
        BY <3>1, <3>3, <4>1 DEF Passes
      <4>3. QED
        BY <1>1, <2>1, <4>2, ForwardKept
    <3>4. QED
      BY <3>2, <3>3
  <2>4. QED
    BY <2>2, <2>3
<1>9. CASE Finish \/ Broadcast
  <2>1. Broadcast => mode.kind # "staged"
    BY DEF Broadcast
  <2>2. QED
    BY <1>1, <1>9, <2>1, ForwardKept DEF Finish, Broadcast, stageVars
<1>10. ASSUME NEW p \in Procs, CollectUF2Labels(p) \/ StoreSlice(p)
       PROVE  ForwardInv'
  <2>1. CollectUF2Labels(p) => step # "forward"
    BY DEF CollectUF2Labels
  <2>2. QED
    BY <1>1, <1>10, <2>1, ForwardKept DEF CollectUF2Labels, StoreSlice, stageVars
<1>11. ASSUME NEW q \in PEs,
              ApplySliceOnPE(q) \/ FireUF2Edges(q) \/ ApplyUF2Labels(q) \/ ApplyGlobalMap(q)
       PROVE  ForwardInv'
  <2>1. ApplySliceOnPE(q) => step = "apply"
    BY DEF ApplySliceOnPE, MergeInv, SliceInv
  <2>2. QED
    BY <1>1, <1>11, <2>1, ForwardKept DEF ApplySliceOnPE, FireUF2Edges, ApplyUF2Labels,
       ApplyGlobalMap, stageVars
<1>12. QED
  BY <1>2, <1>3, <1>4, <1>5, <1>6, <1>7, <1>8, <1>9, <1>10, <1>11, NextCases

-----------------------------------------------------------------------------
\* The slices.

LEMMA PromiseKept ==
  ASSUME UNCHANGED edges
  PROVE  /\ \A t : FinalLabel(t)' = FinalLabel(t)
         /\ \A q : FinalLabels(q)' = FinalLabels(q)
         /\ \A p : TouchedOf(p)' = TouchedOf(p)
         /\ \A p, map : IsFinalMap(p, map)' <=> IsFinalMap(p, map)
<1>1. Touched' = Touched
  BY DEF Touched
<1>2. \A t : FinalLabel(t)' = FinalLabel(t)
  BY <1>1 DEF FinalLabel
<1>3. \A q : FinalLabels(q)' = FinalLabels(q)
  BY <1>2 DEF FinalLabels
<1>4. \A p : TouchedOf(p)' = TouchedOf(p)
  BY <1>1 DEF TouchedOf
<1>5. \A p, map : IsFinalMap(p, map)' <=> IsFinalMap(p, map)
  BY <1>2, <1>4 DEF IsFinalMap
<1>6. QED
  BY <1>2, <1>3, <1>4, <1>5

\* Once everything is gathered, a stored slice tells a process the final labels of its
\* tips, whether it was expanded or not.
LEMMA StoredIsFinal ==
  ASSUME WalkInv, StepInv, RawInv, StagedInv, ForestInv, ForwardInv, step = "apply", NEW p \in Procs
  PROVE  IsFinalMap(p, IF mode.kind = "staged" THEN Expanded(p, SliceOf(p)) ELSE SliceOf(p))
<1>1. edges \in Graphs
  BY DEF WalkInv
<1>2. CASE mode.kind = "staged"
  <2>1. ForestsJoin
    BY <1>2, AllContracted
  <2>2. gathered = ContractedEdges /\ stageTips[p] = TouchedOf(p)
    BY <1>2 DEF ForwardInv, TouchedOf
  <2>3. /\ edges \subseteq UNION {stageLocal[d] \cup stageCross[d] : d \in Procs}
        /\ \A d \in Procs : stageCross[d] \subseteq CrossAt(d)
    BY <1>2 DEF StagedInv
  <2>4. QED
    BY <1>1, <1>2, <2>1, <2>2, <2>3, StagedMap
<1>3. CASE mode.kind # "staged"
  <2>1. gathered = edges
    BY <1>3 DEF RawInv
  <2>2. Remapped = Touched
    BY <1>1, <2>1, TouchedFacts
  <2>3. TouchedOf(p) \in SUBSET Touched
    BY DEF TouchedOf
  <2>4. LabelMap(TouchedOf(p)) = [t \in TouchedOf(p) |-> FinalLabel(t)]
    BY <1>1, <2>1, <2>3, RawMap
  <2>5. SliceOf(p) = LabelMap(TouchedOf(p))
    BY <2>2 DEF SliceOf, TouchedOf
  <2>6. QED
    BY <1>3, <2>4, <2>5 DEF IsFinalMap
<1>4. QED
  BY <1>2, <1>3

LEMMA SliceKept ==
  ASSUME SliceInv, UNCHANGED <<edges, globalSlice, told, mapSlices>>,
         step = "apply" => \/ step' = "apply" /\ waiting' = waiting /\ gathered' = gathered
                           \/ waiting = {},
         step' = "applyUF2" => step = "applyUF2" \/ (step = "collect" /\ waiting = {}),
         step' = "collect" => (step = "collect" /\ waiting' = waiting) \/ waiting' = Procs
  PROVE  SliceInv'
<1>1. /\ \A p : TouchedOf(p)' = TouchedOf(p)
      /\ \A p, map : IsFinalMap(p, map)' <=> IsFinalMap(p, map)
  BY PromiseKept
<1>2. gathered' = gathered => \A p : SliceOf(p)' = SliceOf(p)
  BY DEF SliceOf, LabelMap, Remapped
<1>3. \A q \in told : step' = "apply" /\ waiting' = waiting /\ gathered' = gathered
  BY DEF SliceInv
<1>4. \A q \in PEs : ProcOf[q] \in DOMAIN mapSlices =>
        step' = "apply" /\ waiting' = waiting /\ gathered' = gathered
  BY DEF SliceInv
<1>5. \A q \in PEs : ProcOf[q] \in Procs
  BY PEsAssumption
<1>6. globalSlice' = [p \in Procs |-> globalSlice'[p]]
  BY DEF SliceInv
<1>7. \A q \in told' :
       /\ q \in PEs /\ step' = "apply" /\ q \in waiting'
       /\ ProcOf[q] \notin DOMAIN mapSlices'
       /\ IsFinalMap(ProcOf[q], globalSlice[ProcOf[q]])'
  <2>1. SUFFICES ASSUME NEW q \in told
                 PROVE  /\ q \in PEs /\ step' = "apply" /\ q \in waiting'
                        /\ ProcOf[q] \notin DOMAIN mapSlices'
                        /\ IsFinalMap(ProcOf[q], globalSlice[ProcOf[q]])'
    OBVIOUS
  <2>2. /\ q \in PEs /\ q \in waiting /\ ProcOf[q] \notin DOMAIN mapSlices
        /\ IsFinalMap(ProcOf[q], globalSlice[ProcOf[q]])
    BY DEF SliceInv
  <2>3. IsFinalMap(ProcOf[q], globalSlice[ProcOf[q]])'
    BY <1>1, <2>2 DEF IsFinalMap
  <2>4. QED
    BY <1>3, <2>2, <2>3
<1>8. \A q \in PEs : ProcOf[q] \in DOMAIN mapSlices' =>
       /\ step' = "apply" /\ q \in waiting'
       /\ mapSlices'[ProcOf[q]] = SliceOf(ProcOf[q])'
  BY <1>2, <1>4 DEF SliceInv
<1>9. \A q \in PEs : step' = "applyUF2" \/ (step' = "collect" /\ ProcOf[q] \notin waiting') =>
       globalSlice'[ProcOf[q]] = [t \in TouchedOf(ProcOf[q])' |-> LeastOf[edges'][t]]
  BY <1>1, <1>5 DEF SliceInv
<1>10. QED
  BY <1>6, <1>7, <1>8, <1>9 DEF SliceInv

LEMMA StoreSliceKeeps ==
  ASSUME MergeInv, NEW p \in Procs, StoreSlice(p)
  PROVE  SliceInv'
<1>1. WalkInv /\ StepInv /\ RawInv /\ StagedInv /\ ForestInv /\ ForwardInv /\ SliceInv
  BY DEF MergeInv
<1> DEFINE S == IF mode.kind = "staged" THEN Expanded(p, mapSlices[p]) ELSE mapSlices[p]
<1>2. /\ p \in DOMAIN mapSlices
      /\ globalSlice' = [globalSlice EXCEPT ![p] = S]
      /\ mapSlices' = [d \in DOMAIN mapSlices \ {p} |-> mapSlices[d]]
      /\ told' = told \cup {q \in PEs : ProcOf[q] = p}
      /\ UNCHANGED <<mode, edges, step, waiting, gathered>>
  BY DEF StoreSlice
<1>3. /\ \A d : TouchedOf(d)' = TouchedOf(d)
      /\ \A d, map : IsFinalMap(d, map)' <=> IsFinalMap(d, map)
  BY <1>2, PromiseKept
<1>4. \A d : SliceOf(d)' = SliceOf(d)
  BY <1>2 DEF SliceOf, LabelMap, Remapped
<1>5. ASSUME NEW q \in PEs, ProcOf[q] = p
      PROVE  step = "apply" /\ q \in waiting /\ IsFinalMap(p, S)
  <2>1. step = "apply" /\ q \in waiting /\ mapSlices[p] = SliceOf(p)
    BY <1>1, <1>2, <1>5 DEF SliceInv
  <2>2. IsFinalMap(p, IF mode.kind = "staged" THEN Expanded(p, SliceOf(p)) ELSE SliceOf(p))
    BY <1>1, <2>1, StoredIsFinal
  <2>3. QED
    BY <2>1, <2>2
<1> HIDE DEF S
<1>6. /\ globalSlice' = [d \in Procs |-> globalSlice'[d]]
      /\ globalSlice'[p] = S
      /\ \A d \in Procs \ {p} : globalSlice'[d] = globalSlice[d]
  BY <1>1, <1>2 DEF SliceInv
<1>7. DOMAIN mapSlices' = DOMAIN mapSlices \ {p}
  BY <1>2
<1>8. ASSUME NEW q \in told'
      PROVE  /\ q \in PEs /\ step' = "apply" /\ q \in waiting'
             /\ ProcOf[q] \notin DOMAIN mapSlices'
             /\ IsFinalMap(ProcOf[q], globalSlice[ProcOf[q]])'
  <2>1. CASE q \in PEs /\ ProcOf[q] = p
    <3>1. IsFinalMap(p, globalSlice'[p])
      BY <1>5, <1>6, <2>1
    <3>2. IsFinalMap(ProcOf[q], globalSlice[ProcOf[q]])'
      BY <1>3, <2>1, <3>1 DEF IsFinalMap
    <3>3. QED
      BY <1>2, <1>5, <1>7, <2>1, <3>2
  <2>2. CASE ~(q \in PEs /\ ProcOf[q] = p)
    <3>1. q \in told
      BY <1>2, <2>2
    <3>2. /\ q \in PEs /\ step = "apply" /\ q \in waiting
          /\ ProcOf[q] \notin DOMAIN mapSlices
          /\ IsFinalMap(ProcOf[q], globalSlice[ProcOf[q]])
      BY <1>1, <3>1 DEF SliceInv
    <3>3. globalSlice'[ProcOf[q]] = globalSlice[ProcOf[q]]
      BY <1>6, <2>2, <3>2, PEsAssumption
    <3>4. IsFinalMap(ProcOf[q], globalSlice[ProcOf[q]])'
      BY <1>3, <3>2, <3>3 DEF IsFinalMap
    <3>5. QED
      BY <1>2, <1>7, <3>2, <3>4
  <2>3. QED
    BY <2>1, <2>2
<1>9. ASSUME NEW q \in PEs, ProcOf[q] \in DOMAIN mapSlices'
      PROVE  /\ step' = "apply" /\ q \in waiting'
             /\ mapSlices'[ProcOf[q]] = SliceOf(ProcOf[q])'
  BY <1>1, <1>2, <1>4, <1>7, <1>9 DEF SliceInv
<1>10. ASSUME NEW q \in PEs, step' = "applyUF2" \/ (step' = "collect" /\ ProcOf[q] \notin waiting')
       PROVE  globalSlice'[ProcOf[q]] = [t \in TouchedOf(ProcOf[q])' |-> LeastOf[edges'][t]]
  <2>1. ProcOf[q] # p /\ ProcOf[q] \in Procs
    BY <1>2, <1>5, <1>10, PEsAssumption
  <2>2. globalSlice[ProcOf[q]] = [t \in TouchedOf(ProcOf[q]) |-> LeastOf[edges][t]]
    BY <1>1, <1>2, <1>10 DEF SliceInv
  <2>3. QED
    BY <1>2, <1>3, <1>6, <2>1, <2>2
<1>11. QED
  BY <1>6, <1>8, <1>9, <1>10 DEF SliceInv

LEMMA ApplySliceKeeps ==
  ASSUME MergeInv, NEW q \in PEs, ApplySliceOnPE(q)
  PROVE  SliceInv'
<1>1. SliceInv
  BY DEF MergeInv
<1>2. /\ q \in told /\ told' = told \ {q} /\ waiting' = waiting \ {q}
      /\ UNCHANGED <<edges, step, gathered, mapSlices, globalSlice>>
  BY DEF ApplySliceOnPE, Contributes
<1>3. /\ \A d : TouchedOf(d)' = TouchedOf(d)
      /\ \A d, map : IsFinalMap(d, map)' <=> IsFinalMap(d, map)
  BY <1>2, PromiseKept
<1>4. \A d : SliceOf(d)' = SliceOf(d)
  BY <1>2 DEF SliceOf, LabelMap, Remapped
<1>5. step = "apply" /\ ProcOf[q] \notin DOMAIN mapSlices
  BY <1>1, <1>2 DEF SliceInv
<1>6. ASSUME NEW r \in told'
      PROVE  /\ r \in PEs /\ step' = "apply" /\ r \in waiting'
             /\ ProcOf[r] \notin DOMAIN mapSlices'
             /\ IsFinalMap(ProcOf[r], globalSlice[ProcOf[r]])'
  <2>1. r \in told /\ r # q
    BY <1>2
  <2>2. /\ r \in PEs /\ r \in waiting /\ ProcOf[r] \notin DOMAIN mapSlices
        /\ IsFinalMap(ProcOf[r], globalSlice[ProcOf[r]])
    BY <1>1, <2>1 DEF SliceInv
  <2>3. IsFinalMap(ProcOf[r], globalSlice[ProcOf[r]])'
    BY <1>2, <1>3, <2>2 DEF IsFinalMap
  <2>4. QED
    BY <1>2, <1>5, <2>1, <2>2, <2>3
<1>7. ASSUME NEW r \in PEs, ProcOf[r] \in DOMAIN mapSlices'
      PROVE  /\ step' = "apply" /\ r \in waiting'
             /\ mapSlices'[ProcOf[r]] = SliceOf(ProcOf[r])'
  BY <1>1, <1>2, <1>4, <1>5, <1>7 DEF SliceInv
<1>8. globalSlice' = [p \in Procs |-> globalSlice'[p]] /\ step' = "apply"
  BY <1>1, <1>2, <1>5 DEF SliceInv
<1>9. QED
  BY <1>6, <1>7, <1>8 DEF SliceInv

\* At the home of a process the library's labels are those of all edges.
LEMMA CollectKeeps ==
  ASSUME MergeInv, NEW p \in Procs, CollectUF2Labels(p)
  PROVE  SliceInv'
<1>1. WalkInv /\ StepInv /\ RawInv /\ SliceInv
  BY DEF MergeInv
<1> DEFINE boss == UniteAll(Alone(Tips), gathered)
           S == [t \in {s \in Remapped : Owner[s] = p} |-> boss[t]]
<1>2. /\ step = "collect" /\ waiting' = waiting \ {p}
      /\ globalSlice' = [globalSlice EXCEPT ![p] = S]
      /\ UNCHANGED <<mode, edges, step, gathered, mapSlices, told>>
  BY DEF CollectUF2Labels, Contributes
<1>3. mode.kind = "dist" /\ gathered = edges /\ edges \in Graphs
  BY <1>1, <1>2 DEF StepInv, RawInv, WalkInv
<1>4. S = [t \in TouchedOf(p) |-> LeastOf[edges][t]]
  <2>1. Remapped = Touched /\ TouchedOf(p) \in SUBSET Touched
    BY <1>3, TouchedFacts DEF TouchedOf
  <2>2. \A t \in TouchedOf(p) : boss[t] = LeastOf[edges][t]
    BY <1>3, <2>1, RawMap
  <2>3. QED
    BY <2>1, <2>2 DEF TouchedOf
<1>5. \A d : TouchedOf(d)' = TouchedOf(d)
  BY <1>2, PromiseKept
<1> HIDE DEF S
<1>6. /\ globalSlice' = [d \in Procs |-> globalSlice'[d]]
      /\ globalSlice'[p] = S
      /\ \A d \in Procs \ {p} : globalSlice'[d] = globalSlice[d]
  BY <1>1, <1>2 DEF SliceInv
<1>7. told' = {} /\ \A q \in PEs : ProcOf[q] \notin DOMAIN mapSlices'
  BY <1>1, <1>2 DEF SliceInv
<1>8. ASSUME NEW q \in PEs, ProcOf[q] \notin waiting'
      PROVE  globalSlice'[ProcOf[q]] = [t \in TouchedOf(ProcOf[q])' |-> LeastOf[edges'][t]]
  <2>1. CASE ProcOf[q] = p
    BY <1>2, <1>4, <1>5, <1>6, <2>1
  <2>2. CASE ProcOf[q] # p
    <3>1. ProcOf[q] \in Procs \ {p} /\ ProcOf[q] \notin waiting
      BY <1>2, <1>8, <2>2, PEsAssumption
    <3>2. globalSlice[ProcOf[q]] = [t \in TouchedOf(ProcOf[q]) |-> LeastOf[edges][t]]
      BY <1>1, <1>2, <3>1 DEF SliceInv
    <3>3. QED
      BY <1>2, <1>5, <1>6, <3>1, <3>2
  <2>3. QED
    BY <2>1, <2>2
<1>9. QED
  BY <1>2, <1>6, <1>7, <1>8 DEF SliceInv

LEMMA FinishKeeps ==
  ASSUME MergeInv, Finish
  PROVE  SliceInv'
<1>1. SliceInv /\ step = "finish"
  BY DEF MergeInv, Finish
<1>2. /\ mapSlices' = [p \in Procs |-> SliceOf(p)]
      /\ step' = "apply" /\ waiting' = PEs
      /\ UNCHANGED <<edges, gathered, globalSlice, told>>
  BY DEF Finish, Recipients
<1>3. \A d : SliceOf(d)' = SliceOf(d)
  BY <1>2 DEF SliceOf, LabelMap, Remapped
<1>4. told' = {} /\ globalSlice' = [p \in Procs |-> globalSlice'[p]]
  BY <1>1, <1>2 DEF SliceInv
<1>5. \A q \in PEs : ProcOf[q] \in Procs
  BY PEsAssumption
<1>6. QED
  BY <1>2, <1>3, <1>4, <1>5 DEF SliceInv

LEMMA SliceNext ==
  ASSUME MergeInv, Next
  PROVE  SliceInv'
<1>1. WalkInv /\ StepInv /\ SliceInv
  BY DEF MergeInv
<1>2. CASE GoOn
  <2>1. UNCHANGED <<edges, globalSlice, told, mapSlices>> /\ waiting = {}
    BY <1>2 DEF GoOn, StepOver, applyVars
  <2>2. /\ step' = "applyUF2" => step = "collect"
        /\ step' = "collect" => waiting' = Procs
    BY <1>1, <1>2, GoOnCases DEF WalkInv, Passes
  <2>3. QED
    BY <1>1, <2>1, <2>2, SliceKept
<1>3. CASE Broadcast
  BY <1>1, <1>3, SliceKept DEF Broadcast, applyVars
<1>4. ASSUME UNCHANGED <<edges, globalSlice, told, mapSlices, step>>,
             step = "apply" => waiting' = waiting /\ gathered' = gathered,
             step = "collect" => waiting' = waiting
      PROVE  SliceInv'
  BY <1>1, <1>4, SliceKept
<1>5. CASE Absorb
  <2>1. step \in {"walk", "fire", "drain"}
    BY <1>1, <1>5 DEF Absorb, StepInv
  <2>2. QED
    BY <1>4, <1>5, <2>1 DEF Absorb, applyVars
<1>6. ASSUME NEW p \in Procs,
             \/ ContractLocalEdges(p) \/ RouteCrossEdges(p) \/ ContractRemote(p) \/ ForwardContracted(p)
      PROVE  SliceInv'
  BY <1>4, <1>6 DEF ContractLocalEdges, RouteCrossEdges, ContractRemote, ForwardContracted, applyVars
<1>7. ASSUME NEW q \in PEs,
             \/ Discover(q) \/ Stage(q) \/ FlushPhase3Edges(q) \/ FireUF2Edges(q)
             \/ ApplyUF2Labels(q) \/ ApplyGlobalMap(q)
      PROVE  SliceInv'
  BY <1>4, <1>7 DEF Discover, Stage, FlushPhase3Edges, FireUF2Edges, ApplyUF2Labels, ApplyGlobalMap,
     applyVars
<1>8. QED
  BY <1>2, <1>3, <1>5, <1>6, <1>7, StoreSliceKeeps, ApplySliceKeeps, CollectKeeps, FinishKeeps, NextCases

-----------------------------------------------------------------------------
\* The labels.

\* The PE goes from its first labels to its final ones.
Finalises(q) ==
  /\ step \in {"apply", "applyAll", "applyUF2"} /\ step' = step
  /\ q \in waiting /\ waiting' = waiting \ {q}
  /\ UNCHANGED edges
  /\ label' = [label EXCEPT ![q] = FinalLabels(q)]

LEMMA ApplyFinalises ==
  ASSUME MergeInv, NEW q \in PEs,
         ApplySliceOnPE(q) \/ ApplyUF2Labels(q) \/ ApplyGlobalMap(q)
  PROVE  Finalises(q)
<1>1. WalkInv /\ StepInv /\ RawInv /\ LabelInv /\ SliceInv /\ edges \in Graphs
  BY DEF MergeInv, WalkInv
<1>2. /\ q \in waiting /\ waiting' = waiting \ {q} /\ UNCHANGED <<edges, step>>
      /\ step \in {"apply", "applyAll", "applyUF2"}
  BY <1>1 DEF ApplySliceOnPE, ApplyUF2Labels, ApplyGlobalMap, Contributes, SliceInv
<1>3. label[q] = FirstLabels(q)
  BY <1>1, <1>2 DEF LabelInv, HasApplied
<1>4. ASSUME NEW t \in TipsOf[q]
      PROVE  t \in TouchedOf(ProcOf[q]) <=> t \in Touched
  BY PEsAssumption DEF TouchedOf
<1>5. CASE ApplySliceOnPE(q)
  <2> DEFINE map == globalSlice[ProcOf[q]]
  <2>1. map = [t \in TouchedOf(ProcOf[q]) |-> FinalLabel(t)]
    BY <1>1, <1>5 DEF ApplySliceOnPE, SliceInv, IsFinalMap
  <2>2. label' = [label EXCEPT ![q] = [t \in TipsOf[q] |-> IF @[t] \in DOMAIN map THEN map[@[t]] ELSE @[t]]]
    BY <1>5 DEF ApplySliceOnPE, Mapped
  <2> HIDE DEF map
  <2>3. label' = [label EXCEPT ![q] = [t \in TipsOf[q] |->
           IF FirstLabels(q)[t] \in DOMAIN map THEN map[FirstLabels(q)[t]] ELSE FirstLabels(q)[t]]]
    BY <1>3, <2>2
  <2>4. [t \in TipsOf[q] |->
           IF FirstLabels(q)[t] \in DOMAIN map THEN map[FirstLabels(q)[t]] ELSE FirstLabels(q)[t]]
          = FinalLabels(q)
    BY <1>4, <2>1, AppliedIsFinal
  <2>5. QED
    BY <1>2, <2>3, <2>4 DEF Finalises
<1>6. CASE ApplyGlobalMap(q)
  <2> DEFINE map == LabelMap(Remapped)
  <2>1. mode.kind = "broadcast" /\ step = "applyAll"
    BY <1>1, <1>6 DEF ApplyGlobalMap, StepInv
  <2>2. gathered = edges
    BY <1>1, <2>1 DEF RawInv
  <2>3. Remapped = Touched
    BY <1>1, <2>2, TouchedFacts
  <2>4. map = [t \in Touched |-> FinalLabel(t)]
    BY <1>1, <2>2, <2>3, RawMap
  <2>5. label' = [label EXCEPT ![q] = [t \in TipsOf[q] |-> IF @[t] \in DOMAIN map THEN map[@[t]] ELSE @[t]]]
    BY <1>6 DEF ApplyGlobalMap, Mapped
  <2> HIDE DEF map
  <2>6. label' = [label EXCEPT ![q] = [t \in TipsOf[q] |->
           IF FirstLabels(q)[t] \in DOMAIN map THEN map[FirstLabels(q)[t]] ELSE FirstLabels(q)[t]]]
    BY <1>3, <2>5
  <2>7. [t \in TipsOf[q] |->
           IF FirstLabels(q)[t] \in DOMAIN map THEN map[FirstLabels(q)[t]] ELSE FirstLabels(q)[t]]
          = FinalLabels(q)
    BY <2>4, AppliedIsFinal
  <2>8. QED
    BY <1>2, <2>6, <2>7 DEF Finalises
<1>7. CASE ApplyUF2Labels(q)
  <2> DEFINE known == globalSlice[ProcOf[q]]
             map == [t \in TouchedOf(ProcOf[q]) |-> FinalLabel(t)]
  <2>1. known = [t \in TouchedOf(ProcOf[q]) |-> LeastOf[edges][t]]
    BY <1>1, <1>7 DEF ApplyUF2Labels, SliceInv
  <2>2. label' = [label EXCEPT ![q] = [t \in TipsOf[q] |->
                    IF @[t] \in DOMAIN known THEN Negated(known[@[t]]) ELSE @[t]]]
    BY <1>7 DEF ApplyUF2Labels
  <2>3. DOMAIN known = DOMAIN map /\ \A t \in DOMAIN known : Negated(known[t]) = map[t]
    BY <2>1 DEF Negated, FinalLabel, TouchedOf
  <2> HIDE DEF known, map
  <2>4. label' = [label EXCEPT ![q] = [t \in TipsOf[q] |->
           IF FirstLabels(q)[t] \in DOMAIN map THEN map[FirstLabels(q)[t]] ELSE FirstLabels(q)[t]]]
    BY <1>3, <2>2, <2>3
  <2>5. map = [t \in TouchedOf(ProcOf[q]) |-> FinalLabel(t)]
    BY DEF map
  <2>6. [t \in TipsOf[q] |->
           IF FirstLabels(q)[t] \in DOMAIN map THEN map[FirstLabels(q)[t]] ELSE FirstLabels(q)[t]]
          = FinalLabels(q)
    BY <1>4, <2>5, AppliedIsFinal
  <2>7. QED
    BY <1>2, <2>4, <2>6 DEF Finalises
<1>8. QED
  BY <1>5, <1>6, <1>7

LEMMA LabelKept ==
  ASSUME LabelInv, UNCHANGED <<edges, label>>, \A q \in PEs : HasApplied(q)' <=> HasApplied(q)
  PROVE  LabelInv'
<1>1. \A q : FinalLabels(q)' = FinalLabels(q) /\ FirstLabels(q)' = FirstLabels(q)
  BY PromiseKept DEF FirstLabels
<1>2. QED
  BY <1>1 DEF LabelInv

LEMMA FinalisesKeeps ==
  ASSUME LabelInv, NEW q \in PEs, Finalises(q)
  PROVE  LabelInv'
<1>1. \A r : FinalLabels(r)' = FinalLabels(r) /\ FirstLabels(r)' = FirstLabels(r)
  BY PromiseKept DEF FirstLabels, Finalises
<1>2. HasApplied(q)' /\ \A r \in PEs \ {q} : HasApplied(r)' <=> HasApplied(r)
  BY DEF HasApplied, Finalises
<1>3. label = [r \in PEs |-> IF HasApplied(r) THEN FinalLabels(r) ELSE FirstLabels(r)]
  BY DEF LabelInv
<1>4. label' = [r \in PEs |-> IF r = q THEN FinalLabels(q) ELSE label[r]]
  BY <1>3 DEF Finalises
<1>5. ASSUME NEW r \in PEs
      PROVE  (IF r = q THEN FinalLabels(q) ELSE label[r])
               = (IF HasApplied(r)' THEN FinalLabels(r)' ELSE FirstLabels(r)')
  BY <1>1, <1>2, <1>3
<1>6. QED
  BY <1>4, <1>5 DEF LabelInv

\* A step of the merge leaves the labels alone or takes one PE to its final ones.
LEMMA MergeStep ==
  ASSUME MergeInv, Next
  PROVE  /\ LabelInv'
         /\ UNCHANGED flatVars \/ \E q \in PEs : Finalises(q)
<1>1. WalkInv /\ StepInv /\ LabelInv
  BY DEF MergeInv
<1>2. ASSUME NEW q \in PEs, ApplySliceOnPE(q) \/ ApplyUF2Labels(q) \/ ApplyGlobalMap(q)
      PROVE  LabelInv' /\ Finalises(q)
  BY <1>1, <1>2, ApplyFinalises, FinalisesKeeps
<1>3. CASE GoOn
  <2>1. UNCHANGED <<edges, label>> /\ waiting = {}
    BY <1>3 DEF GoOn, StepOver, applyVars
  <2>2. \A q \in PEs : HasApplied(q)' <=> HasApplied(q)
    BY <1>1, <1>3, <2>1, GoOnCases DEF HasApplied, WalkInv, Passes
  <2>3. QED
    BY <1>1, <2>1, <2>2, LabelKept DEF flatVars
<1>4. CASE Finish \/ Broadcast
  <2>1. UNCHANGED <<edges, label>> /\ step = "finish" /\ waiting' = PEs /\ step' \in {"apply", "applyAll"}
    BY <1>4 DEF Finish, Broadcast, applyVars
  <2>2. \A q \in PEs : HasApplied(q)' <=> HasApplied(q)
    BY <2>1 DEF HasApplied
  <2>3. QED
    BY <1>1, <2>1, <2>2, LabelKept DEF flatVars
<1>5. ASSUME UNCHANGED <<edges, label, step>>,
             waiting' = waiting \/ step \notin {"apply", "applyAll", "applyUF2"}
      PROVE  LabelInv' /\ UNCHANGED flatVars
  <2>1. \A q \in PEs : HasApplied(q)' <=> HasApplied(q)
    BY <1>5 DEF HasApplied
  <2>2. QED
    BY <1>1, <1>5, <2>1, LabelKept DEF flatVars
<1>6. CASE Absorb
  BY <1>5, <1>6 DEF Absorb, applyVars
<1>7. ASSUME NEW p \in Procs,
             \/ ContractLocalEdges(p) \/ RouteCrossEdges(p) \/ ContractRemote(p) \/ ForwardContracted(p)
             \/ CollectUF2Labels(p) \/ StoreSlice(p)
      PROVE  LabelInv' /\ UNCHANGED flatVars
  BY <1>5, <1>7 DEF ContractLocalEdges, RouteCrossEdges, ContractRemote, ForwardContracted,
     CollectUF2Labels, StoreSlice, applyVars
<1>8. ASSUME NEW q \in PEs, Discover(q) \/ Stage(q) \/ FlushPhase3Edges(q) \/ FireUF2Edges(q)
      PROVE  LabelInv' /\ UNCHANGED flatVars
  BY <1>5, <1>8 DEF Discover, Stage, FlushPhase3Edges, FireUF2Edges, applyVars
<1>9. QED
  BY <1>2, <1>3, <1>4, <1>6, <1>7, <1>8, NextCases

-----------------------------------------------------------------------------
\* The merge as a whole.

LEMMA MergeNext ==
  ASSUME MergeInv, Next
  PROVE  MergeInv'
BY StepNext, WalkNext, RawNext, StagedNext, ForestNext, RouteNext, ForwardNext, SliceNext, MergeStep
   DEF MergeInv

\* An iteration begins with nothing found and nothing under way.
Fresh ==
  /\ mode \in Modes /\ edges \in Graphs
  /\ toFind \in Findings[edges]
  /\ seen = [p \in Procs |-> {}] /\ buf = [q \in PEs |-> {}]
  /\ step = "walk" /\ waiting = {}
  /\ stageLocal = [p \in Procs |-> {}] /\ stageCross = [p \in Procs |-> {}]
  /\ forest = [p \in Procs |-> Alone(Tips)] /\ stageTips = [p \in Procs |-> {}]
  /\ batches = {} /\ toRoot = [p \in Procs |-> {}]
  /\ requests = {} /\ gathered = {}
  /\ globalSlice = [p \in Procs |-> NoMap]
  /\ told = {} /\ \A q \in PEs : ProcOf[q] \notin DOMAIN mapSlices
  /\ label = Unlabelled

LEMMA FreshInv == Fresh => MergeInv
<1> SUFFICES ASSUME Fresh PROVE MergeInv
  OBVIOUS
<1>1. edges \in Graphs
  BY DEF Fresh
<1>2. PICK by \in [edges -> UNION {Finders[e] : e \in edges}] :
        /\ \A e \in edges : by[e] \in Finders[e]
        /\ toFind = [q \in PEs |-> {e \in edges : q \in by[e]}]
  BY <1>1 DEF Fresh, Findings
<1>3. \A e \in edges : /\ by[e] # {} /\ by[e] \subseteq PEs
                       /\ \A q \in by[e] : ProcOf[q] \in {Owner[e[1]], Owner[e[2]]}
  BY <1>1, <1>2, FindersAssumption
<1>4. WalkInv
  <2>1. toFind \in [PEs -> SUBSET edges] /\ buf \in [PEs -> SUBSET edges]
    BY <1>2 DEF Fresh
  <2>2. \A e \in edges : \E q \in PEs : e \in toFind[q]
    BY <1>2, <1>3
  <2>3. \A q \in PEs : buf[q] = {} /\ \A e \in toFind[q] : ProcOf[q] \in {Owner[e[1]], Owner[e[2]]}
    BY <1>2, <1>3 DEF Fresh
  <2>4. seen \in [Procs -> SUBSET edges] /\ \A p \in Procs : seen[p] = {}
    BY DEF Fresh
  <2>5. QED
    BY <2>1, <2>2, <2>3, <2>4 DEF WalkInv, Fresh
<1>5. StepInv /\ RawInv /\ ForwardInv
  BY DEF StepInv, RawInv, ForwardInv, Fresh
<1>6. StagedInv
  BY DEF StagedInv, Fresh
<1>7. ForestInv
  <2>1. \A p \in Procs : ~HasContracted(p) /\ stageTips[p] = {} /\ forest[p] = Alone(Tips)
    BY DEF HasContracted, Fresh
  <2>2. QED
    BY <2>1 DEF ForestInv, Fresh
<1>8. RouteInv
  <2>1. \A p \in Procs : ~HasRouted(p) /\ toRoot[p] = {}
    BY DEF HasRouted, Fresh
  <2>2. QED
    BY <2>1 DEF RouteInv, Fresh
<1>9. LabelInv
  BY DEF LabelInv, HasApplied, Fresh, Unlabelled, FirstLabels
<1>10. SliceInv
  BY DEF SliceInv, Fresh
<1>11. QED
  BY <1>4, <1>5, <1>6, <1>7, <1>8, <1>9, <1>10 DEF MergeInv

LEMMA FreshInvNext == Fresh' => MergeInv'
BY FreshInv, PTL

LEMMA InitFresh ==
  ASSUME Init
  PROVE  Fresh /\ FlatInit
BY DEF Init, Fresh, FlatInit, Unlabelled

\* What the last iteration leaves under way is nothing that concerns a PE, and its labels
\* were final.
LEMMA IterationFresh ==
  ASSUME MergeInv, step = "done", NextIteration
  PROVE  Fresh' /\ Anew
<1>1. mode \in Modes /\ requests = {} /\ batches = {}
  BY DEF MergeInv, WalkInv, StepInv, RouteInv
<1>2. told = {} /\ \A q \in PEs : ProcOf[q] \notin DOMAIN mapSlices
  BY DEF MergeInv, SliceInv
<1>3. Fresh'
  BY <1>1, <1>2 DEF NextIteration, Fresh, Unlabelled
<1>4. \A q \in PEs : label[q] = FinalLabels(q)
  BY DEF MergeInv, LabelInv, HasApplied
<1>5. label' = Unlabelled
  BY DEF NextIteration
<1>6. Anew
  BY <1>4, <1>5 DEF Anew, FinalLabels, Unlabelled
<1>7. QED
  BY <1>3, <1>6

-----------------------------------------------------------------------------
\* The census beside the merge.

\* Its stages leave the merge alone and begin when it is done.
LEMMA CensusStages ==
  ASSUME IInv, CensusNext, ~(census = "idle" /\ Next /\ UNCHANGED censusVars), ~NextIteration
  PROVE  /\ UNCHANGED mergeVars
         /\ census' \in {"fragments", "idle"} \/ step = "done"
<1>1. CASE \E q \in PEs : CountFragments(q)
  BY <1>1 DEF CountFragments, ContributesTo
<1>2. CASE \E q \in PEs :
             \/ DepositLabelCounts(q) \/ HistogramShard(q) \/ ScatterTouchedCounts(q) \/ BinTouchedCounts(q)
  BY <1>2 DEF DepositLabelCounts, HistogramShard, ScatterTouchedCounts, BinTouchedCounts,
     ContributesTo, SameStage, IInv
<1>3. CASE \E p \in Procs : RecvTouchedCounts(p)
  BY <1>3 DEF RecvTouchedCounts, IInv
<1>4. CASE FragmentHistogram
  BY <1>4 DEF FragmentHistogram
<1>5. CASE StartCensus
  BY <1>5 DEF StartCensus
<1>6. CASE GoOnCounting \/ CollectTouchedCounts
  BY <1>6 DEF GoOnCounting, CollectTouchedCounts, IInv
<1>7. QED
  BY <1>1, <1>2, <1>3, <1>4, <1>5, <1>6 DEF CensusNext

LEMMA MergeInvKept ==
  ASSUME MergeInv, UNCHANGED mergeVars
  PROVE  MergeInv'
<1>1. UNCHANGED <<mode, edges, toFind, seen, buf, step, waiting, stageLocal, stageCross, forest, stageTips,
                  batches, toRoot, requests, gathered, mapSlices, globalSlice, told, label>>
  BY DEF mergeVars, vars, walkVars, stageVars, applyVars
<1>2. WalkInv' /\ StepInv' /\ RawInv' /\ LabelInv'
  BY <1>1, WalkKept, LabelKept DEF MergeInv, StepInv, RawInv, walkVars, WalkInv, HasApplied
<1>3. StagedInv'
  <2>1. \A d : LocalEdges(d)' = LocalEdges(d) /\ CrossAt(d)' = CrossAt(d)
    BY <1>1 DEF LocalEdges, CrossAt, CrossEdges
  <2>2. QED
    BY <1>1, <2>1 DEF MergeInv, StagedInv
<1>4. ForestInv'
  BY <1>1, ForestKept DEF MergeInv, HasContracted
<1>5. RouteInv'
  BY <1>1, RouteKept DEF MergeInv, RouteInv, HasRouted
<1>6. ForwardInv'
  BY <1>1, ForwardKept DEF MergeInv
<1>7. SliceInv'
  BY <1>1, SliceKept DEF MergeInv
<1>8. QED
  BY <1>2, <1>3, <1>4, <1>5, <1>6, <1>7 DEF MergeInv

\* A step of the census and the merge keeps the invariant and is a step of the promise.
FlatStep == [Anew \/ \E q \in PEs : Relabel(q)]_flatVars

LEMMA CensusStep ==
  ASSUME IInv, CensusNext \/ UNCHANGED allVars
  PROVE  IInv' /\ FlatStep
<1>1. MergeInv
  BY DEF IInv
<1>2. CASE census = "idle" /\ Next /\ UNCHANGED censusVars
  <2>1. MergeInv' /\ census' = "idle"
    BY <1>1, <1>2, MergeNext DEF censusVars
  <2>2. \A q \in PEs : Finalises(q) => Relabel(q)
    BY DEF Finalises, Relabel, FinalLabels
  <2>3. QED
    BY <1>1, <1>2, <2>1, <2>2, MergeStep DEF IInv, FlatStep
<1>3. CASE NextIteration
  <2>1. step = "done"
    BY <1>3 DEF NextIteration, IInv
  <2>2. Fresh' /\ Anew
    BY <1>1, <1>3, <2>1, IterationFresh
  <2>3. MergeInv'
    BY <2>2, FreshInvNext
  <2>4. census' = "fragments"
    BY <1>3 DEF NextIteration
  <2>5. QED
    BY <2>2, <2>3, <2>4 DEF IInv, FlatStep
<1>4. CASE CensusNext /\ ~(census = "idle" /\ Next /\ UNCHANGED censusVars) /\ ~NextIteration
  <2>1. UNCHANGED mergeVars /\ (census' \in {"fragments", "idle"} \/ step = "done")
    BY <1>4, CensusStages
  <2>2. UNCHANGED <<edges, label, step>>
    BY <2>1 DEF mergeVars, vars, applyVars
  <2>3. QED
    BY <1>1, <2>1, <2>2, MergeInvKept DEF IInv, FlatStep, flatVars
<1>5. CASE UNCHANGED allVars
  <2>1. UNCHANGED mergeVars /\ census' = census
    BY <1>5 DEF allVars, censusVars
  <2>2. UNCHANGED <<edges, label, step>>
    BY <2>1 DEF mergeVars, vars, applyVars
  <2>3. QED
    BY <1>1, <2>1, <2>2, MergeInvKept DEF IInv, FlatStep, flatVars
<1>6. QED
  BY <1>2, <1>3, <1>4, <1>5 DEF CensusNext

-----------------------------------------------------------------------------
\* In every behaviour of the labelling, with the device at work or at rest, the
\* invariant of the merge holds.
THEOREM MergeSound == LabellingSpec => []IInv
<1>1. LabellingInit => IInv
  BY InitFresh, FreshInv DEF LabellingInit, CensusInit, IInv
<1>2. IInv /\ [LabellingNext]_labellingVars => IInv'
  <2>1. SUFFICES ASSUME IInv, [LabellingNext]_labellingVars PROVE IInv'
    OBVIOUS
  <2>2. CensusNext \/ UNCHANGED allVars
    BY <2>1 DEF LabellingNext, AcrossStep, DeviceStep, labellingVars
  <2>3. QED
    BY <2>1, <2>2, CensusStep
<1>3. QED
  BY <1>1, <1>2, PTL DEF LabellingSpec

\* The merge gives every PE, in one step and in every iteration, the labels that one
\* union-find over all edges gives its tips: raw, contracted by the processes, broadcast
\* or by way of the library, whichever PEs found an edge, and in whatever order batches,
\* requests and slices came (runFoFPhase3 and the staged and distributed forms of it).
THEOREM MergeImplementsFlat == LabellingSpec => ImplementsFlat
<1>1. LabellingInit => FlatInit
  BY InitFresh DEF LabellingInit, CensusInit
<1>2. IInv /\ [LabellingNext]_labellingVars => FlatStep
  <2>1. SUFFICES ASSUME IInv, [LabellingNext]_labellingVars PROVE FlatStep
    OBVIOUS
  <2>2. CensusNext \/ UNCHANGED allVars
    BY <2>1 DEF LabellingNext, AcrossStep, DeviceStep, labellingVars
  <2>3. QED
    BY <2>1, <2>2, CensusStep
<1>3. QED
  BY <1>1, <1>2, MergeSound, PTL DEF LabellingSpec, ImplementsFlat, FlatSpec, FlatStep
=============================================================================
