---------------------------- MODULE GatherMerge ----------------------------
\* The end of phase 3 of Friends-of-Friends, across processes: the boundary walk
\* emits an edge for each pair of tips it finds within the linking length, the
\* edges are united by minimum, and every process labels its particles.  In two
\* modes the driver gathers the edges, unites them on PE 0 and sends every
\* process its part of the labels, or every PE all of them if they are few: the
\* edges come raw (runFoFPhase3) or contracted (runFoFPhase3Staged), where each process first unites the edges it
\* owns both ends of, and each cross edge is rewritten to local roots by the
\* owners of its two ends in turn.  In the third (runFoFPhase3Dist) the edges go
\* to a distributed union-find library, in batches while the walk still goes on
\* if the run streams them.
\*
\* A tip is a number with an owner, as uf2EncodeTip makes it: the order of the
\* numbers is the order of the tips, whoever owns them.
\*
\* FlatMerge, which is extended, is what the merge promises.
EXTENDS FlatMerge, Sequences, Functions

CONSTANTS
  Procs,
  ProcOf,     \* ProcOf[q]: the process of PE q
  Owner,      \* Owner[t]: uf2Owner
  Finders,    \* Finders[e]: the sets of PEs that may find edge e
  Modes       \* [kind: "raw", "broadcast" (raw, with few labels), "staged" or "dist",
              \*  batch: uf2_stream_batch]

ASSUME TipsAssumption ==
  /\ Tips \subseteq Nat /\ IsFiniteSet(Tips)
  /\ Owner \in [Tips -> Procs]
ASSUME PEsAssumption ==
  /\ ProcOf \in [PEs -> Procs]
  /\ \A q \in PEs : TipsOf[q] \subseteq {t \in Tips : Owner[t] = ProcOf[q]}
\* The walk emits against a target fragment of its own process, and somebody finds
\* every edge.
ASSUME FindersAssumption ==
  \A E \in Graphs :
    /\ E \subseteq Tips \X Tips
    /\ \A e \in E :
         /\ e[1] < e[2]
         /\ \A F \in Finders[e] :
              /\ F # {} /\ F \subseteq PEs
              /\ \A q \in F : ProcOf[q] \in {Owner[e[1]], Owner[e[2]]}
\* Only the library's mode streams.
ASSUME ModesAssumption ==
  \A m \in Modes :
    /\ m.kind \in {"raw", "broadcast", "staged", "dist"} /\ m.batch \in Nat
    /\ m.kind # "dist" => m.batch = 0

VARIABLES
  mode,        \* which of the three, and the edges of a streamed batch (0: none)
  toFind,      \* what the walk of each PE has still to come upon
  seen,        \* seen3_pairs of each process
  buf,         \* edge_buf3 of each PE
  step,        \* the step of the driver
  waiting,     \* who has not contributed to the reduction of the step
  stageLocal, stageCross, \* stage_local and stage_cross of each process
  forest,      \* stage_parent of each process, paths compressed
  stageTips,   \* stage_tips
  batches,     \* contractRemote messages on their way
  toRoot,      \* stage_to_root
  requests,    \* edges on their way to, or in, the union-find library
  gathered,    \* the edges the driver received, or the library has united
  mapSlices,   \* slices sent to the processes: from key tips to labels
  globalSlice, \* global_slice of each process, or its uf2_labels
  told         \* PEs that have an applySliceOnPE message

walkVars == <<toFind, seen, buf>>
stageVars == <<stageLocal, stageCross, forest, stageTips, batches, toRoot>>
applyVars == <<mapSlices, globalSlice, told, label>>
vars == <<mode, edges, walkVars, step, waiting, stageVars, requests, gathered, applyVars>>

NoMap == [t \in {} |-> t]

\* What each PE may come upon.
Findings ==
  [E \in Graphs |->
     {[q \in PEs |-> {e \in E : q \in by[e]}] :
        by \in {f \in [E -> UNION {Finders[e] : e \in E}] : \A e \in E : f[e] \in Finders[e]}}]

Unlabelled == [q \in PEs |-> [t \in TipsOf[q] |-> t]]

Init ==
  /\ mode \in Modes
  /\ edges \in Graphs
  /\ toFind \in Findings[edges]
  /\ seen = [p \in Procs |-> {}]
  /\ buf = [q \in PEs |-> {}]
  /\ step = "walk" /\ waiting = {}
  /\ stageLocal = [p \in Procs |-> {}] /\ stageCross = [p \in Procs |-> {}]
  /\ forest = [p \in Procs |-> Alone(Tips)]
  /\ stageTips = [p \in Procs |-> {}]
  /\ batches = {} /\ toRoot = [p \in Procs |-> {}]
  /\ requests = {} /\ gathered = {}
  /\ mapSlices = <<>>
  /\ globalSlice = [p \in Procs |-> NoMap]
  /\ told = {}
  /\ label = Unlabelled

-----------------------------------------------------------------------------
\* The walk comes upon a pair: the first PE of the process to insert it in the
\* SEEN table emits the edge (trySeenInsert, addPhase3Edge), the others drop it.
\* A full buffer goes to the library if the run streams (flushUF2Batch); what
\* the PE has seen stays.
Emitted(q, e) == IF e \in seen[ProcOf[q]] THEN buf[q] ELSE buf[q] \cup {e}
IsFull(B) == mode.batch > 0 /\ Cardinality(B) >= mode.batch

Discover(q) ==
  /\ step = "walk"
  /\ \E e \in toFind[q] :
       LET B == Emitted(q, e) IN
         /\ toFind' = [toFind EXCEPT ![q] = @ \ {e}]
         /\ seen' = [seen EXCEPT ![ProcOf[q]] = @ \cup {e}]
         /\ buf' = [buf EXCEPT ![q] = IF IsFull(B) THEN {} ELSE B]
         /\ requests' = IF IsFull(B) THEN requests \cup B ELSE requests
  /\ UNCHANGED <<mode, edges, step, waiting, stageVars, gathered, applyVars>>

\* stagePhase3Edges: the PE's buffer goes to its process, divided by ownership.
OwnedEnds(p, e) == {t \in {e[1], e[2]} : Owner[t] = p}
BothOwned(p, e) == OwnedEnds(p, e) = {e[1], e[2]}

Contributes(x) == x \in waiting /\ waiting' = waiting \ {x}

Stage(q) ==
  /\ step = "stage" /\ Contributes(q)
  /\ LET p == ProcOf[q] IN
       /\ stageLocal' = [stageLocal EXCEPT ![p] = @ \cup {e \in buf[q] : BothOwned(p, e)}]
       /\ stageCross' = [stageCross EXCEPT ![p] = @ \cup {e \in buf[q] : ~BothOwned(p, e)}]
  /\ UNCHANGED <<mode, edges, walkVars, step, forest, stageTips, batches, toRoot,
                 requests, gathered, applyVars>>

\* contractLocalEdges: the forest over local edges, and every owned tip seen.
OwnedTips(p, E) == UNION {OwnedEnds(p, e) : e \in E}

ContractLocalEdges(p) ==
  /\ step = "contract" /\ Contributes(p)
  /\ forest' = [forest EXCEPT ![p] = UniteAll(@, stageLocal[p])]
  /\ stageTips' = [stageTips EXCEPT ![p] =
                     @ \cup OwnedTips(p, stageLocal[p] \cup stageCross[p])]
  /\ UNCHANGED <<mode, edges, walkVars, step, stageLocal, stageCross, batches,
                 toRoot, requests, gathered, applyVars>>

\* An edge with the ends that p owns replaced by their local roots.
AtRoots(p, e) ==
  Edge(IF Owner[e[1]] = p THEN forest[p][e[1]] ELSE e[1],
       IF Owner[e[2]] = p THEN forest[p][e[2]] ELSE e[2])

\* routeCrossEdges: one batch to each owner of a far end.
Routed(p, d) == {AtRoots(p, e) : e \in {f \in stageCross[p] : OwnedEnds(d, f) # {}}}

RouteCrossEdges(p) ==
  /\ step = "route" /\ Contributes(p)
  /\ LET far == {d \in Procs \ {p} : Routed(p, d) # {}}
     IN  batches' = batches \cup {[to |-> d, edges |-> Routed(p, d)] : d \in far}
  /\ UNCHANGED <<mode, edges, walkVars, step, stageLocal, stageCross, forest,
                 stageTips, toRoot, requests, gathered, applyVars>>

\* contractRemote: the batches come in any order.
ContractRemote(p) ==
  /\ \E m \in batches :
       /\ m.to = p
       /\ batches' = batches \ {m}
       /\ stageTips' = [stageTips EXCEPT ![p] = @ \cup OwnedTips(p, m.edges)]
       /\ toRoot' = [toRoot EXCEPT ![p] = @ \cup {AtRoots(p, e) : e \in m.edges}]
  /\ UNCHANGED <<mode, edges, walkVars, step, waiting, stageLocal, stageCross,
                 forest, requests, gathered, applyVars>>

\* forwardContracted: the contracted edges go to the driver.
ForwardContracted(p) ==
  /\ step = "forward" /\ Contributes(p)
  /\ gathered' = gathered \cup toRoot[p]
  /\ UNCHANGED <<mode, edges, walkVars, step, stageVars, requests, applyVars>>

\* flushPhase3Edges: the raw edges go to the driver.
FlushPhase3Edges(q) ==
  /\ step = "flush" /\ Contributes(q)
  /\ gathered' = gathered \cup buf[q]
  /\ UNCHANGED <<mode, edges, walkVars, step, stageVars, requests, applyVars>>

-----------------------------------------------------------------------------
\* The distributed union-find.

\* The tips that occur in the edges that were united.
Remapped == UNION {{e[1], e[2]} : e \in gathered}

\* fireUF2Edges: what was not streamed; the buffer stays until the next reset.
FireUF2Edges(q) ==
  /\ step = "fire" /\ Contributes(q)
  /\ requests' = requests \cup buf[q]
  /\ UNCHANGED <<mode, edges, walkVars, step, stageVars, gathered, applyVars>>

\* The library unites the ends of a requested edge, in any order.
Absorb ==
  /\ \E e \in requests :
       /\ requests' = requests \ {e}
       /\ gathered' = gathered \cup {e}
  /\ UNCHANGED <<mode, edges, walkVars, step, waiting, stageVars, applyVars>>

\* collectUF2Labels, on the home PE of the process: componentNumber, which is the
\* boss's vertex, of every vertex the library created here.
CollectUF2Labels(p) ==
  /\ step = "collect" /\ Contributes(p)
  /\ globalSlice' = [globalSlice EXCEPT ![p] =
                       LET boss == UniteAll(Alone(Tips), gathered)
                       IN  [t \in {s \in Remapped : Owner[s] = p} |-> boss[t]]]
  /\ UNCHANGED <<mode, edges, walkVars, step, stageVars, requests, gathered, mapSlices,
                 told, label>>

\* applyUF2Labels: a vertex the library does not know keeps its tip.
Negated(b) == -(b + 2)
ApplyUF2Labels(q) ==
  /\ step = "applyUF2" /\ Contributes(q)
  /\ LET known == globalSlice[ProcOf[q]]
     IN  label' = [label EXCEPT ![q] =
                     [t \in TipsOf[q] |->
                        IF @[t] \in DOMAIN known THEN Negated(known[@[t]]) ELSE @[t]]]
  /\ UNCHANGED <<mode, edges, walkVars, step, stageVars, requests, gathered, mapSlices,
                 globalSlice, told>>

-----------------------------------------------------------------------------
\* The driver.

\* A step is over when all have contributed to it; the walk when its quiescence
\* or its counters say so; and the routing and the drain of the library, which
\* have no reduction, at quiescence.  Quiescence sees the requests too.
Quiet == batches = {} /\ requests = {}

StepOver ==
  /\ waiting = {}
  /\ (step = "walk" => \A q \in PEs : toFind[q] = {})
  /\ (step \in {"walk", "route", "drain"} => Quiet)

Following ==
  CASE step = "walk"     -> [raw |-> "flush", broadcast |-> "flush", staged |-> "stage",
                           dist |-> "fire"][mode.kind]
    [] step = "stage"    -> "contract"
    [] step = "contract" -> "route"
    [] step = "route"    -> "forward"
    [] step = "forward"  -> "finish"
    [] step = "flush"    -> "finish"
    [] step = "fire"     -> "drain"
    [] step = "drain"    -> "collect"
    [] step = "collect"  -> "applyUF2"
    [] step \in {"apply", "applyAll", "applyUF2"} -> "done"

Participants(s) ==
  CASE s \in {"stage", "flush", "apply", "applyAll", "fire", "applyUF2"} -> PEs
    [] s \in {"contract", "route", "forward", "collect"} -> Procs
    [] s \in {"drain", "finish", "done"} -> {}

GoOn ==
  /\ step \notin {"finish", "done"} /\ StepOver
  /\ step' = Following
  /\ waiting' = Participants(step')
  /\ UNCHANGED <<mode, edges, walkVars, stageVars, requests, gathered, applyVars>>

\* The serial finisher: a union-find over what was gathered, the labels of the
\* tips that occur in it, and one slice to every process, empty ones too.
LabelMap(T) == LET root == UniteAll(Alone(Tips), gathered) IN [t \in T |-> -(root[t] + 2)]
SliceOf(p) == LabelMap({s \in Remapped : Owner[s] = p})

Concerned == {p \in Procs : \E t \in Remapped : Owner[t] = p}
Recipients == Procs

Finish ==
  /\ step = "finish" /\ mode.kind # "broadcast"
  /\ mapSlices' = [p \in Recipients |-> SliceOf(p)]
  /\ step' = "apply" /\ waiting' = PEs
  /\ UNCHANGED <<mode, edges, walkVars, stageVars, requests, gathered, globalSlice, told, label>>

\* A map of few bytes goes to every PE as it is.
Broadcast ==
  /\ step = "finish" /\ mode.kind = "broadcast"
  /\ step' = "applyAll" /\ waiting' = PEs
  /\ UNCHANGED <<mode, edges, walkVars, stageVars, requests, gathered, applyVars>>

\* What a map says of the tips of a PE; what it does not know stays.
Mapped(q, map) ==
  [label EXCEPT ![q] = [t \in TipsOf[q] |-> IF @[t] \in DOMAIN map THEN map[@[t]] ELSE @[t]]]

ApplyGlobalMap(q) ==
  /\ step = "applyAll" /\ Contributes(q)
  /\ label' = Mapped(q, LabelMap(Remapped))
  /\ UNCHANGED <<mode, edges, walkVars, step, stageVars, requests, gathered, mapSlices,
                 globalSlice, told>>

\* expandAndApplySlice: a slice keyed by local roots becomes a map of all owned
\* tips that an edge touches; a component that no other process touches is not
\* in the slice.
RootOrItself(slice, r) == IF r \in DOMAIN slice THEN slice[r] ELSE r
RootLabel(slice, r) == IF r \in DOMAIN slice THEN slice[r] ELSE -(r + 2)
Expanded(p, slice) == [t \in stageTips[p] |-> RootLabel(slice, forest[p][t])]

\* The process stores its slice (applyGlobalMapSlice stores it as it is) and
\* then tells its PEs.
StoreSlice(p) ==
  /\ p \in DOMAIN mapSlices
  /\ globalSlice' = [globalSlice EXCEPT ![p] =
                       IF mode.kind = "staged" THEN Expanded(p, mapSlices[p]) ELSE mapSlices[p]]
  /\ mapSlices' = [d \in DOMAIN mapSlices \ {p} |-> mapSlices[d]]
  /\ told' = told \cup {q \in PEs : ProcOf[q] = p}
  /\ UNCHANGED <<mode, edges, walkVars, step, waiting, stageVars, requests, gathered, label>>

\* applySliceOnPE: the label of each root of the PE, if the slice has it.
ApplySliceOnPE(q) ==
  /\ q \in told /\ told' = told \ {q}
  /\ label' = Mapped(q, globalSlice[ProcOf[q]])
  /\ Contributes(q)
  /\ UNCHANGED <<mode, edges, walkVars, step, stageVars, requests, gathered, mapSlices,
                 globalSlice>>

ProcStep(p) ==
  \/ ContractLocalEdges(p) \/ RouteCrossEdges(p) \/ ContractRemote(p)
  \/ ForwardContracted(p) \/ CollectUF2Labels(p) \/ StoreSlice(p)
PEStep(q) ==
  \/ Discover(q) \/ Stage(q) \/ FlushPhase3Edges(q) \/ ApplySliceOnPE(q)
  \/ FireUF2Edges(q) \/ ApplyUF2Labels(q) \/ ApplyGlobalMap(q)
DriverStep == GoOn \/ Finish \/ Broadcast

Next ==
  (\E p \in Procs : ProcStep(p)) \/ (\E q \in PEs : PEStep(q)) \/ DriverStep \/ Absorb

-----------------------------------------------------------------------------
\* The variables hold values of their types: in particular a process stages
\* and labels its own tips only, and a local root has the owner of the tip.
TypeOK ==
  /\ mode \in Modes
  /\ step \in {"walk", "stage", "contract", "route", "forward", "flush", "finish",
               "apply", "applyAll", "fire", "drain", "collect", "applyUF2", "done"}
  /\ requests \subseteq edges
  /\ \A q \in PEs : toFind[q] \subseteq edges /\ buf[q] \subseteq edges
  /\ waiting \subseteq PEs \cup Procs /\ told \subseteq PEs
  /\ gathered \subseteq Tips \X Tips
  /\ \A p \in Procs :
       /\ seen[p] \subseteq edges
       /\ stageLocal[p] \cup stageCross[p] \cup toRoot[p] \subseteq Tips \X Tips
       /\ forest[p] \in [Tips -> Tips]
       /\ \A t \in Tips : Owner[forest[p][t]] = Owner[t]
       /\ \A t \in stageTips[p] \cup DOMAIN globalSlice[p] : Owner[t] = p
       /\ \A t \in DOMAIN globalSlice[p] : (globalSlice[p][t] < 0) = (mode.kind # "dist")

=============================================================================
