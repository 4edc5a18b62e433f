-------------------------------- MODULE Census --------------------------------
(***************************************************************************)
(* The two histograms of an iteration, composed with the merge between     *)
(* them.  Before phase 3 the fragments are counted that phase 1 has made   *)
(* (countFragments), and after it the components                           *)
(* (runFoFComponentHistogram).  The sign of a label is the contract        *)
(* between the merge and the second: a component with a label of zero or   *)
(* more is of one process and is counted there; of one with a negative     *)
(* label a process holds a part, which goes to the process that owns the   *)
(* boss tip (or to the driver).                                            *)
(*                                                                         *)
(* A histogram is the bag of the sizes counted: its bins, its number of    *)
(* components and its maximum, filtered by size or not, are functions of   *)
(* the bag.                                                                *)
(***************************************************************************)
EXTENDS GatherMerge, SequencesExt

CONSTANTS
  Iterations,  \* how many times the driver goes through phase 3 and the census
  Ranks,       \* Ranks[p]: the PEs of process p in the order of their ranks
  Count,       \* Count[q][t]: how many particles of q phase 1 gave tip t
  Mix(_),      \* labelShardMix
  Windowings   \* the sets of processes whose range of orders may be compact

ASSUME RanksAssumption ==
  \A p \in Procs : IsInjective(Ranks[p]) /\ ToSet(Ranks[p]) = {q \in PEs : ProcOf[q] = p}
ASSUME OrdersAssumption == Tips = 1 .. Cardinality(Tips)
ASSUME CountAssumption == \A q \in PEs : Count[q] \in [TipsOf[q] -> Nat \ {0}]

VARIABLES
  iter,
  frag_counts,   \* of each process: how many particles have a tip
  fragments,     \* the bag of the sizes of fragments that reached the driver
  census,        \* the stage of the census
  pending,       \* the PEs that have not contributed to the stage
  routed,        \* FOF_HIST_ROUTED: the parts go to the boss's process
  windowed,      \* processes with dense_width > 0
  dense,         \* dense_hist of each process, by the order of a tip
  label_shards,  \* the pairs in each PE's shard, by where they come from
  touched_totals,
  touched_in,    \* the landing buffer of each process
  parts,         \* recvTouchedCounts messages on their way
  histogram      \* the bag of sizes that reached the driver

mergeVars == vars
censusVars ==
  <<iter, frag_counts, fragments, census, pending, routed, windowed, dense, label_shards, touched_totals, touched_in, parts,
    histogram>>

NoCounts == [p \in Procs |-> [t \in Tips |-> 0]]

CensusInit ==
  /\ Init
  /\ iter = 1 /\ census = "fragments" /\ pending = PEs
  /\ frag_counts = NoCounts /\ fragments = EmptyBag
  /\ routed = TRUE /\ windowed = {}
  /\ dense = NoCounts
  /\ label_shards = [q \in PEs |-> {}]
  /\ touched_totals = [q \in PEs |-> {}]
  /\ touched_in = [p \in Procs |-> {}]
  /\ parts = {}
  /\ histogram = EmptyBag

-----------------------------------------------------------------------------
\* A pair (label, count), with where it comes from to keep equal ones apart.
Pair(from, l, n) == [from |-> from, label |-> l, n |-> n]
Totals(pairs) ==
  {[label |-> l, n |-> FoldSet(LAMBDA x, sum : x.n + sum, 0, {y \in pairs : y.label = l})] :
     l \in {x.label : x \in pairs}}
SizeBag(totals) ==
  LET Times(n) == Cardinality({x \in totals : x.n = n})
  IN  [n \in {x.n : x \in totals} |-> Times(n)]

ShardOf(p, l) == Ranks[p][1 + (Mix(l) % Len(Ranks[p]))]

ContributesTo(q, stage) == census = stage /\ q \in pending /\ pending' = pending \ {q}
SameStage == UNCHANGED <<mergeVars, iter, frag_counts, fragments, census, routed, windowed>>

\* countFragments: this PE's counts are added to those of its process.
CountedIn(count, q) == [t \in Tips |-> IF t \in TipsOf[q] THEN count[t] + Count[q][t] ELSE count[t]]

CountFragments(q) ==
  /\ ContributesTo(q, "fragments")
  /\ frag_counts' = [frag_counts EXCEPT ![ProcOf[q]] = CountedIn(@, q)]
  /\ UNCHANGED <<mergeVars, iter, fragments, census, routed, windowed, dense, label_shards,
                 touched_totals, touched_in, parts, histogram>>

\* fragmentHistogram, after the barrier: the sizes of each process, together.
SizesOf(count) ==
  SizeBag({[label |-> t, n |-> count[t]] : t \in {u \in DOMAIN count : count[u] # 0}})

FragmentHistogram ==
  /\ census = "fragments" /\ pending = {}
  /\ census' = "idle"
  /\ fragments' = FoldFunction(LAMBDA c, sum : SizesOf(c) (+) sum, EmptyBag, frag_counts)
  /\ UNCHANGED <<mergeVars, iter, frag_counts, pending, routed, windowed, dense, label_shards,
                 touched_totals, touched_in, parts, histogram>>

\* The driver broadcasts the first stage.
StartCensus ==
  /\ step = "done" /\ census = "idle"
  /\ census' = "deposit" /\ pending' = PEs
  /\ histogram' = EmptyBag
  /\ routed' \in BOOLEAN
  /\ windowed' \in Windowings
  /\ UNCHANGED <<mergeVars, iter, frag_counts, fragments, dense, label_shards, touched_totals,
                 touched_in, parts>>

\* depositLabelCounts: the counts of this PE's roots, under their labels of now; an
\* untouched one is added to the dense array if the process has one.
Densely(q, t) == label[q][t] >= 0 /\ ProcOf[q] \in windowed

DepositLabelCounts(q) ==
  /\ ContributesTo(q, "deposit")
  /\ LET p == ProcOf[q]
         Sent == {Pair(<<q, t>>, label[q][t], Count[q][t]) :
                    t \in {u \in TipsOf[q] : ~Densely(q, u)}}
     IN  /\ dense' = [dense EXCEPT ![p] =
                        [t \in Tips |-> IF t \in TipsOf[q] /\ Densely(q, t)
                                          THEN @[t] + Count[q][t] ELSE @[t]]]
         /\ label_shards' = [r \in PEs |->
              label_shards[r] \cup
                (IF ProcOf[r] = p THEN {x \in Sent : ShardOf(p, x.label) = r} ELSE {})]
  /\ SameStage
  /\ UNCHANGED <<touched_totals, touched_in, parts, histogram>>

\* histogramShard: this PE's slice of the dense array, zeroed as it is read, and
\* its shard, summed by label; what is negative is a part of a component.
SliceRange(q) ==
  LET mine == Ranks[ProcOf[q]]
      r    == CHOOSE i \in DOMAIN mine : mine[i] = q
      Cut(i) == (Cardinality(Tips) * i) \div Len(mine)
  IN  {t \in Tips : Cut(r - 1) < t /\ t <= Cut(r)}

Zeroed(counts, T) == [t \in DOMAIN counts |-> IF t \in T THEN 0 ELSE counts[t]]

\* Rank 0 clears the landing buffer, for what a peer may send from the next stage on.
NeverCleared(p, q) == touched_in[p]
Landed(p, q) == IF q = Ranks[p][1] THEN {} ELSE touched_in[p]

HistogramShard(q) ==
  /\ ContributesTo(q, "shard")
  /\ LET p == ProcOf[q]
         T == IF p \in windowed THEN SliceRange(q) ELSE {}
         cells == {[label |-> t, n |-> dense[p][t]] : t \in {u \in T : dense[p][u] # 0}}
         totals == Totals(label_shards[q])
         whole == {x \in totals : x.label >= 0}
     IN  /\ dense' = [dense EXCEPT ![p] = Zeroed(@, T)]
         /\ label_shards' = [label_shards EXCEPT ![q] = {}]
         /\ touched_totals' = [touched_totals EXCEPT ![q] = totals \ whole]
         /\ touched_in' = [touched_in EXCEPT ![p] = Landed(p, q)]
         /\ histogram' = histogram (+) SizeBag(cells) (+) SizeBag(whole)
  /\ SameStage
  /\ UNCHANGED parts

\* scatterTouchedCounts: each part to the process that owns the boss tip.
BossOwner(l) == Owner[-l - 2]

ScatterTouchedCounts(q) ==
  /\ ContributesTo(q, "scatter")
  /\ LET For(p) == {Pair(q, x.label, x.n) :
                      x \in {y \in touched_totals[q] : BossOwner(y.label) = p}}
     IN  parts' = parts \cup {[to |-> p, pairs |-> For(p)] : p \in {d \in Procs : For(d) # {}}}
  /\ touched_totals' = [touched_totals EXCEPT ![q] = {}]
  /\ SameStage
  /\ UNCHANGED <<dense, label_shards, touched_in, histogram>>

RecvTouchedCounts(p) ==
  /\ \E m \in parts :
       /\ m.to = p
       /\ parts' = parts \ {m}
       /\ touched_in' = [touched_in EXCEPT ![p] = @ \cup m.pairs]
  /\ UNCHANGED <<mergeVars, iter, frag_counts, fragments, census, pending, routed, windowed, dense, label_shards,
                 touched_totals, histogram>>

\* binTouchedCounts: this PE's share of what landed.
BinTouchedCounts(q) ==
  /\ ContributesTo(q, "bin")
  /\ LET p == ProcOf[q]
         mine == {x \in touched_in[p] : ShardOf(p, x.label) = q}
     IN  histogram' = histogram (+) SizeBag(Totals(mine))
  /\ SameStage
  /\ UNCHANGED <<dense, label_shards, touched_totals, touched_in, parts>>

\* The driver goes from a stage to the next when all have contributed, and from
\* the scattering at quiescence.
NextStage ==
  CASE census = "deposit" -> "shard"
    [] census = "shard"   -> IF routed THEN "scatter" ELSE "collect"
    [] census = "scatter" -> "bin"
    [] census = "bin"     -> "counted"

GoOnCounting ==
  /\ census \in {"deposit", "shard", "scatter", "bin"} /\ pending = {}
  /\ census = "scatter" => parts = {}
  /\ census' = NextStage
  /\ pending' = IF census' \in {"collect", "counted"} THEN {} ELSE PEs
  /\ UNCHANGED <<mergeVars, iter, frag_counts, fragments, routed, windowed, dense, label_shards,
                 touched_totals, touched_in, parts, histogram>>

\* collectTouchedCounts: a concatenation, summed by the driver.
CollectTouchedCounts ==
  /\ census = "collect"
  /\ census' = "counted"
  /\ LET all == UNION {{Pair(q, x.label, x.n) : x \in touched_totals[q]} : q \in PEs}
     IN  histogram' = histogram (+) SizeBag(Totals(all))
  /\ touched_totals' = [q \in PEs |-> {}]
  /\ UNCHANGED <<mergeVars, iter, frag_counts, fragments, pending, routed, windowed, dense,
                 label_shards, touched_in, parts>>

\* The next iteration: phase 1 has made new tips of particles that have moved, and
\* resets its node branch; resetPhase3 clears what the walk and the merge kept.
NextIteration ==
  /\ census = "counted" /\ iter < Iterations
  /\ iter' = iter + 1 /\ census' = "fragments" /\ pending' = PEs
  /\ frag_counts' = NoCounts /\ fragments' = EmptyBag
  /\ edges' \in Graphs
  /\ toFind' \in Findings[edges']
  /\ seen' = [p \in Procs |-> {}]
  /\ buf' = [q \in PEs |-> {}]
  /\ step' = "walk" /\ waiting' = {}
  /\ stageLocal' = [p \in Procs |-> {}] /\ stageCross' = [p \in Procs |-> {}]
  /\ forest' = [p \in Procs |-> Alone(Tips)]
  /\ stageTips' = [p \in Procs |-> {}]
  /\ toRoot' = [p \in Procs |-> {}]
  /\ gathered' = {}
  /\ globalSlice' = [p \in Procs |-> NoMap]
  /\ label' = Unlabelled
  /\ label_shards' = [q \in PEs |-> {}]
  /\ routed' = TRUE /\ windowed' = {} /\ histogram' = EmptyBag
  /\ UNCHANGED <<mode, batches, requests, mapSlices, told, dense, touched_totals, touched_in,
                 parts>>

CensusNext ==
  \/ census = "idle" /\ Next /\ UNCHANGED censusVars
  \/ \E q \in PEs :
       \/ CountFragments(q) \/ DepositLabelCounts(q) \/ HistogramShard(q) \/ ScatterTouchedCounts(q)
       \/ BinTouchedCounts(q)
  \/ \E p \in Procs : RecvTouchedCounts(p)
  \/ FragmentHistogram \/ StartCensus \/ GoOnCounting \/ CollectTouchedCounts \/ NextIteration

allVars == <<mergeVars, censusVars>>

-----------------------------------------------------------------------------
\* When an iteration's census is over the histogram holds every component once
\* with its whole size, whichever processes it spans, however its sizes were
\* kept (densely or in shards) and routed, and nothing that an earlier iteration
\* left behind; and when it begins the driver has had the size of every fragment of
\* this iteration's phase 1.  (First conjunct: the types of the merge's variables.)
TrueTips == UNION {TipsOf[q] : q \in PEs}
Size(t) == FoldSet(LAMBDA q, sum : (IF t \in TipsOf[q] THEN Count[q][t] ELSE 0) + sum, 0, PEs)
Whole(t) == FoldSet(LAMBDA u, sum : Size(u) + sum, 0, {u \in TrueTips : LeastOf[edges][u] = t})
Components == {t \in TrueTips : LeastOf[edges][t] = t}

CensusExact ==
  /\ TypeOK
  /\ census = "deposit" => fragments = SizeBag({[label |-> t, n |-> Size(t)] : t \in TrueTips})
  /\ census = "counted" => histogram = SizeBag({[label |-> t, n |-> Whole(t)] : t \in Components})

\* The merge of iteration i has given all PEs their final labels, and its census is
\* over.
MergedAndCounted(i) ==
  /\ iter = i /\ census = "counted"
  /\ \A q \in PEs, t \in Tips : t \in TipsOf[q] => label[q][t] = FinalLabel(t)

\* In every iteration the labels of a PE change once, to what one union-find over
\* all the edges gives them: raw, contracted or streamed, whichever PEs found an
\* edge, in whatever order batches and requests came, and whatever the
\* iteration before has left.
ImplementsFlat == FlatSpec
=============================================================================
