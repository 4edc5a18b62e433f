------------------------------ MODULE Decompose ------------------------------
(***************************************************************************)
(* The decomposition of an iteration (src/Driver.h decompose,              *)
(* src/Decomposition.C): the driver searches splitters for the partitions, *)
(* the readers mark their particles with their partition, the driver       *)
(* searches splitters for the tree pieces unless the two are the same, the *)
(* arrays are placed on the PEs, and the readers flush.                    *)
(*                                                                         *)
(* A search is a sequence of rounds, each a broadcast of the candidate     *)
(* ranges to the readers and the sum of their counts.  A reader counts in  *)
(* its own sorted particles, and the sum does not depend on who has which; *)
(* so a round is one step here.  The flush of a reader sends each of its   *)
(* particles by the splitters alone; its delivery is FlushWindow.          *)
(*                                                                         *)
(* Keys have KeyBits bits below a placeholder bit (63 in the code), and    *)
(* coordinates are multiples of the spacing of floats of their magnitude,  *)
(* as offsets from the least corner of the universe.                       *)
(***************************************************************************)
EXTENDS Integers, SequencesExt, FiniteSetsExt

CONSTANTS
  KeyBits, LogB,   \* bits of a particle key, log2 of the branch factor
  Grain,           \* twice the epsilon of floats
  Dims,            \* number of dimensions
  NPes, PerProcess,
  \* [partition, piece: kind of decomposition, n: splitters asked for, at: a key or a
  \*  position for each particle, side: of the universe, spacing: of the floats in it,
  \*  cell, by: the cell and PE a particle is staged in, mode: placement]
  Jobs

VARIABLES
  job,
  role,            \* the array that is being decomposed: "partition" or "piece"
  phase,           \* "start", "search", "found", "created", "flushed" or "aborted"
  states,          \* GenericSplitters of the search
  splitters,
  depth,           \* levels of a binary decomposition that are done
  partition_idx,   \* of each particle
  n_partitions,
  homes,           \* partition_idxs: of each piece, the partition it is next to
  partition_locations, pe_of,
  received         \* particles of each piece

vars == <<job, role, phase, states, splitters, depth, partition_idx, n_partitions, homes,
          partition_locations, pe_of, received>>

Kind == IF role = "partition" THEN job.partition ELSE job.piece
Particles == 1 .. Len(job.at)
Matching == job.partition = job.piece
Binary == Kind \in {"kd", "longest"}

-----------------------------------------------------------------------------
(* Keys.  A tree key has a leading 1; removeLeadingZeros moves it up to    *)
(* the placeholder bit.                                                    *)

Branches == 2^LogB
Wrap(k) == k % 2^(KeyBits + 1)
AllOnes == 2^(KeyBits + 1) - 1
Level(k) == (CHOOSE b \in 0 .. KeyBits : 2^b <= k /\ k < 2^(b + 1)) \div LogB
ParticleLevel(k) == Wrap(k * 2^(KeyBits - LogB * Level(k)))

\* Tree key a is b or above it.
IsKeyPrefix(a, b) ==
  /\ Level(a) <= Level(b)
  /\ a = b \div 2^(LogB * (Level(b) - Level(a)))

-----------------------------------------------------------------------------
(* Bisection: a key of given rank (sfc), the median of a bin along a       *)
(* dimension (kd).                                                         *)

MidKey(s) == s.from + (s.to - s.from) \div 2

\* Halfway between two neighbours a float is rounded to the even one.
MidFloat(s) ==
  LET twice == (s.from + s.to) \div job.spacing
  IN job.spacing * (twice \div 2 + (IF twice % 4 = 3 THEN 1 ELSE 0))

Mid(s) == IF Kind = "sfc" THEN MidKey(s) ELSE MidFloat(s)

\* Node that a particle comes to after d levels of a binary decomposition;
\* splitters are the nodes of a heap.
Descend(p) ==
  LET node[d \in 0 .. depth] ==
        IF d = 0 THEN 1
        ELSE LET i == node[d - 1]
             IN IF job.at[p][splitters[i].dim] > Mid(splitters[i]) THEN 2 * i + 1 ELSE 2 * i
  IN node[depth]

Bin(i) == {p \in Particles : Descend(p) = 2^depth + i - 1}

\* What the readers count for a state: keys from the start to below the middle;
\* for a bin, positions strictly between.
Counted(i) ==
  LET s == states[i]
  IN IF Kind = "sfc"
       THEN Cardinality({p \in Particles : s.from <= job.at[p] /\ job.at[p] < Mid(s)})
       ELSE Cardinality({p \in Bin(i) : s.from < job.at[p][s.dim] /\ job.at[p][s.dim] < Mid(s)})

Threshold == Len(job.at) \div job.n

SfcStates ==
  [i \in 1 .. job.n |->
     [dim |-> 0, from |-> 2^KeyBits, to |-> AllOnes, pending |-> TRUE, n |-> 0,
      goal |-> i * Threshold + (IF i < Len(job.at) % job.n THEN i ELSE Len(job.at) % job.n)]]

KdStates ==
  [i \in 1 .. 2^depth |->
     [dim |-> (depth % Dims) + 1, from |-> 0, to |-> job.side, pending |-> TRUE, n |-> 0,
      goal |-> (Cardinality(Bin(i)) + 1) \div 2]]

\* Width of a range at which a search gives up: that of a key, or twice the epsilon
\* whatever the spacing of the coordinates.
LeastWidth == IF Kind = "sfc" THEN 1 ELSE Grain

\* Variant: the lower half is counted again.
UpperHalfOldGoal(s, count) == [s EXCEPT !.from = Mid(s)]

\* What the lower half has is no longer looked for.
UpperHalf(s, count) == [s EXCEPT !.from = Mid(s), !.goal = @ - count]

\* Variant: a range must be narrower.
IdenticalBelow(s) == s.to - s.from < LeastWidth

Identical(s) == s.to - s.from <= LeastWidth

Halved(i) ==
  LET s == states[i]
      count == Counted(i)
  IN IF ~s.pending THEN s
     ELSE IF count = s.goal \/ Identical(s) THEN [s EXCEPT !.pending = FALSE, !.n = count]
     ELSE IF count < s.goal THEN UpperHalf(s, count)
     ELSE [s EXCEPT !.to = Mid(s)]

Bisect ==
  /\ phase = "search" /\ Kind \in {"sfc", "kd"}
  /\ \E i \in DOMAIN states : states[i].pending
  /\ states' = [i \in DOMAIN states |-> Halved(i)]
  /\ UNCHANGED <<job, role, phase, splitters, depth, partition_idx, n_partitions, homes,
                 partition_locations, pe_of, received>>

\* Consecutive splitters share the key between them.
SfcFound ==
  /\ phase = "search" /\ Kind = "sfc"
  /\ \A i \in DOMAIN states : ~states[i].pending
  /\ phase' = "found"
  /\ splitters' = [i \in DOMAIN states |->
                     [from |-> IF i = 1 THEN 0 ELSE Mid(states[i - 1]), to |-> Mid(states[i]),
                      key |-> 0, n |-> states[i].n]]
  /\ UNCHANGED <<job, role, states, depth, partition_idx, n_partitions, homes,
                 partition_locations, pe_of, received>>

\* A level is done: its bins are split (doSplit), and there are enough of them or
\* the next level is searched.
SplitLevel(level) ==
  /\ splitters' = splitters \o level
  /\ depth' = depth + 1
  /\ states' = <<>>
  /\ phase' = IF 2^(depth + 1) < job.n THEN "start" ELSE "found"
  /\ UNCHANGED <<job, role, partition_idx, n_partitions, homes, partition_locations, pe_of,
                 received>>

KdLevel ==
  /\ phase = "search" /\ Kind = "kd"
  /\ \A i \in DOMAIN states : ~states[i].pending
  /\ SplitLevel(states)

\* The longest dimension of the box of a bin, and the mean of its particles there
\* (of integers, what lies above the mean lies above its floor).
Extent(B, d) == Max({job.at[p][d] : p \in B}) - Min({job.at[p][d] : p \in B})
LongestDim(B) ==
  CHOOSE d \in 1 .. Dims :
    /\ \A e \in 1 .. Dims : Extent(B, e) <= Extent(B, d)
    /\ \A e \in 1 .. d - 1 : Extent(B, e) < Extent(B, d)

AtMean(B) ==
  LET d == IF B = {} THEN 1 ELSE LongestDim(B)
      mean == IF B = {} THEN 0 ELSE MapThenSumSet(LAMBDA p : job.at[p][d], B) \div Cardinality(B)
  IN [dim |-> d, from |-> mean, to |-> mean]

LongestLevel ==
  /\ phase = "search" /\ Kind = "longest"
  /\ SplitLevel([i \in 1 .. 2^depth |-> AtMean(Bin(i))])

-----------------------------------------------------------------------------
(* Subdivision: a tree node with more particles than the threshold is      *)
(* replaced by its children (oct).                                         *)

InRange(from, to) == {p \in Particles : from <= job.at[p] /\ job.at[p] < to}
Held(s) == Cardinality(InRange(ParticleLevel(s.from), ParticleLevel(s.to)))

\* Variant: the end of the last child wraps.
LastToWrapped(to) == Wrap(to * Branches)

\* The end of the tree has no bits to move.
LastTo(to) == IF to = AllOnes THEN AllOnes ELSE Wrap(to * Branches)

ChildRanges(s) ==
  [k \in 1 .. Branches |->
     [from |-> Wrap(s.from * Branches + k - 1),
      to |-> IF k < Branches THEN Wrap(s.from * Branches + k) ELSE LastTo(s.to)]]

TooMany(n) == n > Threshold

OctSplitter(s) ==
  [from |-> ParticleLevel(s.from), to |-> ParticleLevel(s.to), key |-> s.from, n |-> Held(s)]

OctRound ==
  /\ phase = "search" /\ Kind = "oct"
  /\ states # <<>>
  /\ LET more == SelectSeq(states, LAMBDA s : TooMany(Held(s)))
         few == SelectSeq(states, LAMBDA s : ~TooMany(Held(s)))
     IN /\ states' = FlattenSeq([i \in DOMAIN more |-> ChildRanges(more[i])])
        /\ splitters' = splitters \o [i \in DOMAIN few |-> OctSplitter(few[i])]
  /\ UNCHANGED <<job, role, phase, depth, partition_idx, n_partitions, homes,
                 partition_locations, pe_of, received>>

\* The splitters are sorted and must have all the particles; each is next to the
\* mean of its particles' partitions.
MeanPartition(s) ==
  IF s.n = 0 THEN 0
  ELSE MapThenSumSet(LAMBDA p : partition_idx[p], InRange(s.from, s.to)) \div s.n

OctFound ==
  /\ phase = "search" /\ Kind = "oct"
  /\ states = <<>>
  /\ splitters' = SortSeq(splitters, LAMBDA s, t : s.from < t.from)
  /\ homes' = [i \in DOMAIN splitters |-> MeanPartition(splitters'[i])]
  /\ phase' = IF MapThenSumSet(LAMBDA i : splitters[i].n, DOMAIN splitters) = Len(job.at)
                THEN "found" ELSE "aborted"
  /\ UNCHANGED <<job, role, states, depth, partition_idx, n_partitions,
                 partition_locations, pe_of, received>>

-----------------------------------------------------------------------------
(* Host cells: the cells staged by the host, and empty ones to fill up.    *)

Staged(c) == {p \in Particles : job.cell[p] = c}
StagedBy(c, pe) == Cardinality({p \in Staged(c) : job.by[p] = pe})
Cells == Range(job.cell)
Above(c) == {c \div 2^(LogB * l) : l \in 1 .. Level(c)}
Internal == UNION {Above(c) : c \in Cells}
Children(a) == {a * Branches + k : k \in 0 .. Branches - 1}
Fill == UNION {Children(a) : a \in Internal} \ (Cells \cup Internal)

\* The PE that staged most of a cell, the first of them if several did.
CellPe(c) ==
  Min({pe \in 0 .. NPes - 1 : \A q \in 0 .. NPes - 1 : StagedBy(c, q) <= StagedBy(c, pe)})

CellEnd(c) ==
  LET to == Wrap(ParticleLevel(c) + 2^(KeyBits - LogB * Level(c)))
  IN IF to = 0 THEN AllOnes ELSE to

HostSplitters ==
  [i \in 1 .. Cardinality(Cells \cup Fill) |->
     LET c == CHOOSE k \in Cells \cup Fill : Cardinality({b \in Cells \cup Fill :
                                                ParticleLevel(b) < ParticleLevel(k)}) = i - 1
     IN [from |-> ParticleLevel(c), to |-> CellEnd(c), key |-> c, n |-> Cardinality(Staged(c))]]

\* A cell to fill up joins the cell before it, or the first that is staged.
HostPe(i) ==
  LET staged == {j \in DOMAIN splitters : splitters[j].key \in Cells}
      before == {j \in staged : j <= i}
  IN CellPe(splitters[IF before = {} THEN Min(staged) ELSE Max(before)].key)

HostFound ==
  /\ phase = "search" /\ Kind = "host"
  /\ IF Cells \cap Internal # {}
       THEN /\ phase' = "aborted"
            /\ UNCHANGED <<splitters, homes>>
       ELSE /\ phase' = "found"
            /\ splitters' = HostSplitters
            /\ homes' = [i \in DOMAIN HostSplitters |-> i - 1]
  /\ UNCHANGED <<job, role, states, depth, partition_idx, n_partitions,
                 partition_locations, pe_of, received>>

-----------------------------------------------------------------------------
(* Placement of an array on the PEs.                                       *)

Pieces == IF Binary THEN 1 .. 2^depth ELSE DOMAIN splitters
Size(i) == IF Binary THEN Cardinality(Bin(i)) ELSE splitters[i].n

\* DecompArrayMap.  Blocks of about the same number of particles: the last index of each PE's block.
PeIntervals ==
  LET perPe == Len(job.at) \div NPes
      end[i \in Nat, pe \in Nat, ends \in Seq(Nat)] ==
        IF i > Max(Pieces) THEN Append(ends, Max(Pieces))
        ELSE IF MapThenSumSet(Size, 1 .. i) > (pe + 1) * perPe
          THEN end[i + 1, pe + 1, Append(ends, i - 1)]
        ELSE end[i + 1, pe, ends]
  IN end[1, 0, <<>>]

BlockPe(ends, i) ==
  LET before == Cardinality({k \in DOMAIN ends : ends[k] < i})
  IN IF before < NPes THEN before ELSE NPes - 1

ProcessOf(pe) == pe \div PerProcess

\* The pieces of a process, dealt to its PEs in turn or each to the one with the
\* fewest particles so far: ranks has the PE within the process of the pieces dealt.
FirstOf(block, i) ==
  Min({j \in Pieces : \A k \in j .. i : ProcessOf(block[k]) = ProcessOf(block[i])})

Load(first, i, ranks, r) == MapThenSumSet(Size, {k \in first .. i - 1 : ranks[k] = r})

\* Variant: the deal runs past the PEs of the process.
DealOn(mode, first, i, ranks) == i - first

Deal(mode, first, i, ranks) ==
  IF mode = "rr" THEN (i - first) % PerProcess
  ELSE CHOOSE r \in 0 .. PerProcess - 1 :
         \A q \in 0 .. PerProcess - 1 :
           \/ Load(first, i, ranks, r) < Load(first, i, ranks, q)
           \/ Load(first, i, ranks, r) = Load(first, i, ranks, q) /\ r <= q

DecompArrayMap ==
  LET blocks[ends \in Seq(Nat)] == [i \in Pieces |-> BlockPe(ends, i)]
      deal[block \in [Pieces -> Nat], i \in Nat, ranks \in Seq(Nat)] ==
        IF i > Max(Pieces) THEN [k \in Pieces |-> ProcessOf(block[k]) * PerProcess + ranks[k]]
        ELSE deal[block, i + 1, Append(ranks, Deal(job.mode, FirstOf(block, i), i, ranks))]
  IN IF job.mode = "block" THEN blocks[PeIntervals] ELSE deal[blocks[PeIntervals], 1, <<>>]

\* Where the runtime puts an array that has no map.
DefaultMap == [i \in Pieces |-> i % NPes]

ArrayMap ==
  CASE role = "piece" /\ Matching -> partition_locations
    [] role = "piece" /\ job.partition # "none" -> [i \in Pieces |-> partition_locations[homes[i] + 1]]
    [] Kind = "host" -> [i \in Pieces |-> HostPe(i)]
    [] Kind \in {"oct", "longest"} -> DecompArrayMap
    [] OTHER -> DefaultMap

CreateArray ==
  /\ phase = "found"
  /\ phase' = "created"
  /\ pe_of' = ArrayMap
  /\ IF role = "partition"
       THEN /\ n_partitions' = Cardinality(Pieces)
            /\ partition_locations' = pe_of'
       ELSE UNCHANGED <<n_partitions, partition_locations>>
  /\ UNCHANGED <<job, role, states, splitters, depth, partition_idx, homes, received>>

-----------------------------------------------------------------------------
(* The readers' particles, and the driver.                                 *)

\* The splitters that take a particle.  Sfc starts where the splitter before
\* ended and goes through its own last key.
Takers(p) ==
  CASE Binary -> {Descend(p) - 2^depth + 1}
    [] Kind = "sfc" -> {i \in DOMAIN splitters :
                          /\ job.at[p] <= splitters[i].to
                          /\ \A j \in 1 .. i - 1 : job.at[p] > splitters[j].to}
    [] OTHER -> {i \in DOMAIN splitters : splitters[i].from <= job.at[p] /\ job.at[p] < splitters[i].to}

AllTaken == \A p \in Particles : Takers(p) # {}

\* A marked particle goes through the splitters of the partitions; if the pieces
\* are the same, they are not searched again.
AssignPartitions ==
  /\ phase = "created" /\ role = "partition"
  /\ IF AllTaken
       THEN /\ partition_idx' = [p \in Particles |-> Max(Takers(p)) - 1]
            /\ role' = "piece"
            /\ phase' = IF Matching THEN "found" ELSE "start"
            /\ splitters' = IF Matching THEN splitters ELSE <<>>
            /\ depth' = IF Matching THEN depth ELSE 0
       ELSE /\ phase' = "aborted"
            /\ UNCHANGED <<partition_idx, role, splitters, depth>>
  /\ states' = <<>>
  /\ UNCHANGED <<job, n_partitions, homes, partition_locations, pe_of, received>>

Flush ==
  /\ phase = "created" /\ role = "piece"
  /\ IF AllTaken
       THEN /\ phase' = "flushed"
            /\ received' = [i \in Pieces |-> {p \in Particles : i \in Takers(p)}]
       ELSE /\ phase' = "aborted"
            /\ UNCHANGED received
  /\ UNCHANGED <<job, role, states, splitters, depth, partition_idx, n_partitions, homes,
                 partition_locations, pe_of>>

StartSearch ==
  /\ phase = "start"
  /\ phase' = "search"
  /\ states' = CASE Kind = "sfc" -> SfcStates
                 [] Kind = "kd" -> KdStates
                 [] Kind = "oct" -> <<[from |-> 1, to |-> AllOnes]>>
                 [] OTHER -> <<>>
  /\ UNCHANGED <<job, role, splitters, depth, partition_idx, n_partitions, homes,
                 partition_locations, pe_of, received>>

Start(j) ==
  /\ job = j
  /\ role = IF job.partition = "none" THEN "piece" ELSE "partition"
  /\ phase = "start"
  /\ states = <<>>
  /\ splitters = <<>>
  /\ depth = 0
  /\ partition_idx = [p \in Particles |-> 0]
  /\ n_partitions = 0
  /\ homes = <<>>
  /\ partition_locations = <<>>
  /\ pe_of = <<>>
  /\ received = <<>>

Init == \E j \in Jobs : Start(j)

Next ==
  \/ StartSearch
  \/ Bisect
  \/ SfcFound
  \/ KdLevel
  \/ LongestLevel
  \/ OctRound
  \/ OctFound
  \/ HostFound
  \/ CreateArray
  \/ AssignPartitions
  \/ Flush

Spec == Init /\ [][Next]_vars /\ WF_vars(Next)

-----------------------------------------------------------------------------
(* Properties.                                                             *)

Flushed == phase = "flushed"
Subtrees == Kind \in {"oct", "host"}

\* Nothing is lost or sent twice, and no search ends in an abort: the pieces that
\* the flush sends to divide the particles.  Pieces that are subtrees get exactly
\* what is below their key, and what splits has all its children, as the canopy
\* and the climb from a key to its piece (findLocalNode) require.
RoutesHome ==
  /\ phase # "aborted"
  /\ Flushed =>
       /\ \A p \in Particles : Cardinality({i \in DOMAIN received : p \in received[i]}) = 1
       /\ Subtrees =>
            LET keys == {splitters[i].key : i \in DOMAIN splitters}
                split == UNION {Above(k) : k \in keys}
            IN /\ \A i \in DOMAIN received :
                    received[i] = {p \in Particles : IsKeyPrefix(splitters[i].key, job.at[p])}
               /\ keys \cap split = {}
               /\ \A a \in split : Children(a) \subseteq keys \cup split

\* A kd search that goes on for ever: two neighbouring floats are further apart than the
\* width it gives up at, and their middle is the lower of them.
Stuck ==
  /\ phase = "search" /\ Kind = "kd" /\ job.spacing > Grain
  /\ \E i \in DOMAIN states :
       LET s == states[i]
       IN s.pending /\ s.to - s.from = job.spacing /\ Mid(s) = s.from

\* The middles that a kd search counts up to are multiples of the grain; it counts no
\* particle that is at one of them.
OffMiddles == \A p \in Particles, d \in 1 .. Dims : job.at[p][d] % Grain # 0

Straggles(p) == Kind = "host" /\ ~IsKeyPrefix(job.cell[p], job.at[p])

\* The pieces get as many particles as were counted for them, and these are shares
\* as even as the search promises: no subtree above the threshold, the two halves of
\* a kd split as even as can be when no particles coincide in a dimension or are at a
\* middle, the ends of sfc partitions at their rank or, when a particle has the very key
\* they end with, one further.
Even ==
  /\ Flushed /\ Kind # "sfc" /\ (\A p \in Particles : ~Straggles(p)) =>
       /\ \A i \in DOMAIN received : Cardinality(received[i]) = Size(i)
       /\ Kind = "oct" => \A i \in DOMAIN received : Size(i) <= Threshold
  /\ Flushed /\ Kind = "kd" /\ OffMiddles /\ (\A d \in 1 .. Dims :
                                                IsInjective([p \in Particles |-> job.at[p][d]])) =>
       \A i, j \in DOMAIN received : Cardinality(received[i]) <= Cardinality(received[j]) + 1
  /\ phase = "created" /\ Kind = "sfc" /\ IsInjective(job.at) =>
       \A i \in DOMAIN splitters :
         Cardinality({p \in Particles : \E j \in 1 .. i : j \in Takers(p)})
           - SfcStates[i].goal \in {0, 1}

\* An element has a PE; dealing within a process keeps it in its process; a piece that
\* shares all its particles with one partition is placed with that partition.
PlacedSound ==
  phase = "created" =>
    /\ \A i \in Pieces : pe_of[i] \in 0 .. NPes - 1
    /\ role = "partition" /\ Kind = "oct" =>
         LET ends == PeIntervals
         IN \A i \in Pieces : ProcessOf(pe_of[i]) = ProcessOf(BlockPe(ends, i))
    /\ role = "piece" /\ ~Matching /\ job.partition # "none" =>
         \A i \in Pieces, q \in 0 .. n_partitions - 1 :
           /\ InRange(splitters[i].from, splitters[i].to) # {}
           /\ \A p \in InRange(splitters[i].from, splitters[i].to) : partition_idx[p] = q
           => pe_of[i] = partition_locations[q + 1]

=============================================================================
