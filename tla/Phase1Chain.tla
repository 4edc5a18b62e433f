---------------------------- MODULE Phase1Chain ----------------------------
\* Phase 1 of Friends-of-Friends inside one process: startPhase1Chain to
\* relabelChained.  The PEs of the process claim its tree pieces, find the
\* groups of the particles they hold (phase A), and then walk the pairs of
\* pieces that different PEs hold (phase B), emitting an edge between two tips
\* for particles within the linking length.  No barrier separates the steps:
\* each ends in a deposit counter, and the PE that makes the last deposit does
\* the step that belongs to the process and sends the next message to every PE.
\*
\* A piece is a set of particle orders and the geometry is a set of links, the
\* pairs of particles within the linking length: the walk over two pieces finds
\* the links between them, whatever nodes it prunes or certifies.  A unit of
\* the pool is a pair of pieces; the code splits a pair into pairs of
\* descendants that find the same links.
EXTENDS MinUnion, Sequences, SequencesExt

CONSTANTS
  PEs,       \* the PEs of the process: 0 .. nranks - 1, in the order of the registry
  Pieces,    \* the tree pieces of the process
  Home,      \* Home[p]: the PE where p was registered
  Parts,     \* Parts[p]: the orders of p's particles
  Near,      \* the pairs {p, q} whose boxes are within the linking length
  Layouts,   \* the sets of links the initial state chooses from
  Splits     \* the assignments of PEs to sets (FOF_PE_SETS) to choose from

NPEs == Cardinality(PEs)
Orders == UNION {Parts[p] : p \in Pieces}

ASSUME PEsAssumption == IsFiniteSet(PEs) /\ PEs = 0 .. (NPEs - 1) /\ PEs # {}
ASSUME PiecesAssumption == IsFiniteSet(Pieces)
ASSUME HomeAssumption == Home \in [Pieces -> PEs]
ASSUME PartsAssumption ==
  /\ Orders \subseteq Nat /\ IsFiniteSet(Orders)
  /\ \A p, q \in Pieces : p # q => Parts[p] \cap Parts[q] = {}
ASSUME LayoutsAssumption == \A l \in Layouts : l \subseteq Orders \X Orders
ASSUME NearAssumption == \* a pair has two pieces; links join pieces whose boxes are near
  /\ \A pair \in Near : \E p, q \in Pieces : p # q /\ pair = {p, q}
  /\ \A l \in Layouts, p, q \in Pieces :
       (p # q /\ \E e \in l : e[1] \in Parts[p] /\ e[2] \in Parts[q]) => {p, q} \in Near

VARIABLES
  links,       \* the pairs of orders within the linking length
  peSet,       \* peSetOfPe
  stealA,      \* FOF_STEALA: the pieces are claimed, not kept where they are
  bucket,      \* pe_treepieces: the process's registry, a sequence per PE
  stealPool,   \* steal_pool: the pieces that are in it, with their home
  claimed,     \* steal_claimed
  held,        \* treepieces of each PE
  root,        \* uf_parent, compressed, of all PEs: a particle has one holder
  repLabel,    \* rep_label of the roots
  tip,         \* group_number of every particle
  pc,          \* what each PE does
  inbox,       \* the messages of the chain that wait for each PE
  slices,      \* pool_slices
  units,       \* phaseb_pool
  cursor,      \* phaseb_next
  b2Begin,     \* pb_b2_begin
  b2Cursor,    \* pb_b2_next
  stage,       \* pb_stage
  unit,        \* the unit each PE walks
  buf,         \* edge_buf of each PE, which seen keeps free of duplicates
  edges,       \* edges of the process
  tipMap,      \* tip_map
  done         \* the deposit counters

vars == <<links, peSet, stealA, bucket, stealPool, claimed, held, root, repLabel,
          tip, pc, inbox, slices, units, cursor, b2Begin, b2Cursor, stage, unit, buf,
          edges, tipMap, done>>
inputs == <<links, peSet, stealA>>
registry == <<bucket, stealPool, claimed, held>>
labels == <<root, repLabel, tip>>
pool == <<slices, units, b2Begin, stage>>
drain == <<cursor, b2Cursor, unit, buf>>
merge == <<edges, tipMap>>

Deposits == {"a", "slice", "b1", "mid", "b"}
Unlabelled == -1

-----------------------------------------------------------------------------
Held(q) == UNION {Parts[p] : p \in Range(held[q])}

LinksIn(S) == {e \in links : e[1] \in S /\ e[2] \in S}

\* The deposit counters: fetch_add, which returns the old value, and whether
\* this deposit is the last.
LastButOne(c) == done[c] + 2 = NPEs
LastByOldValue(c) == done[c] = NPEs
LastDeposit(c) == done[c] + 1 = NPEs
Deposit(c) == done' = [done EXCEPT ![c] = @ + 1]

Goto(q, s) == pc' = [pc EXCEPT ![q] = s]

\* A PE is free to take message m.
Takes(q, m) == pc[q] = "wait" /\ m \in inbox[q]

\* The handler of m is over on q: m is gone, and if its deposit was the last,
\* one message next is sent to every PE of the process.
Nothing == "nothing"
Reply(q, m, last, next) ==
  inbox' = [r \in PEs |-> (inbox[r] \ (IF r = q THEN {m} ELSE {}))
                            \cup (IF last THEN {next} ELSE {})]

Init ==
  /\ links \in Layouts
  /\ peSet \in Splits
  /\ stealA \in BOOLEAN
  /\ bucket = [q \in PEs |-> SetToSeq({p \in Pieces : Home[p] = q})]
  /\ stealPool = {} /\ claimed = {}
  /\ held = bucket
  /\ root = Alone(Orders)
  /\ repLabel = [x \in Orders |-> Unlabelled]
  /\ tip = [x \in Orders |-> Unlabelled]
  /\ pc = [q \in PEs |-> "start"]
  /\ inbox = [q \in PEs |-> {}]
  /\ slices = [q \in PEs |-> {}]
  /\ units = <<>> /\ cursor = 0 /\ b2Begin = 0 /\ b2Cursor = 0 /\ stage = 0
  /\ unit = [q \in PEs |-> {}]
  /\ buf = [q \in PEs |-> {}]
  /\ edges = {} /\ tipMap = Alone(Orders)
  /\ done = [c \in Deposits |-> 0]

-----------------------------------------------------------------------------
\* Phase A.

\* The static path: a PE keeps the pieces registered on it, and walks the self
\* pairs and then the cross pairs of what it holds.
WalkRegistered(q) ==
  /\ pc[q] = "start" /\ ~stealA
  /\ root' = UniteAll(root, LinksIn(Held(q)))
  /\ Goto(q, "freeze")
  /\ UNCHANGED <<inputs, registry, repLabel, tip, inbox, pool, drain, merge, done>>

\* ensureStealPool: the first PE flattens the registry into the pool, under the
\* lock; phaseAClaims then empties the PE's own set.
Registered == {p \in Pieces : \E q \in PEs : p \in Range(bucket[q])}

StartClaims(q) ==
  /\ pc[q] = "start" /\ stealA
  /\ stealPool' = IF stealPool = {} THEN Registered ELSE stealPool
  /\ held' = [held EXCEPT ![q] = <<>>]
  /\ Goto(q, "claim")
  /\ UNCHANGED <<inputs, bucket, claimed, labels, inbox, pool, drain, merge, done>>

Unclaimed == stealPool \ claimed

\* One claim, own pieces first: the CAS, phaseAAdmit and the self pair.
Claim(q) ==
  /\ pc[q] = "claim"
  /\ \E p \in Unclaimed :
       /\ (\E o \in Unclaimed : Home[o] = q) => Home[p] = q
       /\ claimed' = claimed \cup {p}
       /\ held' = [held EXCEPT ![q] = Append(@, p)]
       /\ root' = UniteAll(root, LinksIn(Parts[p]))
  /\ UNCHANGED <<inputs, bucket, stealPool, repLabel, tip, pc, inbox, pool, drain,
                 merge, done>>

\* The registry after a PE has claimed: its bucket names what it really holds.
NotRekeyed(q) == bucket
Rekeyed(q) == [bucket EXCEPT ![q] = held[q]]

\* The pool is drained: the cross pairs of the realized set, and the re-key.
CrossPass(q) ==
  /\ pc[q] = "claim"
  /\ Unclaimed = {}
  /\ root' = UniteAll(root, LinksIn(Held(q)))
  /\ bucket' = Rekeyed(q)
  /\ Goto(q, "freeze")
  /\ UNCHANGED <<inputs, stealPool, claimed, held, repLabel, tip, inbox, pool,
                 drain, merge, done>>

\* phaseAFreeze and the a_done deposit: the tip of each particle is the least
\* order of its group on this PE, and rep_label holds the label of each root.
Freeze(q) ==
  /\ pc[q] = "freeze"
  /\ tip' = [x \in Orders |-> IF x \in Held(q) THEN root[x] ELSE tip[x]]
  /\ repLabel' = [x \in Orders |->
                    IF x \in Held(q) /\ root[x] = x THEN x ELSE repLabel[x]]
  /\ Deposit("a")
  /\ Reply(q, Nothing, LastDeposit("a"), "slice")
  /\ Goto(q, "wait")
  /\ UNCHANGED <<inputs, registry, root, pool, drain, merge>>

-----------------------------------------------------------------------------
\* The pool of phase B.

\* The list every PE goes through: the pairs of pieces that two PEs hold, by the
\* places of the pieces in the registry, but those whose PEs are in different
\* sets, which are left to phase 3.
Together(a, b) == a < b /\ peSet[a] = peSet[b]
Places ==
  UNION {{<<ab[1], ab[2], i, j>> : i \in DOMAIN bucket[ab[1]], j \in DOMAIN bucket[ab[2]]} :
           ab \in {x \in PEs \X PEs : Together(x[1], x[2])}}
PairAt(x) == {bucket[x[1]][x[3]], bucket[x[2]][x[4]]}

\* The number of a pair in the list (idx): how many come before it.
Before(x, y) ==
  \E k \in 1 .. 4 : x[k] < y[k] /\ \A i \in 1 .. (k - 1) : x[i] = y[i]
Index(x) == Cardinality({y \in Places : Before(y, x)})

\* The share of one rank: every nranks-th pair, if its boxes are near.
InStripe(k, rank) == k % NPEs = rank
Stripe(rank) ==
  {<<Index(x), PairAt(x)>> : x \in {y \in Places : InStripe(Index(y), rank) /\ PairAt(y) \in Near}}

\* All slices, each unit with the rank of its slice.
Gathered(share) == UNION {{<<r, u>> : u \in share[r]} : r \in PEs}
PairOf(v) == v[2][2]
PairsIn(S) == LET s == SetToSeq(S) IN [k \in 1 .. Len(s) |-> PairOf(s[k])]

\* The last slice assembles the pool and starts phase B: flat, or (FOF_PB_MERGE)
\* with the units inside a region first and those between two regions as a
\* tail.  Which units are inside a region is geometry: any subset.  The order of
\* the units is their cost, a matter of speed: one order stands for all.
Assemble(all) ==
  \E regions \in BOOLEAN, inside \in SUBSET {PairOf(v) : v \in all} :
    /\ regions => all # {}
    /\ ~regions => inside = {}
    /\ LET b1 == PairsIn({v \in all : PairOf(v) \in inside})
           b2 == PairsIn({v \in all : PairOf(v) \notin inside})
       IN  /\ units' = b1 \o b2
           /\ b2Begin' = IF regions THEN Len(b1) ELSE 0
           /\ b2Cursor' = b2Begin'
           /\ stage' = IF regions THEN 1 ELSE 0

BuildPoolSlice(q) ==
  /\ Takes(q, "slice")
  /\ Deposit("slice")
  /\ Reply(q, "slice", LastDeposit("slice"), "phaseB")
  /\ IF LastDeposit("slice")
       THEN /\ Assemble(Gathered([slices EXCEPT ![q] = Stripe(q)]))
            /\ slices' = [r \in PEs |-> {}]
            /\ cursor' = 0
       ELSE /\ slices' = [slices EXCEPT ![q] = Stripe(q)]
            /\ UNCHANGED <<units, b2Begin, b2Cursor, stage, cursor>>
  /\ UNCHANGED <<inputs, registry, labels, pc, unit, buf, merge>>

-----------------------------------------------------------------------------
\* Phase B: phaseBChained and phaseBBody.

\* phaseBChained is delivered; edge_buf and seen are empty at a fresh start,
\* and keep what they have when a slice is re-entered.
EnterPhaseB(q) ==
  /\ Takes(q, "phaseB")
  /\ Reply(q, "phaseB", FALSE, Nothing)
  /\ Goto(q, "drain")
  /\ UNCHANGED <<inputs, registry, labels, pool, drain, merge, done>>

\* Take a unit off the cursor of the stage (fetch_add), or find it drained.
Limit == IF stage = 1 THEN b2Begin ELSE Len(units)
TakeFrom(q, at, limit) ==
  IF at < limit THEN unit' = [unit EXCEPT ![q] = units[at + 1]] /\ Goto(q, "walk")
                ELSE Goto(q, "submit") /\ UNCHANGED unit

ClaimUnit(q) ==
  /\ pc[q] = "drain"
  /\ IF stage = 2
       THEN /\ TakeFrom(q, b2Cursor, Len(units))
            /\ b2Cursor' = b2Cursor + 1 /\ UNCHANGED cursor
       ELSE /\ TakeFrom(q, cursor, Limit)
            /\ cursor' = cursor + 1 /\ UNCHANGED b2Cursor
  /\ UNCHANGED <<inputs, registry, labels, inbox, pool, buf, merge, done>>

\* The walk of a unit reads the tips of two other PEs' particles; then the PE
\* goes on, or, past its deadline, sends itself phaseBChained.
EdgesOf(u) ==
  {Edge(tip[e[1]], tip[e[2]]) :
     e \in {f \in LinksIn(UNION {Parts[p] : p \in u}) : tip[f[1]] # tip[f[2]]}}

WalkUnit(q) ==
  /\ pc[q] = "walk"
  /\ buf' = [buf EXCEPT ![q] = @ \cup EdgesOf(unit[q])]
  /\ unit' = [unit EXCEPT ![q] = {}]
  /\ \/ Goto(q, "drain") /\ UNCHANGED inbox
     \/ Goto(q, "wait") /\ inbox' = [inbox EXCEPT ![q] = @ \cup {"phaseB"}]
  /\ UNCHANGED <<inputs, registry, labels, pool, cursor, b2Cursor, merge, done>>

\* submitEdges, under the lock of the process.
WithLastEdges(q) == buf[q]
WithEdges(q) == edges \cup buf[q]

SubmitEdges(q) ==
  /\ pc[q] = "submit"
  /\ edges' = WithEdges(q)
  /\ buf' = [buf EXCEPT ![q] = {}]
  /\ Goto(q, "deposit")
  /\ UNCHANGED <<inputs, registry, labels, inbox, pool, cursor, b2Cursor, unit,
                 tipMap, done>>

\* mergeBody: a union-find over all the edges so far, B1's with B2's.
MergeBody == UniteAll(Alone(Orders), edges)

\* The b1_done or the b_done deposit; the last PE merges and has all relabel.
DepositB(q) ==
  /\ pc[q] = "deposit"
  /\ LET c == IF stage = 1 THEN "b1" ELSE "b"
     IN  /\ Deposit(c)
         /\ Reply(q, Nothing, LastDeposit(c), IF stage = 1 THEN "mid" ELSE "relabel")
         /\ tipMap' = IF LastDeposit(c) THEN MergeBody ELSE tipMap
  /\ Goto(q, "wait")
  /\ UNCHANGED <<inputs, registry, labels, pool, drain, edges>>

\* relabelBody and materializeLabels: the map is applied to each root's label,
\* and the labels are written into the particles.
LabelOfRoot(x) == repLabel'[root[x]]

RelabelBody(q) ==
  /\ repLabel' = [x \in Orders |->
       IF x \in Held(q) /\ root[x] = x THEN tipMap[repLabel[x]] ELSE repLabel[x]]
  /\ tip' = [x \in Orders |-> IF x \in Held(q) THEN LabelOfRoot(x) ELSE tip[x]]

\* phaseBMidRelabel; the last one opens stage 2.
MidRelabel(q) ==
  /\ Takes(q, "mid")
  /\ RelabelBody(q)
  /\ Deposit("mid")
  /\ Reply(q, "mid", LastDeposit("mid"), "phaseB")
  /\ stage' = IF LastDeposit("mid") THEN 2 ELSE stage
  /\ UNCHANGED <<inputs, registry, root, pc, slices, units, b2Begin, drain, merge>>

\* relabelChained: the PE contributes to the callback of the chain.
RelabelChained(q) ==
  /\ Takes(q, "relabel")
  /\ RelabelBody(q)
  /\ Reply(q, "relabel", FALSE, Nothing)
  /\ Goto(q, "done")
  /\ UNCHANGED <<inputs, registry, root, pool, drain, merge, done>>

\* All PEs have contributed to the callback of the chain.
Finished == \A q \in PEs : pc[q] = "done"

Step(q) ==
  \/ WalkRegistered(q) \/ StartClaims(q) \/ Claim(q) \/ CrossPass(q) \/ Freeze(q)
  \/ BuildPoolSlice(q) \/ EnterPhaseB(q) \/ ClaimUnit(q) \/ WalkUnit(q)
  \/ SubmitEdges(q) \/ DepositB(q) \/ MidRelabel(q) \/ RelabelChained(q)

Next == \E q \in PEs : Step(q)

Spec == Init /\ [][Next]_vars

-----------------------------------------------------------------------------
\* The variables hold values of their types; once phase A is over, every tip is
\* the order of a particle of the process.
TypeOK ==
  /\ stealA \in BOOLEAN
  /\ stealPool \subseteq Pieces /\ claimed \subseteq stealPool
  /\ \A q \in PEs : Range(bucket[q]) \subseteq Pieces /\ Range(held[q]) \subseteq Pieces
  /\ root \in [Orders -> Orders]
  /\ repLabel \in [Orders -> Orders \cup {Unlabelled}]
  /\ tip \in [Orders -> Orders \cup {Unlabelled}]
  /\ (done["a"] = NPEs) => tip \in [Orders -> Orders]
  /\ pc \in [PEs -> {"start", "claim", "freeze", "wait", "drain", "walk", "submit",
                     "deposit", "done"}]
  /\ inbox \in [PEs -> SUBSET {"slice", "phaseB", "mid", "relabel"}]
  /\ stage \in 0..2 /\ b2Begin \in 0 .. Len(units)
  /\ cursor \in 0 .. Len(units) + NPEs /\ b2Cursor \in 0 .. Len(units) + NPEs
  /\ edges \subseteq Orders \X Orders
  /\ tipMap \in [Orders -> Orders]
  /\ done \in [Deposits -> 0 .. NPEs]

\* The links phase 1 answers for: those of one piece or of pieces whose holders
\* are in one set.
HolderOf(x) == CHOOSE q \in PEs : x \in UNION {Parts[p] : p \in Range(bucket[q])}
Answered == {e \in links : peSet[HolderOf(e[1])] = peSet[HolderOf(e[2])]}

\* When the chain ends, the group number of every particle is the least order
\* that links join it to, whoever held which piece, in whatever order the units
\* were walked, and with or without the merge in the middle.
\* (And the variables have their types.)
GroupsExact ==
  /\ TypeOK
  /\ Finished => \A x \in Orders :
                   tip[x] = LeastReached(Answered, x, Cardinality(Orders))

\* No tip changes while a PE walks a unit: the walk, and the annotation that
\* prunes it, read tips that other PEs wrote, with no lock.
FrozenWhileRead == [][(\E q \in PEs : pc[q] = "walk") => tip' = tip]_vars

\* When the pool has been built, the registry names what each PE holds, and
\* every piece is held by one PE: none was claimed twice, or left out.
HoldersExact ==
  (done["slice"] = NPEs) =>
    /\ \A q \in PEs : bucket[q] = held[q]
    /\ \A p \in Pieces : Cardinality({q \in PEs : p \in Range(held[q])}) = 1

\* And two near pieces are either on one PE, whose phase A walked the pair, or in
\* sets that leave it to phase 3, or one unit of the pool, and one only.  (The
\* under-merge that the re-key prevents.)
UnitsExact ==
  (done["slice"] = NPEs) =>
    \A pair \in Near :
      LET homes == {q \in PEs : Range(held[q]) \cap pair # {}}
          sets == {peSet[q] : q \in homes}
          times == Cardinality({k \in DOMAIN units : units[k] = pair})
      IN  times = (IF Cardinality(homes) = 2 /\ Cardinality(sets) = 1 THEN 1 ELSE 0)

PairsOnce == HoldersExact /\ UnitsExact

\* The merge sees every edge: when the last PE deposits in a stage, the edges of
\* the process hold those of every unit the stage had to walk, whoever claimed
\* it, and whoever put it off to a later slice.
UnitsOfStage == ((IF stage = 2 THEN b2Begin ELSE 0) + 1) .. Limit
MergeComplete ==
  [][\A q \in PEs :
       DepositB(q) /\ LastDeposit(IF stage = 1 THEN "b1" ELSE "b")
         => \A k \in UnitsOfStage : EdgesOf(units[k]) \subseteq edges]_vars

=============================================================================
