------------------------------- MODULE RunProof -------------------------------
(***************************************************************************)
(* What else holds in every run of the driver: a build is sound, and a     *)
(* host gets back the labels of what it staged.  The build and the plug-in *)
(* are instances in Iteration, Ship and Host.                              *)
(***************************************************************************)
EXTENDS IterationProof

-----------------------------------------------------------------------------
(* The build.                                                              *)

TheLayouts == {s.layout : s \in Scenarios}

\* The home of a partition and of a piece, and the pairs that messages are for.
At(p) == layout.partOn[p]
Home(t) == layout.pieceOn[t]
IsFar(p, t) == At(p) # Home(t) /\ Ship!LeavesFor(t, p) # {}

Hands(p, t, K) == [type |-> "receiveLeaves", part |-> p, piece |-> t, keys |-> K]
Asks(c, t) == [type |-> "requestCopy", process |-> c, piece |-> t]
Answers(c, t, d) == [type |-> "receiveTreePiece", process |-> c, piece |-> t, data |-> d]
Tells(p, t) == [type |-> "makeLeaves", part |-> p, piece |-> t]
Refreshes(c, t, d) == [type |-> "refreshTreePieceCopy", process |-> c, piece |-> t, data |-> d]

OnWay == Ship!BagToSet(msgs)

\* Where the leaves of piece t for partition p are.
Handing(p, t) == Hands(p, t, Ship!LeavesFor(t, p)) \in OnWay
Finding(p, t) == Hands(p, t, Ship!LeavesFor(t, p)) \in lanes
Telling(p, t) == Tells(p, t) \in OnWay
Registered(p, t) == p \in treepiece_copy_started[At(p)][t]

\* Where the copy of piece t for process c is.
Asking(c, t) == Asks(c, t) \in OnWay
Answering(c, t) == Answers(c, t, version[t]) \in OnWay
InstallingCopy(c, t) == Answers(c, t, version[t]) \in lanes
IsPending(c, t) == Asking(c, t) \/ Answering(c, t) \/ InstallingCopy(c, t)
Wanted(c, t) == treepiece_copy_started[c][t] # {}
Requested(c, t) == c \in Ship!ToSet(copy_requesters[t])
Held(c, t) == t \in local_tps[c]
Refreshing(c, t) == Refreshes(c, t, version[t]) \in OnWay

\* Partition p has yet to get the leaves of piece t, and there is one thing under way
\* that brings them.
Owes(p, t) ==
  \/ t \in toBuild \/ Handing(p, t) \/ Finding(p, t) \/ Telling(p, t)
  \/ Registered(p, t) /\ IsPending(At(p), t)

Types ==
  /\ layout \in TheLayouts
  /\ phase \in {"idle", "building", "built", "annotated", "refreshing", "refreshed"}
  /\ toBuild \subseteq Ship!Pieces /\ toRefresh \subseteq Ship!Pieces
  /\ shipIter \in 0 .. Iterations
  /\ version \in [Ship!Pieces -> Nat \ {Ship!None}] /\ flat_subtree \in [Ship!Pieces -> Nat]
  /\ copy_requesters \in [Ship!Pieces -> Seq(Processes)]
  /\ local_tps \in [Processes -> SUBSET Ship!Pieces]
  /\ leaf_lookup \in [Processes -> SUBSET Ship!AllLeaves]
  /\ copy \in [Processes -> [Ship!Pieces -> Nat]]
  /\ treepiece_copy_started \in [Processes -> [Ship!Pieces -> SUBSET Ship!Partitions]]
  /\ displaced \in [Processes -> SUBSET Ship!AllLeaves]
  /\ lookup_leaf_keys \in [Ship!Partitions -> [Ship!Pieces -> SUBSET Ship!AllLeaves]]
  /\ \A p \in Ship!Partitions, t \in Ship!Pieces : lookup_leaf_keys[p][t] \subseteq Ship!LeavesOf(t)
  /\ DOMAIN leaves = Ship!Partitions

\* What is under way is what the code sends, each message once.
ForBuild(m) ==
  \/ \E p \in Ship!Partitions, t \in Ship!Pieces : m \in {Hands(p, t, Ship!LeavesFor(t, p)), Tells(p, t)}
  \/ \E c \in Processes, t \in Ship!Pieces : m \in {Asks(c, t), Answers(c, t, version[t])}
InLane(m) ==
  \/ \E p \in Ship!Partitions, t \in Ship!Pieces : m = Hands(p, t, Ship!LeavesFor(t, p))
  \/ \E c \in Processes, t \in Ship!Pieces : m = Answers(c, t, version[t])
ForRefresh(m) == \E c \in Processes, t \in Ship!Pieces : m = Refreshes(c, t, version[t])
MsgInv ==
  /\ msgs = Ship!SetToBag(OnWay)
  /\ phase = "building" => \A m \in OnWay : ForBuild(m)
  /\ phase = "refreshing" => \A m \in OnWay : ForRefresh(m)
  /\ phase \notin {"building", "refreshing"} => OnWay = {}
  /\ \A m \in lanes : InLane(m)
  /\ phase # "building" => lanes = {} /\ toBuild = {}
  /\ phase # "refreshing" => toRefresh = {}
  /\ \A c \in Processes, t \in toRefresh : ~ Refreshing(c, t)

\* The leaves of a piece for a partition are in one place.
PairInv(p, t) ==
  /\ Handing(p, t) => ~ Finding(p, t) /\ ~ Registered(p, t) /\ t \notin toBuild /\ IsFar(p, t)
  /\ Finding(p, t) =>
       /\ ~ Registered(p, t) /\ t \notin toBuild /\ IsFar(p, t)
       /\ Held(At(p), t)
  /\ Registered(p, t) =>
       /\ t \notin toBuild /\ IsFar(p, t)
       /\ lookup_leaf_keys[p][t] = Ship!LeavesFor(t, p)
  /\ Telling(p, t) => Registered(p, t) /\ ~ IsPending(At(p), t)

\* The copy of a piece is asked for when the first partition wants it, and then in
\* one place.
CopyInv(c, t) ==
  /\ c = Home(t) =>
       /\ Held(c, t) <=> t \notin toBuild
       /\ ~ Wanted(c, t) /\ ~ IsPending(c, t) /\ ~ Requested(c, t)
  /\ c # Home(t) =>
       /\ ~ Wanted(c, t) => ~ IsPending(c, t) /\ ~ Requested(c, t) /\ ~ Held(c, t)
       /\ Asking(c, t) => ~ Answering(c, t) /\ ~ InstallingCopy(c, t) /\ ~ Requested(c, t) /\ ~ Held(c, t)
       /\ Answering(c, t) => ~ InstallingCopy(c, t) /\ Requested(c, t) /\ ~ Held(c, t)
       /\ Wanted(c, t) /\ ~ Asking(c, t) => Requested(c, t)
       /\ Wanted(c, t) /\ ~ Asking(c, t) /\ ~ Answering(c, t) => Held(c, t)
       /\ Held(c, t) => Ship!LeavesOf(t) \subseteq leaf_lookup[c]
  /\ \A p \in treepiece_copy_started[c][t] : At(p) = c

PieceInv(t) ==
  /\ Ship!IsInjective(copy_requesters[t])
  /\ phase = "building" /\ t \notin toBuild => flat_subtree[t] = version[t]

\* A copy is as new as the piece, or its refresh is to come.
FreshInv(c, t) ==
  c # Home(t) /\ Held(c, t) =>
    /\ phase \in {"building", "built", "refreshed"} => copy[c][t] = version[t]
    /\ phase = "refreshing" => t \in toRefresh \/ Refreshing(c, t) \/ copy[c][t] = version[t]

\* What the partitions have, and what the pieces' processes keep as displaced.
Has(p) == {l \in Ship!AllLeaves : p \in l.of /\ ~ Owes(p, l.piece)}
LeavesInv == \A p \in Ship!Partitions : leaves[p] = Ship!Added(p, Has(p))
Shared(c) ==
  {l \in Ship!AllLeaves : /\ ~ layout.matching /\ Home(l.piece) = c /\ l.piece \notin toBuild
                     /\ Ship!DisplacedFor(l) # {}}
DisplacedInv == \A c \in Processes : displaced[c] = Shared(c)

Working ==
  /\ \A p \in Ship!Partitions, t \in Ship!Pieces : PairInv(p, t)
  /\ \A c \in Processes, t \in Ship!Pieces : CopyInv(c, t) /\ FreshInv(c, t)
  /\ \A t \in Ship!Pieces : PieceInv(t)
  /\ LeavesInv /\ DisplacedInv

\* Between two builds.
AtRest ==
  /\ copy_requesters = [t \in Ship!Pieces |-> << >>]
  /\ local_tps = [c \in Processes |-> {}]
  /\ treepiece_copy_started = Ship!NoPieces
  /\ displaced = [c \in Processes |-> {}]
  /\ leaves = [p \in Ship!Partitions |-> Ship!EmptyBag]

BuildInv ==
  /\ Types /\ MsgInv
  /\ phase = "idle" => AtRest
  /\ phase # "idle" => Working

-----------------------------------------------------------------------------
\* Bags that have each element once.

\* A bag of a set has the elements of the set.
LEMMA BagOfSet ==
  ASSUME NEW S
  PROVE  Ship!BagToSet(Ship!SetToBag(S)) = S
BY DEF Ship!BagToSet, Ship!SetToBag

\* Two sets that share nothing.
LEMMA BagPlus ==
  ASSUME NEW S, NEW T, S \cap T = {}
  PROVE  Ship!(+)(Ship!SetToBag(S), Ship!SetToBag(T)) = Ship!SetToBag(S \cup T)
<1>1. DOMAIN Ship!SetToBag(S) = S /\ DOMAIN Ship!SetToBag(T) = T
  BY DEF Ship!SetToBag
<1>2. \A e \in S \cup T :
        (IF e \in S THEN Ship!SetToBag(S)[e] ELSE 0) + (IF e \in T THEN Ship!SetToBag(T)[e] ELSE 0) = 1
  BY DEF Ship!SetToBag
<1>3. QED
  BY <1>1, <1>2 DEF Ship!(+), Ship!SetToBag

\* One element is taken.
LEMMA BagTake ==
  ASSUME NEW S, NEW e \in S
  PROVE  Ship!(-)(Ship!SetToBag(S), Ship!SetToBag({e})) = Ship!SetToBag(S \ {e})
<1> DEFINE B == [d \in DOMAIN Ship!SetToBag(S) |->
                   IF d \in DOMAIN Ship!SetToBag({e}) THEN Ship!SetToBag(S)[d] - Ship!SetToBag({e})[d]
                   ELSE Ship!SetToBag(S)[d]]
<1>1. DOMAIN Ship!SetToBag(S) = S /\ DOMAIN Ship!SetToBag({e}) = {e} /\ DOMAIN B = S
  BY DEF Ship!SetToBag
<1>2. \A d \in S : B[d] = IF d = e THEN 0 ELSE 1
  BY <1>1 DEF Ship!SetToBag
<1>3. {d \in DOMAIN B : B[d] > 0} = S \ {e}
  BY <1>1, <1>2
<1>4. Ship!(-)(Ship!SetToBag(S), Ship!SetToBag({e})) = [d \in {c \in DOMAIN B : B[c] > 0} |-> B[d]]
  BY DEF Ship!(-)
<1> HIDE DEF B
<1>5. QED
  BY <1>2, <1>3, <1>4 DEF Ship!SetToBag

-----------------------------------------------------------------------------
\* The layout.

\* What a layout is, for the layout of the state.
LEMMA LayoutFacts ==
  ASSUME Ship!LayoutAssumption, layout \in TheLayouts
  PROVE  /\ \A t \in Ship!Pieces : Home(t) \in Processes
         /\ \A p \in Ship!Partitions : At(p) \in Processes
         /\ \A t \in Ship!Pieces : \A l \in Ship!LeavesOf(t) :
              l.piece = t /\ l.of \in SUBSET Ship!Partitions /\ l.of # {}
         /\ layout.matching =>
              \A t \in Ship!Pieces : t \in Ship!Partitions /\ At(t) = Home(t) /\ \A l \in Ship!LeavesOf(t) : l.of = {t}
<1> DEFINE y == layout
<1>1. /\ y.pieceOn \in [DOMAIN y.pieceOn -> Processes]
      /\ y.partOn \in [DOMAIN y.partOn -> Processes]
      /\ y.leaves \in [DOMAIN y.pieceOn -> SUBSET ((SUBSET DOMAIN y.partOn) \ {{}})]
      /\ y.matching =>
           /\ y.partOn = y.pieceOn
           /\ \A t \in DOMAIN y.pieceOn : y.leaves[t] \subseteq {{t}}
  BY DEF Ship!LayoutAssumption, TheLayouts
<1>2. \A t \in Ship!Pieces : Home(t) \in Processes
  BY <1>1 DEF Ship!Pieces, Home
<1>3. \A p \in Ship!Partitions : At(p) \in Processes
  BY <1>1 DEF Ship!Partitions, At
<1>4. ASSUME NEW t \in Ship!Pieces, NEW l \in Ship!LeavesOf(t)
      PROVE  l.piece = t /\ l.of \in y.leaves[t]
  <2>1. PICK S \in y.leaves[t] : l = [piece |-> t, of |-> S]
    BY DEF Ship!LeavesOf
  <2>2. QED
    BY <2>1
<1>5. \A t \in Ship!Pieces : \A S \in y.leaves[t] : S \in SUBSET Ship!Partitions /\ S # {}
  BY <1>1 DEF Ship!Pieces, Ship!Partitions
<1>6. y.matching => \A t \in Ship!Pieces : t \in Ship!Partitions /\ At(t) = Home(t) /\ \A S \in y.leaves[t] : S = {t}
  BY <1>1 DEF Ship!Pieces, Ship!Partitions, At, Home
<1> HIDE DEF y
<1>7. QED
  BY <1>2, <1>3, <1>4, <1>5, <1>6 DEF y

\* The leaves of a piece, and those for a partition.
LEMMA LeafFacts ==
  ASSUME Ship!LayoutAssumption, layout \in TheLayouts
  PROVE  /\ \A l \in Ship!AllLeaves : l.piece \in Ship!Pieces /\ l \in Ship!LeavesOf(l.piece)
         /\ \A p : \A t \in Ship!Pieces : Ship!LeavesFor(t, p) = {l \in Ship!AllLeaves : p \in l.of /\ l.piece = t}
         /\ \A t \in Ship!Pieces : Ship!LeavesOf(t) \in SUBSET Ship!AllLeaves
<1>1. \A t \in Ship!Pieces : \A l \in Ship!LeavesOf(t) : l.piece = t
  BY LayoutFacts
<1>2. \A l \in Ship!AllLeaves : l.piece \in Ship!Pieces /\ l \in Ship!LeavesOf(l.piece)
  BY <1>1 DEF Ship!AllLeaves
<1>3. \A t \in Ship!Pieces : Ship!LeavesOf(t) \in SUBSET Ship!AllLeaves
  BY DEF Ship!AllLeaves
<1>4. ASSUME NEW t \in Ship!Pieces, NEW p
      PROVE  Ship!LeavesFor(t, p) = {l \in Ship!AllLeaves : p \in l.of /\ l.piece = t}
  BY <1>1, <1>2, <1>3 DEF Ship!LeavesFor
<1>5. QED
  BY <1>2, <1>3, <1>4

\* Nothing that the layout decides changes.
LayoutSame ==
  /\ layout' = layout /\ Ship!Pieces' = Ship!Pieces
  /\ Ship!Partitions' = Ship!Partitions /\ Ship!AllLeaves' = Ship!AllLeaves
  /\ Ship!NoPieces' = Ship!NoPieces
  /\ \A p : At(p)' = At(p)
  /\ \A t : Home(t)' = Home(t) /\ Ship!LeavesOf(t)' = Ship!LeavesOf(t)
  /\ \A p, t : (IsFar(p, t)' <=> IsFar(p, t)) /\ Ship!LeavesFor(t, p)' = Ship!LeavesFor(t, p)
  /\ \A p, L : Ship!Added(p, L)' = Ship!Added(p, L)
  /\ \A l : Ship!DisplacedFor(l)' = Ship!DisplacedFor(l)
LEMMA LayoutKept ==
  ASSUME layout' = layout
  PROVE  LayoutSame
<1>1. Ship!Pieces' = Ship!Pieces /\ Ship!Partitions' = Ship!Partitions
  BY DEF Ship!Pieces, Ship!Partitions
<1>2. \A t : Ship!LeavesOf(t)' = Ship!LeavesOf(t) /\ Home(t)' = Home(t)
  BY DEF Ship!LeavesOf, Home
<1>3. \A p : At(p)' = At(p)
  BY DEF At
<1>4. \A p, t : Ship!LeavesFor(t, p)' = Ship!LeavesFor(t, p)
  BY <1>2 DEF Ship!LeavesFor
<1>5. \A p, t : IsFar(p, t)' <=> IsFar(p, t)
  BY <1>2, <1>3, <1>4 DEF IsFar
<1>6. Ship!AllLeaves' = Ship!AllLeaves
  BY <1>1, <1>2 DEF Ship!AllLeaves
<1>7. \A p, L : Ship!Added(p, L)' = Ship!Added(p, L)
  BY DEF Ship!Added
<1>8. \A l : Ship!DisplacedFor(l)' = Ship!DisplacedFor(l)
  BY DEF Ship!DisplacedFor
<1>9. Ship!NoPieces' = Ship!NoPieces
  BY <1>1 DEF Ship!NoPieces
<1>10. QED
  BY <1>1, <1>2, <1>3, <1>4, <1>5, <1>6, <1>7, <1>8, <1>9 DEF LayoutSame

\* Messages differ by what they are and what they are for.
Apart ==
  /\ \A p, t, K, q, u, L : Hands(p, t, K) = Hands(q, u, L) => p = q /\ t = u /\ K = L
  /\ \A p, t, q, u : Tells(p, t) = Tells(q, u) => p = q /\ t = u
  /\ \A c, t, d, u : Asks(c, t) = Asks(d, u) => c = d /\ t = u
  /\ \A c, t, v, d, u, w : Answers(c, t, v) = Answers(d, u, w) => c = d /\ t = u /\ v = w
  /\ \A c, t, v, d, u, w : Refreshes(c, t, v) = Refreshes(d, u, w) => c = d /\ t = u /\ v = w
  /\ \A p, t, K : Hands(p, t, K).type = "receiveLeaves"
  /\ \A p, t : Tells(p, t).type = "makeLeaves"
  /\ \A c, t : Asks(c, t).type = "requestCopy"
  /\ \A c, t, v : Answers(c, t, v).type = "receiveTreePiece"
  /\ \A c, t, v : Refreshes(c, t, v).type = "refreshTreePieceCopy"
LEMMA MessagesApart == Apart
<1>1. \A p, t, K : LET m == Hands(p, t, K) IN m.type = "receiveLeaves" /\ m.part = p /\ m.piece = t /\ m.keys = K
  BY DEF Hands
<1>2. \A p, t : LET m == Tells(p, t) IN m.type = "makeLeaves" /\ m.part = p /\ m.piece = t
  BY DEF Tells
<1>3. \A c, t : LET m == Asks(c, t) IN m.type = "requestCopy" /\ m.process = c /\ m.piece = t
  BY DEF Asks
<1>4. \A c, t, v : LET m == Answers(c, t, v)
                   IN  m.type = "receiveTreePiece" /\ m.process = c /\ m.piece = t /\ m.data = v
  BY DEF Answers
<1>5. \A c, t, v : LET m == Refreshes(c, t, v)
                   IN  m.type = "refreshTreePieceCopy" /\ m.process = c /\ m.piece = t /\ m.data = v
  BY DEF Refreshes
<1>6. QED
  BY <1>1, <1>2, <1>3, <1>4, <1>5 DEF Apart

\* Leaves of different pieces are added one after the other.
LEMMA AddedPlus ==
  ASSUME NEW p, NEW A, NEW B, A \cap B = {}
  PROVE  Ship!(+)(Ship!Added(p, A), Ship!Added(p, B)) = Ship!Added(p, A \cup B)
<1> DEFINE E(l) == [leaf |-> l, own |-> ~ layout.matching /\ l.of # {p}]
           S == {E(l) : l \in A}
           T == {E(l) : l \in B}
<1>1. \A l, k : E(l) = E(k) => l = k
  <2>1. \A l : E(l).leaf = l
    OBVIOUS
  <2> HIDE DEF E
  <2>2. QED
    BY <2>1
<1> HIDE DEF E
<1>2. S \cap T = {} /\ S \cup T = {E(l) : l \in A \cup B}
  BY <1>1
<1>3. /\ Ship!Added(p, A) = Ship!SetToBag(S) /\ Ship!Added(p, B) = Ship!SetToBag(T)
      /\ Ship!Added(p, A \cup B) = Ship!SetToBag({E(l) : l \in A \cup B})
  BY DEF Ship!Added, E
<1> HIDE DEF S, T
<1>4. QED
  BY <1>2, <1>3, BagPlus

\* A partition without leaves.
LEMMA AddedNone == ASSUME NEW p PROVE Ship!Added(p, {}) = Ship!EmptyBag
BY DEF Ship!Added, Ship!EmptyBag, Ship!SetToBag

-----------------------------------------------------------------------------
\* What the steps have in common.

\* A message is taken and others are sent.
LEMMA SentTaken ==
  ASSUME msgs = Ship!SetToBag(OnWay), NEW m \in OnWay, NEW N, N \cap (OnWay \ {m}) = {},
         msgs' = Ship!(+)(Ship!Took(m), Ship!SetToBag(N))
  PROVE  OnWay' = (OnWay \ {m}) \cup N /\ msgs' = Ship!SetToBag(OnWay')
<1>1. Ship!Took(m) = Ship!SetToBag(OnWay \ {m})
  BY BagTake DEF Ship!Took
<1>2. msgs' = Ship!SetToBag((OnWay \ {m}) \cup N)
  BY <1>1, BagPlus
<1>3. QED
  BY <1>2, BagOfSet DEF OnWay

\* A message is taken.
LEMMA SentFewer ==
  ASSUME msgs = Ship!SetToBag(OnWay), NEW m \in OnWay, msgs' = Ship!Took(m)
  PROVE  OnWay' = OnWay \ {m} /\ msgs' = Ship!SetToBag(OnWay')
<1>1. msgs' = Ship!SetToBag(OnWay \ {m})
  BY BagTake DEF Ship!Took
<1>2. QED
  BY <1>1, BagOfSet DEF OnWay

\* Messages are sent.
LEMMA SentMore ==
  ASSUME msgs = Ship!SetToBag(OnWay), NEW N, N \cap OnWay = {}, msgs' = Ship!(+)(msgs, Ship!SetToBag(N))
  PROVE  OnWay' = OnWay \cup N /\ msgs' = Ship!SetToBag(OnWay')
<1>1. msgs' = Ship!SetToBag(OnWay \cup N)
  BY BagPlus
<1>2. QED
  BY <1>1, BagOfSet DEF OnWay

\* The kinds of messages depend on the layout and the versions alone.
KindsSame == \A m : (ForBuild(m)' <=> ForBuild(m)) /\ (InLane(m)' <=> InLane(m)) /\ (ForRefresh(m)' <=> ForRefresh(m))
LEMMA KindsKept ==
  ASSUME LayoutSame, version' = version
  PROVE  KindsSame
<1>1. \A m : ForBuild(m)' <=> ForBuild(m)
  BY DEF LayoutSame, ForBuild
<1>2. \A m : InLane(m)' <=> InLane(m)
  BY DEF LayoutSame, InLane
<1>3. \A m : ForRefresh(m)' <=> ForRefresh(m)
  BY DEF LayoutSame, ForRefresh
<1>4. QED
  BY <1>1, <1>2, <1>3 DEF KindsSame

\* The leaves of a partition when what it is owed is as before.
LEMMA LeavesSame ==
  ASSUME Ship!LayoutAssumption, layout \in TheLayouts, LayoutSame, leaves' = leaves, LeavesInv,
         \A q \in Ship!Partitions, u \in Ship!Pieces : Owes(q, u)' <=> Owes(q, u)
  PROVE  LeavesInv'
<1>1. \A l \in Ship!AllLeaves : l.piece \in Ship!Pieces
  BY LeafFacts
<1>2. Ship!AllLeaves' = Ship!AllLeaves
  BY DEF LayoutSame
<1>3. ASSUME NEW q \in Ship!Partitions PROVE Has(q)' = Has(q)
  BY <1>1, <1>2 DEF Has
<1>4. QED
  BY <1>3 DEF LeavesInv, LayoutSame

\* The leaves of a partition that gets those of one piece.
LEMMA LeavesMore ==
  ASSUME Ship!LayoutAssumption, layout \in TheLayouts, LayoutSame, LeavesInv, DOMAIN leaves = Ship!Partitions,
         NEW p \in Ship!Partitions, NEW t \in Ship!Pieces, Owes(p, t),
         leaves' = [leaves EXCEPT ![p] = Ship!(+)(@, Ship!Added(p, Ship!LeavesFor(t, p)))],
         \A q \in Ship!Partitions, u \in Ship!Pieces : Owes(q, u)' <=> Owes(q, u) /\ ~ (q = p /\ u = t)
  PROVE  LeavesInv'
<1>1. /\ \A l \in Ship!AllLeaves : l.piece \in Ship!Pieces
      /\ Ship!LeavesFor(t, p) = {l \in Ship!AllLeaves : p \in l.of /\ l.piece = t}
  BY LeafFacts
<1>2. Ship!AllLeaves' = Ship!AllLeaves
  BY DEF LayoutSame
<1>3. ASSUME NEW q \in Ship!Partitions, q # p PROVE Has(q)' = Has(q)
  BY <1>1, <1>2, <1>3 DEF Has
<1>4. Has(p)' = Has(p) \cup Ship!LeavesFor(t, p) /\ Has(p) \cap Ship!LeavesFor(t, p) = {}
  BY <1>1, <1>2 DEF Has
<1>5. Ship!(+)(Ship!Added(p, Has(p)), Ship!Added(p, Ship!LeavesFor(t, p))) =
        Ship!Added(p, Has(p) \cup Ship!LeavesFor(t, p))
  BY <1>4, AddedPlus
<1>6. \A q \in Ship!Partitions : leaves'[q] = Ship!Added(q, Has(q)')
  BY <1>3, <1>4, <1>5 DEF LeavesInv
<1>7. QED
  BY <1>6 DEF LeavesInv, LayoutSame

\* What the home keeps as displaced, in a step that builds no tree.
LEMMA DisplacedSame ==
  ASSUME LayoutSame, displaced' = displaced, toBuild' = toBuild, DisplacedInv
  PROVE  DisplacedInv'
BY DEF LayoutSame, DisplacedInv, Shared

-----------------------------------------------------------------------------
\* The build.

\* A partition finds the leaves of a copy that is there.
LEMMA StepMakeLeavesFound ==
  ASSUME Ship!LayoutAssumption, BuildInv, NEW m \in lanes, Ship!MakeLeavesFound(m)
  PROVE  BuildInv'
<1>1. phase = "building" /\ layout \in TheLayouts /\ Types /\ MsgInv /\ Working
  BY DEF BuildInv, MsgInv, Types
<1>2. PICK p \in Ship!Partitions, t \in Ship!Pieces : m = Hands(p, t, Ship!LeavesFor(t, p))
  BY <1>1, MessagesApart DEF Ship!MakeLeavesFound, MsgInv, InLane, Apart
<1>3. m.part = p /\ m.piece = t /\ m.keys = Ship!LeavesFor(t, p)
  BY <1>2 DEF Hands
<1>4. /\ lanes' = lanes \ {m}
      /\ leaves' = [leaves EXCEPT ![p] = Ship!(+)(@, Ship!Added(p, Ship!LeavesFor(t, p)))]
      /\ UNCHANGED <<layout, phase, toBuild, toRefresh, shipIter, version, flat_subtree, copy_requesters, local_tps,
                     leaf_lookup, copy, treepiece_copy_started, displaced, lookup_leaf_keys, msgs>>
  BY <1>3 DEF Ship!MakeLeavesFound, Ship!driverVars, Ship!pieceVars, Ship!cacheVars
<1>5. LayoutSame /\ KindsSame /\ OnWay' = OnWay
  BY <1>4, LayoutKept, KindsKept DEF OnWay
<1>6. \A q \in Ship!Partitions, u \in Ship!Pieces :
        /\ Handing(q, u)' <=> Handing(q, u)
        /\ Telling(q, u)' <=> Telling(q, u)
        /\ Registered(q, u)' <=> Registered(q, u)
        /\ Finding(q, u)' <=> Finding(q, u) /\ ~ (q = p /\ u = t)
  BY <1>2, <1>4, <1>5, MessagesApart DEF LayoutSame, Handing, Telling, Registered, Finding, Apart
<1>7. \A c \in Processes, u \in Ship!Pieces :
        /\ Asking(c, u)' <=> Asking(c, u)
        /\ Answering(c, u)' <=> Answering(c, u)
        /\ InstallingCopy(c, u)' <=> InstallingCopy(c, u)
        /\ Wanted(c, u)' <=> Wanted(c, u)
        /\ Requested(c, u)' <=> Requested(c, u)
        /\ Held(c, u)' <=> Held(c, u)
        /\ Refreshing(c, u)' <=> Refreshing(c, u)
  BY <1>2, <1>4, <1>5, MessagesApart
  DEF Asking, Answering, InstallingCopy, Wanted, Requested, Held, Refreshing, Apart
<1>8. \A q \in Ship!Partitions : At(q) \in Processes
  BY <1>1, LayoutFacts
<1>9. \A c \in Processes, u \in Ship!Pieces : IsPending(c, u)' <=> IsPending(c, u)
  BY <1>7 DEF IsPending
<1>10. Types' /\ MsgInv'
  BY <1>1, <1>4, <1>5 DEF Types, MsgInv, LayoutSame, KindsSame
<1>11. \A q \in Ship!Partitions, u \in Ship!Pieces : PairInv(q, u)'
  BY <1>1, <1>4, <1>5, <1>6, <1>7, <1>8, <1>9 DEF Working, PairInv, LayoutSame
<1>12. \A c \in Processes, u \in Ship!Pieces : CopyInv(c, u)' /\ FreshInv(c, u)'
  BY <1>1, <1>4, <1>5, <1>7, <1>9 DEF Working, CopyInv, FreshInv, LayoutSame
<1>13. \A u \in Ship!Pieces : PieceInv(u)'
  BY <1>1, <1>4 DEF Working, PieceInv
<1>14. Finding(p, t)
  BY <1>2 DEF Finding
<1>15. Owes(p, t) /\ \A q \in Ship!Partitions, u \in Ship!Pieces : Owes(q, u)' <=> Owes(q, u) /\ ~ (q = p /\ u = t)
  <2>1. PairInv(p, t)
    BY <1>1 DEF Working
  <2>2. \A q \in Ship!Partitions, u \in Ship!Pieces : PairInv(q, u)
    BY <1>1 DEF Working
  <2>3. QED
    BY <1>4, <1>5, <1>6, <1>8, <1>9, <1>14, <2>1, <2>2 DEF Owes, PairInv, LayoutSame
<1>16. LeavesInv' /\ DisplacedInv'
  BY <1>1, <1>4, <1>5, <1>15, LeavesMore, DisplacedSame DEF Working, Types
<1>17. QED
  BY <1>1, <1>4, <1>5, <1>10, <1>11, <1>12, <1>13, <1>16 DEF BuildInv, Working, LayoutSame

\* A partition finds the copy, and goes on without the lock.
LEMMA StepReceiveHere ==
  ASSUME Ship!LayoutAssumption, BuildInv, NEW m \in OnWay, Ship!ReceiveLeaves(m),
         m.piece \in local_tps[layout.partOn[m.part]]
  PROVE  BuildInv'
<1>1. phase = "building" /\ layout \in TheLayouts /\ Types /\ MsgInv /\ Working
  BY MessagesApart DEF BuildInv, MsgInv, Types, Ship!ReceiveLeaves, ForRefresh, Apart
<1>2. PICK p \in Ship!Partitions, t \in Ship!Pieces : m = Hands(p, t, Ship!LeavesFor(t, p))
  BY <1>1, MessagesApart DEF Ship!ReceiveLeaves, MsgInv, ForBuild, Apart
<1>3. m.part = p /\ m.piece = t
  BY <1>2 DEF Hands
<1>4. /\ lanes' = lanes \cup {m} /\ msgs' = Ship!Took(m)
      /\ UNCHANGED <<layout, phase, toBuild, toRefresh, shipIter, version, flat_subtree, copy_requesters, local_tps,
                     leaf_lookup, copy, treepiece_copy_started, displaced, lookup_leaf_keys, leaves>>
  BY <1>3 DEF Ship!ReceiveLeaves, Ship!driverVars, Ship!pieceVars
<1>5. LayoutSame /\ KindsSame /\ OnWay' = OnWay \ {m} /\ msgs' = Ship!SetToBag(OnWay')
  BY <1>1, <1>4, LayoutKept, KindsKept, SentFewer DEF MsgInv
<1>6. \A q \in Ship!Partitions, u \in Ship!Pieces :
        /\ Handing(q, u)' <=> Handing(q, u) /\ ~ (q = p /\ u = t)
        /\ Telling(q, u)' <=> Telling(q, u)
        /\ Registered(q, u)' <=> Registered(q, u)
        /\ Finding(q, u)' <=> Finding(q, u) \/ (q = p /\ u = t)
  BY <1>2, <1>4, <1>5, MessagesApart DEF LayoutSame, Handing, Telling, Registered, Finding, Apart
<1>7. \A c \in Processes, u \in Ship!Pieces :
        /\ Asking(c, u)' <=> Asking(c, u)
        /\ Answering(c, u)' <=> Answering(c, u)
        /\ InstallingCopy(c, u)' <=> InstallingCopy(c, u)
        /\ Wanted(c, u)' <=> Wanted(c, u)
        /\ Requested(c, u)' <=> Requested(c, u)
        /\ Held(c, u)' <=> Held(c, u)
  BY <1>2, <1>4, <1>5, MessagesApart DEF Asking, Answering, InstallingCopy, Wanted, Requested, Held, Apart
<1>8. \A q \in Ship!Partitions : At(q) \in Processes
  BY <1>1, LayoutFacts
<1>9. \A c \in Processes, u \in Ship!Pieces : IsPending(c, u)' <=> IsPending(c, u)
  BY <1>7 DEF IsPending
<1>10. Types' /\ MsgInv'
  <2>1. InLane(m)
    BY <1>2 DEF InLane
  <2>2. QED
    BY <1>1, <1>4, <1>5, <2>1 DEF Types, MsgInv, LayoutSame, KindsSame
<1>11. Handing(p, t) /\ Held(At(p), t)
  BY <1>2, <1>3 DEF Handing, Held, At
<1>12. \A q \in Ship!Partitions, u \in Ship!Pieces : PairInv(q, u)'
  BY <1>1, <1>4, <1>5, <1>6, <1>7, <1>8, <1>9, <1>11 DEF Working, PairInv, LayoutSame
<1>13. \A c \in Processes, u \in Ship!Pieces : CopyInv(c, u)' /\ FreshInv(c, u)'
  BY <1>1, <1>4, <1>5, <1>7, <1>9 DEF Working, CopyInv, FreshInv, LayoutSame
<1>14. \A u \in Ship!Pieces : PieceInv(u)'
  BY <1>1, <1>4 DEF Working, PieceInv
<1>15. \A q \in Ship!Partitions, u \in Ship!Pieces : Owes(q, u)' <=> Owes(q, u)
  BY <1>4, <1>5, <1>6, <1>8, <1>9, <1>11 DEF Owes, LayoutSame
<1>16. LeavesInv' /\ DisplacedInv'
  BY <1>1, <1>4, <1>5, <1>15, LeavesSame, DisplacedSame DEF Working
<1>17. QED
  BY <1>1, <1>4, <1>5, <1>10, <1>12, <1>13, <1>14, <1>16 DEF BuildInv, Working, LayoutSame

\* A partition waits for a copy, and the first one asks for it.
LEMMA StepReceiveWaits ==
  ASSUME Ship!LayoutAssumption, BuildInv, NEW m \in OnWay, Ship!ReceiveLeaves(m),
         m.piece \notin local_tps[layout.partOn[m.part]]
  PROVE  BuildInv'
<1>1. phase = "building" /\ layout \in TheLayouts /\ Types /\ MsgInv /\ Working
  BY MessagesApart DEF BuildInv, MsgInv, Types, Ship!ReceiveLeaves, ForRefresh, Apart
<1>2. PICK p \in Ship!Partitions, t \in Ship!Pieces : m = Hands(p, t, Ship!LeavesFor(t, p))
  BY <1>1, MessagesApart DEF Ship!ReceiveLeaves, MsgInv, ForBuild, Apart
<1>3. m.part = p /\ m.piece = t /\ m.keys = Ship!LeavesFor(t, p)
  BY <1>2 DEF Hands
<1> DEFINE a == At(p)
           N == IF Wanted(a, t) THEN {} ELSE {Asks(a, t)}
<1>4. /\ lookup_leaf_keys' = [lookup_leaf_keys EXCEPT ![p][t] = Ship!LeavesFor(t, p)]
      /\ treepiece_copy_started' = [treepiece_copy_started EXCEPT ![a][t] = @ \cup {p}]
      /\ msgs' = IF Wanted(a, t) THEN Ship!Took(m) ELSE Ship!(+)(Ship!Took(m), Ship!SetToBag(N))
      /\ UNCHANGED <<layout, phase, toBuild, toRefresh, shipIter, version, flat_subtree, copy_requesters, local_tps,
                     leaf_lookup, copy, displaced, leaves, lanes>>
  BY <1>3 DEF Ship!ReceiveLeaves, Ship!driverVars, Ship!pieceVars, At, Wanted, Ship!ShouldRequest, Asks
<1>5. \A q \in Ship!Partitions : At(q) \in Processes
  BY <1>1, LayoutFacts
<1>6. Handing(p, t) /\ ~ Held(a, t) /\ a \in Processes /\ a # Home(t)
  <2>1. Handing(p, t) /\ ~ Held(a, t)
    BY <1>2, <1>3 DEF Handing, Held, At
  <2>2. QED
    BY <1>1, <1>5, <2>1 DEF Working, PairInv, IsFar
<1>7. ~ Wanted(a, t) => ~ IsPending(a, t) /\ ~ Requested(a, t)
  BY <1>1, <1>6 DEF Working, CopyInv
<1>8. OnWay' = (OnWay \ {m}) \cup N /\ msgs' = Ship!SetToBag(OnWay')
  <2>1. CASE Wanted(a, t)
    BY <1>1, <1>4, <2>1, SentFewer DEF MsgInv
  <2>2. CASE ~ Wanted(a, t)
    <3>1. N \cap OnWay = {}
      BY <1>7, <2>2 DEF IsPending, Asking
    <3>2. QED
      BY <1>1, <1>4, <2>2, <3>1, SentTaken DEF MsgInv
  <2>3. QED
    BY <2>1, <2>2
<1>9. LayoutSame /\ KindsSame
  BY <1>4, LayoutKept, KindsKept
<1>10. \A q \in Ship!Partitions, u \in Ship!Pieces :
        /\ Handing(q, u)' <=> Handing(q, u) /\ ~ (q = p /\ u = t)
        /\ Telling(q, u)' <=> Telling(q, u)
        /\ Registered(q, u)' <=> Registered(q, u) \/ (q = p /\ u = t)
        /\ Finding(q, u)' <=> Finding(q, u)
  <2>1. \A q \in Ship!Partitions, u \in Ship!Pieces : Registered(q, u)' <=> Registered(q, u) \/ (q = p /\ u = t)
    BY <1>1, <1>4, <1>5, <1>9 DEF Registered, Types, LayoutSame
  <2>2. QED
    BY <1>2, <1>4, <1>8, <1>9, <2>1, MessagesApart DEF LayoutSame, Handing, Telling, Finding, Apart
<1>11. \A c \in Processes, u \in Ship!Pieces :
        /\ Asking(c, u)' <=> Asking(c, u) \/ (c = a /\ u = t /\ ~ Wanted(a, t))
        /\ Answering(c, u)' <=> Answering(c, u)
        /\ InstallingCopy(c, u)' <=> InstallingCopy(c, u)
        /\ Wanted(c, u)' <=> Wanted(c, u) \/ (c = a /\ u = t)
        /\ Requested(c, u)' <=> Requested(c, u)
        /\ Held(c, u)' <=> Held(c, u)
  <2>1. \A c \in Processes, u \in Ship!Pieces : Wanted(c, u)' <=> Wanted(c, u) \/ (c = a /\ u = t)
    BY <1>1, <1>4, <1>6 DEF Wanted, Types
  <2>2. QED
    BY <1>2, <1>4, <1>8, <2>1, MessagesApart DEF Asking, Answering, InstallingCopy, Requested, Held, Apart
<1> HIDE DEF N
<1>12. \A c \in Processes, u \in Ship!Pieces : IsPending(c, u)' <=> IsPending(c, u) \/ (c = a /\ u = t /\ ~ Wanted(a, t))
  BY <1>11 DEF IsPending
<1>13. Types'
  <2>1. Ship!LeavesFor(t, p) \in SUBSET Ship!AllLeaves
    BY <1>1, LeafFacts
  <2>2. lookup_leaf_keys' \in [Ship!Partitions -> [Ship!Pieces -> SUBSET Ship!AllLeaves]]
    BY <1>1, <1>4, <2>1 DEF Types
  <2>3. treepiece_copy_started' \in [Processes -> [Ship!Pieces -> SUBSET Ship!Partitions]]
    BY <1>1, <1>4, <1>6 DEF Types
  <2>4. \A q \in Ship!Partitions, u \in Ship!Pieces : lookup_leaf_keys'[q][u] \subseteq Ship!LeavesOf(u)
    <3>1. Ship!LeavesFor(t, p) \subseteq Ship!LeavesOf(t)
      BY DEF Ship!LeavesFor
    <3>2. QED
      BY <1>1, <1>4, <3>1 DEF Types
  <2>5. QED
    BY <1>1, <1>4, <1>9, <2>2, <2>3, <2>4 DEF Types, LayoutSame
<1>14. MsgInv'
  <2>1. \A n \in N : ForBuild(n)
    BY <1>6 DEF N, ForBuild
  <2>2. QED
    BY <1>1, <1>4, <1>8, <1>9, <2>1 DEF MsgInv, LayoutSame, KindsSame
<1>15. Wanted(a, t) => IsPending(a, t)
  BY <1>1, <1>6 DEF Working, CopyInv, IsPending
<1>16. \A q \in Ship!Partitions : Registered(q, t) /\ At(q) = a => Wanted(a, t)
  BY DEF Registered, Wanted
<1>17. \A q \in Ship!Partitions, u \in Ship!Pieces : PairInv(q, u)'
  <2>1. PairInv(p, t)
    BY <1>1 DEF Working
  <2>2. ASSUME NEW q \in Ship!Partitions, NEW u \in Ship!Pieces, q # p \/ u # t PROVE PairInv(q, u)'
    <3>1. PairInv(q, u)
      BY <1>1 DEF Working
    <3>2. lookup_leaf_keys'[q][u] = lookup_leaf_keys[q][u]
      BY <1>1, <1>4, <2>2 DEF Types
    <3>3. QED
      BY <1>4, <1>5, <1>9, <1>10, <1>11, <1>12, <1>16, <2>2, <3>1, <3>2 DEF PairInv, LayoutSame
  <2>3. PairInv(p, t)'
    <3>1. lookup_leaf_keys'[p][t] = Ship!LeavesFor(t, p)
      BY <1>1, <1>4 DEF Types
    <3>2. QED
      BY <1>4, <1>6, <1>9, <1>10, <2>1, <3>1 DEF PairInv, LayoutSame
  <2>4. QED
    BY <2>2, <2>3
<1>18. \A c \in Processes, u \in Ship!Pieces : CopyInv(c, u)' /\ FreshInv(c, u)'
  <2>1. ASSUME NEW c \in Processes, NEW u \in Ship!Pieces PROVE \A q \in treepiece_copy_started'[c][u] : At(q)' = c
    <3>1. \A q \in treepiece_copy_started[c][u] : At(q) = c
      BY <1>1 DEF Working, CopyInv
    <3>2. QED
      BY <1>1, <1>4, <1>9, <3>1 DEF Types, LayoutSame
  <2>2. ASSUME NEW c \in Processes, NEW u \in Ship!Pieces PROVE CopyInv(c, u)'
    <3>1. CopyInv(c, u)
      BY <1>1 DEF Working
    <3>2. QED
      BY <1>4, <1>6, <1>7, <1>9, <1>11, <1>12, <1>15, <2>1, <3>1 DEF CopyInv, LayoutSame, IsPending
  <2>3. ASSUME NEW c \in Processes, NEW u \in Ship!Pieces PROVE FreshInv(c, u)'
    BY <1>1, <1>4, <1>9, <1>11 DEF Working, FreshInv, LayoutSame
  <2>4. QED
    BY <2>2, <2>3
<1>19. \A u \in Ship!Pieces : PieceInv(u)'
  BY <1>1, <1>4 DEF Working, PieceInv
<1>20. \A q \in Ship!Partitions, u \in Ship!Pieces : Owes(q, u)' <=> Owes(q, u)
  BY <1>4, <1>5, <1>6, <1>9, <1>10, <1>12, <1>15, <1>16 DEF Owes, LayoutSame
<1>21. LeavesInv' /\ DisplacedInv'
  BY <1>1, <1>4, <1>9, <1>20, LeavesSame, DisplacedSame DEF Working
<1>22. QED
  BY <1>1, <1>4, <1>9, <1>13, <1>14, <1>17, <1>18, <1>19, <1>21 DEF BuildInv, Working, LayoutSame

\* The home of a piece answers a process that asks, with the piece it has built.
LEMMA StepRequestCopy ==
  ASSUME Ship!LayoutAssumption, BuildInv, NEW m \in OnWay, Ship!RequestCopy(m)
  PROVE  BuildInv'
<1>1. phase = "building" /\ layout \in TheLayouts /\ Types /\ MsgInv /\ Working
  BY MessagesApart DEF BuildInv, MsgInv, Types, Ship!RequestCopy, ForRefresh, Apart
<1>2. PICK a \in Processes, t \in Ship!Pieces : m = Asks(a, t)
  BY <1>1, MessagesApart DEF Ship!RequestCopy, MsgInv, ForBuild, Apart
<1>3. m.process = a /\ m.piece = t
  BY <1>2 DEF Asks
<1>4. /\ Asking(a, t) /\ CopyInv(a, t) /\ a # Home(t) /\ Wanted(a, t)
      /\ ~ Answering(a, t) /\ ~ InstallingCopy(a, t) /\ ~ Requested(a, t) /\ ~ Held(a, t)
  BY <1>1, <1>2 DEF Working, CopyInv, Asking, IsPending
<1>5. t \notin toBuild
  <2>1. PICK p \in Ship!Partitions : p \in treepiece_copy_started[a][t]
    BY <1>1, <1>4 DEF Wanted, Types
  <2>2. Registered(p, t)
    BY <1>4, <2>1 DEF CopyInv, Registered
  <2>3. QED
    BY <1>1, <2>2 DEF Working, PairInv
<1>6. flat_subtree[t] = version[t]
  BY <1>1, <1>5 DEF Working, PieceInv
<1>7. /\ copy_requesters' = [copy_requesters EXCEPT ![t] = Append(@, a)]
      /\ msgs' = Ship!(+)(Ship!Took(m), Ship!SetToBag({Answers(a, t, version[t])}))
      /\ UNCHANGED <<layout, phase, toBuild, toRefresh, shipIter, version, flat_subtree, local_tps, leaf_lookup, copy,
                     treepiece_copy_started, displaced, lookup_leaf_keys, leaves, lanes>>
  BY <1>3, <1>6 DEF Ship!RequestCopy, Ship!driverVars, Ship!cacheVars, Ship!partVars, Answers
<1>8. OnWay' = (OnWay \ {m}) \cup {Answers(a, t, version[t])} /\ msgs' = Ship!SetToBag(OnWay')
  <2>1. {Answers(a, t, version[t])} \cap (OnWay \ {m}) = {}
    BY <1>4 DEF Answering
  <2>2. QED
    BY <1>1, <1>7, <2>1, SentTaken DEF MsgInv
<1>9. LayoutSame /\ KindsSame
  BY <1>7, LayoutKept, KindsKept
<1>10. /\ Ship!ToSet(copy_requesters'[t]) = Ship!ToSet(copy_requesters[t]) \cup {a}
       /\ Ship!IsInjective(copy_requesters'[t]) /\ copy_requesters'[t] \in Seq(Processes)
  <2> DEFINE s == copy_requesters[t]
             r == Append(s, a)
  <2>1. s \in Seq(Processes) /\ Ship!IsInjective(s) /\ a \notin Ship!ToSet(s)
    BY <1>1, <1>4 DEF Types, Working, PieceInv, Requested
  <2>2. copy_requesters'[t] = r
    BY <1>1, <1>7 DEF Types
  <2> HIDE DEF s
  <2>3. r \in Seq(Processes) /\ Len(s) \in Nat /\ DOMAIN s = 1 .. Len(s) /\ DOMAIN r = 1 .. Len(s) + 1
    BY <2>1
  <2>4. r[Len(s) + 1] = a /\ \A i \in 1 .. Len(s) : r[i] = s[i]
    BY <2>1
  <2> HIDE DEF r
  <2>5. Ship!ToSet(r) = Ship!ToSet(s) \cup {a}
    BY <2>3, <2>4 DEF Ship!ToSet
  <2>6. Ship!IsInjective(r)
    BY <2>1, <2>3, <2>4 DEF Ship!IsInjective, Ship!ToSet
  <2>7. QED
    BY <2>2, <2>3, <2>5, <2>6 DEF s
<1>11. \A q \in Ship!Partitions, u \in Ship!Pieces :
        /\ Handing(q, u)' <=> Handing(q, u)
        /\ Telling(q, u)' <=> Telling(q, u)
        /\ Registered(q, u)' <=> Registered(q, u)
        /\ Finding(q, u)' <=> Finding(q, u)
  BY <1>2, <1>7, <1>8, <1>9, MessagesApart DEF LayoutSame, Handing, Telling, Registered, Finding, Apart
<1>12. \A c \in Processes, u \in Ship!Pieces :
        /\ Asking(c, u)' <=> Asking(c, u) /\ ~ (c = a /\ u = t)
        /\ Answering(c, u)' <=> Answering(c, u) \/ (c = a /\ u = t)
        /\ InstallingCopy(c, u)' <=> InstallingCopy(c, u)
        /\ Wanted(c, u)' <=> Wanted(c, u)
        /\ Requested(c, u)' <=> Requested(c, u) \/ (c = a /\ u = t)
        /\ Held(c, u)' <=> Held(c, u)
  <2>1. \A c \in Processes, u \in Ship!Pieces : Requested(c, u)' <=> Requested(c, u) \/ (c = a /\ u = t)
    BY <1>1, <1>7, <1>10 DEF Requested, Types
  <2>2. QED
    BY <1>2, <1>7, <1>8, <2>1, MessagesApart DEF Asking, Answering, InstallingCopy, Wanted, Held, Apart
<1>13. \A q \in Ship!Partitions : At(q) \in Processes
  BY <1>1, LayoutFacts
<1>14. \A c \in Processes, u \in Ship!Pieces : IsPending(c, u)' <=> IsPending(c, u)
  BY <1>4, <1>12 DEF IsPending
<1>15. Types' /\ MsgInv'
  <2>1. ForBuild(Answers(a, t, version[t]))
    BY DEF ForBuild
  <2>2. copy_requesters' \in [Ship!Pieces -> Seq(Processes)]
    BY <1>1, <1>7, <1>10 DEF Types
  <2>3. QED
    BY <1>1, <1>7, <1>8, <1>9, <2>1, <2>2 DEF Types, MsgInv, LayoutSame, KindsSame
<1>16. \A q \in Ship!Partitions, u \in Ship!Pieces : PairInv(q, u)'
  BY <1>1, <1>7, <1>9, <1>11, <1>12, <1>13, <1>14 DEF Working, PairInv, LayoutSame
<1>17. \A c \in Processes, u \in Ship!Pieces : CopyInv(c, u)' /\ FreshInv(c, u)'
  BY <1>1, <1>4, <1>7, <1>9, <1>12, <1>14 DEF Working, CopyInv, FreshInv, LayoutSame
<1>18. \A u \in Ship!Pieces : PieceInv(u)'
  BY <1>1, <1>7, <1>10 DEF Working, PieceInv, Types
<1>19. \A q \in Ship!Partitions, u \in Ship!Pieces : Owes(q, u)' <=> Owes(q, u)
  BY <1>7, <1>9, <1>11, <1>13, <1>14 DEF Owes, LayoutSame
<1>20. LeavesInv' /\ DisplacedInv'
  BY <1>1, <1>7, <1>9, <1>19, LeavesSame, DisplacedSame DEF Working
<1>21. QED
  BY <1>1, <1>7, <1>9, <1>15, <1>16, <1>17, <1>18, <1>20 DEF BuildInv, Working, LayoutSame

\* The copy is registered.
LEMMA StepInstallCopy ==
  ASSUME Ship!LayoutAssumption, BuildInv, NEW m \in OnWay, Ship!InstallCopy(m)
  PROVE  BuildInv'
<1>1. phase = "building" /\ layout \in TheLayouts /\ Types /\ MsgInv /\ Working
  BY MessagesApart DEF BuildInv, MsgInv, Types, Ship!InstallCopy, ForRefresh, Apart
<1>2. PICK a \in Processes, t \in Ship!Pieces : m = Answers(a, t, version[t])
  BY <1>1, MessagesApart DEF Ship!InstallCopy, MsgInv, ForBuild, Apart
<1>3. m.process = a /\ m.piece = t /\ m.data = version[t]
  BY <1>2 DEF Answers
<1>4. /\ Answering(a, t) /\ CopyInv(a, t) /\ a # Home(t) /\ Wanted(a, t)
      /\ ~ Asking(a, t) /\ ~ InstallingCopy(a, t) /\ Requested(a, t) /\ ~ Held(a, t)
  BY <1>1, <1>2 DEF Working, CopyInv, Answering, IsPending
<1>5. /\ local_tps' = [local_tps EXCEPT ![a] = @ \cup {t}]
      /\ leaf_lookup' = [leaf_lookup EXCEPT ![a] = @ \cup Ship!LeavesOf(t)]
      /\ copy' = [copy EXCEPT ![a][t] = version[t]]
      /\ lanes' = lanes \cup {m} /\ msgs' = Ship!Took(m)
      /\ UNCHANGED <<layout, phase, toBuild, toRefresh, shipIter, version, flat_subtree, copy_requesters,
                     treepiece_copy_started, displaced, lookup_leaf_keys, leaves>>
  BY <1>3 DEF Ship!InstallCopy, Ship!driverVars, Ship!pieceVars, Ship!partVars, Ship!RegisteredLeaves
<1>6. LayoutSame /\ KindsSame /\ OnWay' = OnWay \ {m} /\ msgs' = Ship!SetToBag(OnWay')
  BY <1>1, <1>5, LayoutKept, KindsKept, SentFewer DEF MsgInv
<1>7. \A q \in Ship!Partitions, u \in Ship!Pieces :
        /\ Handing(q, u)' <=> Handing(q, u)
        /\ Telling(q, u)' <=> Telling(q, u)
        /\ Registered(q, u)' <=> Registered(q, u)
        /\ Finding(q, u)' <=> Finding(q, u)
  BY <1>2, <1>5, <1>6, MessagesApart DEF LayoutSame, Handing, Telling, Registered, Finding, Apart
<1>8. \A c \in Processes, u \in Ship!Pieces :
        /\ Asking(c, u)' <=> Asking(c, u)
        /\ Answering(c, u)' <=> Answering(c, u) /\ ~ (c = a /\ u = t)
        /\ InstallingCopy(c, u)' <=> InstallingCopy(c, u) \/ (c = a /\ u = t)
        /\ Wanted(c, u)' <=> Wanted(c, u)
        /\ Requested(c, u)' <=> Requested(c, u)
        /\ Held(c, u)' <=> Held(c, u) \/ (c = a /\ u = t)
  <2>1. \A c \in Processes, u \in Ship!Pieces : Held(c, u)' <=> Held(c, u) \/ (c = a /\ u = t)
    BY <1>1, <1>5 DEF Held, Types
  <2>2. QED
    BY <1>2, <1>5, <1>6, <2>1, MessagesApart DEF Asking, Answering, InstallingCopy, Wanted, Requested, Apart
<1>9. \A q \in Ship!Partitions : At(q) \in Processes
  BY <1>1, LayoutFacts
<1>10. \A c \in Processes, u \in Ship!Pieces : IsPending(c, u)' <=> IsPending(c, u)
  BY <1>4, <1>8 DEF IsPending
<1>11. Ship!LeavesOf(t) \in SUBSET Ship!AllLeaves /\ version[t] \in Nat
  BY <1>1, LeafFacts DEF Types
<1>12. Types' /\ MsgInv'
  <2>1. InLane(m)
    BY <1>2 DEF InLane
  <2>2. Types'
    BY <1>1, <1>5, <1>6, <1>11 DEF Types, LayoutSame
  <2>3. QED
    BY <1>1, <1>5, <1>6, <2>1, <2>2 DEF MsgInv, LayoutSame, KindsSame
<1>13. \A q \in Ship!Partitions, u \in Ship!Pieces : PairInv(q, u)'
  BY <1>1, <1>5, <1>6, <1>7, <1>8, <1>9, <1>10 DEF Working, PairInv, LayoutSame
<1>14. ASSUME NEW c \in Processes, NEW u \in Ship!Pieces
       PROVE  CopyInv(c, u)' /\ FreshInv(c, u)'
  <2>1. CopyInv(c, u) /\ FreshInv(c, u)
    BY <1>1 DEF Working
  <2>2. leaf_lookup[c] \in SUBSET leaf_lookup'[c] /\ (c = a => Ship!LeavesOf(t) \in SUBSET leaf_lookup'[c])
    BY <1>1, <1>5, <1>11 DEF Types
  <2>3. copy'[c][u] = IF c = a /\ u = t THEN version[t] ELSE copy[c][u]
    BY <1>1, <1>5 DEF Types
  <2>4. CopyInv(c, u)'
    BY <1>4, <1>5, <1>6, <1>8, <1>10, <2>1, <2>2 DEF CopyInv, LayoutSame
  <2>5. FreshInv(c, u)'
    BY <1>1, <1>4, <1>5, <1>6, <1>8, <2>1, <2>3 DEF FreshInv, LayoutSame
  <2>6. QED
    BY <2>4, <2>5
<1>15. \A u \in Ship!Pieces : PieceInv(u)'
  BY <1>1, <1>5 DEF Working, PieceInv
<1>16. \A q \in Ship!Partitions, u \in Ship!Pieces : Owes(q, u)' <=> Owes(q, u)
  BY <1>5, <1>6, <1>7, <1>9, <1>10 DEF Owes, LayoutSame
<1>17. LeavesInv' /\ DisplacedInv'
  BY <1>1, <1>5, <1>6, <1>16, LeavesSame, DisplacedSame DEF Working
<1>18. QED
  BY <1>1, <1>5, <1>6, <1>12, <1>13, <1>14, <1>15, <1>17 DEF BuildInv, Working, LayoutSame

\* The partitions that waited for the copy are told.
LEMMA StepTellPartitions ==
  ASSUME Ship!LayoutAssumption, BuildInv, NEW m \in lanes, Ship!TellPartitions(m)
  PROVE  BuildInv'
<1>1. phase = "building" /\ layout \in TheLayouts /\ Types /\ MsgInv /\ Working
  BY DEF BuildInv, MsgInv, Types
<1>2. PICK a \in Processes, t \in Ship!Pieces : m = Answers(a, t, version[t])
  BY <1>1, MessagesApart DEF Ship!TellPartitions, MsgInv, InLane, Apart
<1>3. m.process = a /\ m.piece = t
  BY <1>2 DEF Answers
<1>4. /\ InstallingCopy(a, t) /\ CopyInv(a, t) /\ a # Home(t) /\ Wanted(a, t)
      /\ ~ Asking(a, t) /\ ~ Answering(a, t) /\ Requested(a, t) /\ Held(a, t)
  BY <1>1, <1>2 DEF Working, CopyInv, InstallingCopy, IsPending
<1> DEFINE W == treepiece_copy_started[a][t]
           N == {Tells(p, t) : p \in W}
<1>5. /\ lanes' = lanes \ {m} /\ msgs' = Ship!(+)(msgs, Ship!SetToBag(N))
      /\ UNCHANGED <<layout, phase, toBuild, toRefresh, shipIter, version, flat_subtree, copy_requesters, local_tps,
                     leaf_lookup, copy, treepiece_copy_started, displaced, lookup_leaf_keys, leaves>>
  BY <1>3 DEF Ship!TellPartitions, Ship!driverVars, Ship!pieceVars, Ship!cacheVars, Ship!partVars, Tells
<1>6. \A p \in W : p \in Ship!Partitions /\ At(p) = a
  BY <1>1, <1>4 DEF Types, CopyInv
<1>7. \A p \in Ship!Partitions : p \in W <=> Registered(p, t) /\ At(p) = a
  BY <1>6 DEF Registered
<1>8. \A p \in W : ~ Telling(p, t)
  BY <1>1, <1>4, <1>6 DEF Working, PairInv, IsPending
<1>9. OnWay' = OnWay \cup N /\ msgs' = Ship!SetToBag(OnWay')
  <2>1. N \cap OnWay = {}
    BY <1>8 DEF Telling
  <2>2. QED
    BY <1>1, <1>5, <2>1, SentMore DEF MsgInv
<1>10. LayoutSame /\ KindsSame
  BY <1>5, LayoutKept, KindsKept
<1>11. \A q \in Ship!Partitions, u \in Ship!Pieces :
        /\ Handing(q, u)' <=> Handing(q, u)
        /\ Telling(q, u)' <=> Telling(q, u) \/ (u = t /\ q \in W)
        /\ Registered(q, u)' <=> Registered(q, u)
        /\ Finding(q, u)' <=> Finding(q, u)
  BY <1>2, <1>5, <1>9, <1>10, MessagesApart DEF LayoutSame, Handing, Telling, Registered, Finding, Apart
<1>12. \A c \in Processes, u \in Ship!Pieces :
        /\ Asking(c, u)' <=> Asking(c, u)
        /\ Answering(c, u)' <=> Answering(c, u)
        /\ InstallingCopy(c, u)' <=> InstallingCopy(c, u) /\ ~ (c = a /\ u = t)
        /\ Wanted(c, u)' <=> Wanted(c, u)
        /\ Requested(c, u)' <=> Requested(c, u)
        /\ Held(c, u)' <=> Held(c, u)
  BY <1>2, <1>5, <1>9, MessagesApart DEF Asking, Answering, InstallingCopy, Wanted, Requested, Held, Apart
<1>13. \A q \in Ship!Partitions : At(q) \in Processes
  BY <1>1, LayoutFacts
<1>14. \A c \in Processes, u \in Ship!Pieces : IsPending(c, u)' <=> IsPending(c, u) /\ ~ (c = a /\ u = t)
  BY <1>4, <1>12 DEF IsPending
<1>15. Types' /\ MsgInv'
  <2>1. \A n \in N : ForBuild(n)
    BY <1>6 DEF ForBuild
  <2>2. QED
    BY <1>1, <1>5, <1>9, <1>10, <2>1 DEF Types, MsgInv, LayoutSame, KindsSame
<1> HIDE DEF W, N
<1>16. \A q \in Ship!Partitions, u \in Ship!Pieces : PairInv(q, u)'
  BY <1>1, <1>5, <1>7, <1>10, <1>11, <1>12, <1>13, <1>14 DEF Working, PairInv, LayoutSame
<1>17. \A c \in Processes, u \in Ship!Pieces : CopyInv(c, u)' /\ FreshInv(c, u)'
  BY <1>1, <1>4, <1>5, <1>10, <1>12, <1>14 DEF Working, CopyInv, FreshInv, LayoutSame
<1>18. \A u \in Ship!Pieces : PieceInv(u)'
  BY <1>1, <1>5 DEF Working, PieceInv
<1>19. \A q \in Ship!Partitions, u \in Ship!Pieces : Owes(q, u)' <=> Owes(q, u)
  BY <1>4, <1>5, <1>7, <1>10, <1>11, <1>13, <1>14 DEF Owes, LayoutSame, IsPending
<1>20. LeavesInv' /\ DisplacedInv'
  BY <1>1, <1>5, <1>10, <1>19, LeavesSame, DisplacedSame DEF Working
<1>21. QED
  BY <1>1, <1>5, <1>10, <1>15, <1>16, <1>17, <1>18, <1>20 DEF BuildInv, Working, LayoutSame

\* A partition that was told makes the leaves it looked up.
LEMMA StepMakeLeaves ==
  ASSUME Ship!LayoutAssumption, BuildInv, NEW m \in OnWay, Ship!MakeLeaves(m)
  PROVE  BuildInv'
<1>1. phase = "building" /\ layout \in TheLayouts /\ Types /\ MsgInv /\ Working
  BY MessagesApart DEF BuildInv, MsgInv, Types, Ship!MakeLeaves, ForRefresh, Apart
<1>2. PICK p \in Ship!Partitions, t \in Ship!Pieces : m = Tells(p, t)
  BY <1>1, MessagesApart DEF Ship!MakeLeaves, MsgInv, ForBuild, Apart
<1>3. m.part = p /\ m.piece = t
  BY <1>2 DEF Tells
<1>4. Telling(p, t) /\ PairInv(p, t) /\ Registered(p, t) /\ lookup_leaf_keys[p][t] = Ship!LeavesFor(t, p)
  BY <1>1, <1>2 DEF Working, PairInv, Telling
<1>5. /\ leaves' = [leaves EXCEPT ![p] = Ship!(+)(@, Ship!Added(p, Ship!LeavesFor(t, p)))] /\ msgs' = Ship!Took(m)
      /\ UNCHANGED <<layout, phase, toBuild, toRefresh, shipIter, version, flat_subtree, copy_requesters, local_tps,
                     leaf_lookup, copy, treepiece_copy_started, displaced, lookup_leaf_keys, lanes>>
  BY <1>3, <1>4 DEF Ship!MakeLeaves, Ship!driverVars, Ship!pieceVars, Ship!cacheVars
<1>6. LayoutSame /\ KindsSame /\ OnWay' = OnWay \ {m} /\ msgs' = Ship!SetToBag(OnWay')
  BY <1>1, <1>5, LayoutKept, KindsKept, SentFewer DEF MsgInv
<1>7. \A q \in Ship!Partitions, u \in Ship!Pieces :
        /\ Handing(q, u)' <=> Handing(q, u)
        /\ Telling(q, u)' <=> Telling(q, u) /\ ~ (q = p /\ u = t)
        /\ Registered(q, u)' <=> Registered(q, u)
        /\ Finding(q, u)' <=> Finding(q, u)
  BY <1>2, <1>5, <1>6, MessagesApart DEF LayoutSame, Handing, Telling, Registered, Finding, Apart
<1>8. \A c \in Processes, u \in Ship!Pieces :
        /\ Asking(c, u)' <=> Asking(c, u)
        /\ Answering(c, u)' <=> Answering(c, u)
        /\ InstallingCopy(c, u)' <=> InstallingCopy(c, u)
        /\ Wanted(c, u)' <=> Wanted(c, u)
        /\ Requested(c, u)' <=> Requested(c, u)
        /\ Held(c, u)' <=> Held(c, u)
  BY <1>2, <1>5, <1>6, MessagesApart DEF Asking, Answering, InstallingCopy, Wanted, Requested, Held, Apart
<1>9. \A q \in Ship!Partitions : At(q) \in Processes
  BY <1>1, LayoutFacts
<1>10. \A c \in Processes, u \in Ship!Pieces : IsPending(c, u)' <=> IsPending(c, u)
  BY <1>8 DEF IsPending
<1>11. Types' /\ MsgInv'
  BY <1>1, <1>5, <1>6 DEF Types, MsgInv, LayoutSame, KindsSame
<1>12. \A q \in Ship!Partitions, u \in Ship!Pieces : PairInv(q, u)'
  BY <1>1, <1>5, <1>6, <1>7, <1>8, <1>9, <1>10 DEF Working, PairInv, LayoutSame
<1>13. \A c \in Processes, u \in Ship!Pieces : CopyInv(c, u)' /\ FreshInv(c, u)'
  BY <1>1, <1>5, <1>6, <1>8, <1>10 DEF Working, CopyInv, FreshInv, LayoutSame
<1>14. \A u \in Ship!Pieces : PieceInv(u)'
  BY <1>1, <1>5 DEF Working, PieceInv
<1>15. Owes(p, t) /\ \A q \in Ship!Partitions, u \in Ship!Pieces : Owes(q, u)' <=> Owes(q, u) /\ ~ (q = p /\ u = t)
  BY <1>4, <1>5, <1>6, <1>7, <1>9, <1>10 DEF Owes, PairInv, LayoutSame
<1>16. LeavesInv' /\ DisplacedInv'
  BY <1>1, <1>5, <1>6, <1>15, LeavesMore, DisplacedSame DEF Working, Types
<1>17. QED
  BY <1>1, <1>5, <1>6, <1>11, <1>12, <1>13, <1>14, <1>16 DEF BuildInv, Working, LayoutSame

\* A piece builds its tree, hands its leaves to the partitions of its process and
\* names them to the others.
LEMMA StepBuildTree ==
  ASSUME Ship!LayoutAssumption, BuildInv, NEW t \in toBuild, Ship!BuildTree(t)
  PROVE  BuildInv'
<1>1. phase = "building" /\ layout \in TheLayouts /\ Types /\ MsgInv /\ Working /\ t \in Ship!Pieces
  BY DEF BuildInv, MsgInv, Types
<1> DEFINE a == Home(t)
           N == {Hands(p, t, Ship!LeavesFor(t, p)) : p \in {q \in Ship!Partitions : IsFar(q, t)}}
           Near == {p \in Ship!Partitions : At(p) = a}
<1>2. {p \in Ship!Partitions \ Near : Ship!LeavesFor(t, p) # {}} = {q \in Ship!Partitions : IsFar(q, t)}
  BY DEF IsFar
<1>3. /\ toBuild' = toBuild \ {t}
      /\ flat_subtree' = [flat_subtree EXCEPT ![t] = version[t]]
      /\ local_tps' = [local_tps EXCEPT ![a] = @ \cup {t}]
      /\ displaced' = IF layout.matching THEN displaced
                      ELSE [displaced EXCEPT ![a] = @ \cup {l \in Ship!LeavesOf(t) : Ship!DisplacedFor(l) # {}}]
      /\ leaves' = [p \in Ship!Partitions |->
           IF p \in Near THEN Ship!(+)(leaves[p], Ship!Added(p, Ship!LeavesFor(t, p))) ELSE leaves[p]]
      /\ msgs' = Ship!(+)(msgs, Ship!SetToBag(N))
      /\ UNCHANGED <<layout, phase, toRefresh, shipIter, version, copy_requesters, leaf_lookup, copy,
                     treepiece_copy_started, lookup_leaf_keys, lanes>>
  BY <1>2 DEF Ship!BuildTree, Home, At, Hands
<1>4. \A q \in Ship!Partitions : ~ Handing(q, t) /\ ~ Finding(q, t) /\ ~ Registered(q, t) /\ ~ Telling(q, t)
  BY <1>1 DEF Working, PairInv
<1>5. OnWay' = OnWay \cup N /\ msgs' = Ship!SetToBag(OnWay')
  <2>1. N \cap OnWay = {}
    BY <1>4 DEF Handing
  <2>2. QED
    BY <1>1, <1>3, <2>1, SentMore DEF MsgInv
<1>6. LayoutSame /\ KindsSame
  BY <1>3, LayoutKept, KindsKept
<1>7. \A q \in Ship!Partitions, u \in Ship!Pieces :
        /\ Handing(q, u)' <=> Handing(q, u) \/ (u = t /\ IsFar(q, t))
        /\ Telling(q, u)' <=> Telling(q, u)
        /\ Registered(q, u)' <=> Registered(q, u)
        /\ Finding(q, u)' <=> Finding(q, u)
  BY <1>1, <1>3, <1>5, <1>6, MessagesApart DEF LayoutSame, Handing, Telling, Registered, Finding, Apart
<1>8. a \in Processes /\ \A q \in Ship!Partitions : At(q) \in Processes
  BY <1>1, LayoutFacts
<1>9. \A c \in Processes, u \in Ship!Pieces :
        /\ Asking(c, u)' <=> Asking(c, u)
        /\ Answering(c, u)' <=> Answering(c, u)
        /\ InstallingCopy(c, u)' <=> InstallingCopy(c, u)
        /\ Wanted(c, u)' <=> Wanted(c, u)
        /\ Requested(c, u)' <=> Requested(c, u)
        /\ Held(c, u)' <=> Held(c, u) \/ (c = a /\ u = t)
  <2>1. \A c \in Processes, u \in Ship!Pieces : Held(c, u)' <=> Held(c, u) \/ (c = a /\ u = t)
    BY <1>1, <1>3, <1>8 DEF Held, Types
  <2>2. QED
    BY <1>3, <1>5, <2>1, MessagesApart DEF Asking, Answering, InstallingCopy, Wanted, Requested, Apart
<1>10. \A c \in Processes, u \in Ship!Pieces : IsPending(c, u)' <=> IsPending(c, u)
  BY <1>9 DEF IsPending
<1>11. Types'
  <2>1. Ship!LeavesOf(t) \in SUBSET Ship!AllLeaves /\ version[t] \in Nat
    BY <1>1, LeafFacts DEF Types
  <2>2. displaced' \in [Processes -> SUBSET Ship!AllLeaves]
    BY <1>1, <1>3, <1>8, <2>1 DEF Types
  <2>3. flat_subtree' \in [Ship!Pieces -> Nat] /\ local_tps' \in [Processes -> SUBSET Ship!Pieces]
    BY <1>1, <1>3, <1>8, <2>1 DEF Types
  <2>4. QED
    BY <1>1, <1>3, <1>6, <2>2, <2>3 DEF Types, LayoutSame
<1>12. MsgInv'
  <2>1. \A n \in N : ForBuild(n)
    BY <1>1 DEF ForBuild
  <2>2. QED
    BY <1>1, <1>3, <1>5, <1>6, <2>1 DEF MsgInv, LayoutSame, KindsSame
<1> HIDE DEF N
<1>13. \A q \in Ship!Partitions, u \in Ship!Pieces : PairInv(q, u)'
  BY <1>1, <1>3, <1>4, <1>6, <1>7, <1>8, <1>9, <1>10 DEF Working, PairInv, LayoutSame
<1>14. \A c \in Processes, u \in Ship!Pieces : CopyInv(c, u)' /\ FreshInv(c, u)'
  BY <1>1, <1>3, <1>6, <1>9, <1>10 DEF Working, CopyInv, FreshInv, LayoutSame
<1>15. \A u \in Ship!Pieces : PieceInv(u)'
  BY <1>1, <1>3, <1>6 DEF Working, PieceInv, LayoutSame, Types
<1>16. \A q \in Ship!Partitions, u \in Ship!Pieces :
         Owes(q, u)' <=> Owes(q, u) /\ ~ (u = t /\ ~ IsFar(q, t))
  BY <1>3, <1>4, <1>6, <1>7, <1>8, <1>10 DEF Owes, LayoutSame
<1>17. LeavesInv'
  <2>1. /\ \A l \in Ship!AllLeaves : l.piece \in Ship!Pieces
        /\ \A p : Ship!LeavesFor(t, p) = {l \in Ship!AllLeaves : p \in l.of /\ l.piece = t}
    BY <1>1, LeafFacts
  <2>2. Ship!AllLeaves' = Ship!AllLeaves
    BY <1>6 DEF LayoutSame
  <2>3. ASSUME NEW p \in Ship!Partitions, p \notin Near PROVE Has(p)' = Has(p)
    BY <1>16, <2>1, <2>2, <2>3 DEF Has, IsFar
  <2>4. ASSUME NEW p \in Ship!Partitions, p \in Near
        PROVE  Has(p)' = Has(p) \cup Ship!LeavesFor(t, p) /\ Has(p) \cap Ship!LeavesFor(t, p) = {}
    <3>1. ~ IsFar(p, t) /\ Owes(p, t)
      BY <2>4 DEF IsFar, Owes
    <3>2. QED
      BY <1>16, <2>1, <2>2, <3>1 DEF Has
  <2>5. \A p \in Ship!Partitions : leaves'[p] = Ship!Added(p, Has(p)')
    BY <1>1, <1>3, <2>3, <2>4, AddedPlus DEF Working, LeavesInv
  <2>6. QED
    BY <1>6, <2>5 DEF LeavesInv, LayoutSame
<1>18. DisplacedInv'
  <2>1. \A l \in Ship!AllLeaves : l.piece \in Ship!Pieces /\ l \in Ship!LeavesOf(l.piece)
    BY <1>1, LeafFacts
  <2>2. Ship!LeavesOf(t) \in SUBSET Ship!AllLeaves /\ \A l \in Ship!LeavesOf(t) : l.piece = t
    BY <1>1, LeafFacts, LayoutFacts
  <2>3. ASSUME NEW c \in Processes, layout.matching PROVE displaced'[c] = Shared(c)'
    BY <1>1, <1>3, <1>6, <2>3 DEF Working, DisplacedInv, Shared, LayoutSame
  <2>4. ASSUME NEW c \in Processes, ~ layout.matching, c # a PROVE displaced'[c] = Shared(c)'
    <3>1. Shared(c)' = Shared(c)
      BY <1>3, <1>6, <2>4 DEF Shared, LayoutSame
    <3>2. QED
      BY <1>1, <1>3, <2>4, <3>1 DEF Working, DisplacedInv, Types
  <2>5. ASSUME NEW c \in Processes, ~ layout.matching, c = a PROVE displaced'[c] = Shared(c)'
    <3>1. Shared(c)' = Shared(c) \cup {l \in Ship!LeavesOf(t) : Ship!DisplacedFor(l) # {}}
      BY <1>3, <1>6, <2>1, <2>2, <2>5 DEF Shared, LayoutSame
    <3>2. QED
      BY <1>1, <1>3, <1>8, <2>5, <3>1 DEF Working, DisplacedInv, Types
  <2>6. ASSUME NEW c \in Processes PROVE displaced'[c] = Shared(c)'
    <3>1. CASE layout.matching
      BY <2>3, <3>1
    <3>2. CASE ~ layout.matching /\ c # a
      BY <2>4, <3>2
    <3>3. CASE ~ layout.matching /\ c = a
      BY <2>5, <3>3
    <3>4. QED
      BY <3>1, <3>2, <3>3
  <2>7. QED
    BY <2>6 DEF DisplacedInv
<1>19. QED
  BY <1>1, <1>3, <1>6, <1>11, <1>12, <1>13, <1>14, <1>15, <1>17, <1>18 DEF BuildInv, Working, LayoutSame

-----------------------------------------------------------------------------
\* The driver and the refresh.

\* At the start nothing is built.
LEMMA InitBuildInv ==
  ASSUME Ship!LayoutAssumption, Ship!Init
  PROVE  BuildInv
<1>1. OnWay = {} /\ msgs = Ship!SetToBag(OnWay)
  BY BagOfSet DEF Ship!Init, OnWay, Ship!EmptyBag
<1>2. Types
  <2>1. \A t \in Ship!Pieces : << >> \in Seq(Processes)
    OBVIOUS
  <2>2. copy_requesters \in [Ship!Pieces -> Seq(Processes)]
    BY <2>1 DEF Ship!Init
  <2>3. Iterations \in Nat
    BY DEF Ship!LayoutAssumption
  <2>4. QED
    BY <2>2, <2>3 DEF Ship!Init, Types, Ship!NoPieces, Ship!None, TheLayouts
<1>3. QED
  BY <1>1, <1>2 DEF Ship!Init, BuildInv, MsgInv, AtRest

\* A build begins: every piece has its tree to build, and no partition has leaves.
LEMMA StepStartBuild ==
  ASSUME Ship!LayoutAssumption, BuildInv, Ship!StartBuild
  PROVE  BuildInv'
<1>1. Types /\ MsgInv /\ AtRest /\ layout \in TheLayouts /\ OnWay = {} /\ lanes = {} /\ toRefresh = {}
  BY DEF BuildInv, Ship!StartBuild, MsgInv, Types
<1>2. /\ phase' = "building" /\ shipIter' = shipIter + 1 /\ shipIter < Iterations /\ toBuild' = Ship!Pieces
      /\ UNCHANGED <<layout, toRefresh, version, flat_subtree, copy_requesters, local_tps, leaf_lookup, copy,
                     treepiece_copy_started, displaced, lookup_leaf_keys, leaves, lanes, msgs>>
  BY DEF Ship!StartBuild, Ship!pieceVars, Ship!cacheVars, Ship!partVars
<1>3. LayoutSame /\ OnWay' = {} /\ lanes' = {} /\ toRefresh' = {} /\ toBuild' = Ship!Pieces'
  BY <1>1, <1>2, LayoutKept DEF OnWay, LayoutSame
<1>4. /\ copy_requesters' = [t \in Ship!Pieces |-> << >>]
      /\ local_tps' = [c \in Processes |-> {}]
      /\ treepiece_copy_started' = [c \in Processes |-> [t \in Ship!Pieces |-> {}]]
      /\ displaced' = [c \in Processes |-> {}]
      /\ leaves' = [p \in Ship!Partitions |-> Ship!EmptyBag]
  BY <1>1, <1>2 DEF AtRest, Ship!NoPieces
<1>5. \A p \in Ship!Partitions : At(p) \in Processes
  BY <1>1, LayoutFacts
<1>6. Types'
  <2>1. shipIter' \in 0 .. Iterations
    BY <1>1, <1>2 DEF Types, Ship!LayoutAssumption
  <2>2. QED
    BY <1>1, <1>2, <1>3, <2>1 DEF Types, LayoutSame
<1>7. MsgInv'
  BY <1>1, <1>2, <1>3 DEF MsgInv
<1>8. \A p \in Ship!Partitions, t \in Ship!Pieces :
        ~ Handing(p, t)' /\ ~ Finding(p, t)' /\ ~ Registered(p, t)' /\ ~ Telling(p, t)'
  BY <1>3, <1>4, <1>5 DEF Handing, Finding, Registered, Telling, LayoutSame
<1>9. \A c \in Processes, t \in Ship!Pieces :
        /\ ~ IsPending(c, t)' /\ ~ Wanted(c, t)' /\ ~ Requested(c, t)' /\ ~ Held(c, t)'
        /\ ~ Asking(c, t)' /\ ~ Answering(c, t)'
        /\ treepiece_copy_started'[c][t] = {}
  BY <1>3, <1>4 DEF IsPending, Asking, Answering, InstallingCopy, Wanted, Requested, Held, Ship!ToSet
<1>10. \A p \in Ship!Partitions, t \in Ship!Pieces : PairInv(p, t)'
  BY <1>8 DEF PairInv
<1>11. \A c \in Processes, t \in Ship!Pieces : CopyInv(c, t)' /\ FreshInv(c, t)'
  BY <1>2, <1>9 DEF CopyInv, FreshInv
<1>12. \A t \in Ship!Pieces : PieceInv(t)'
  BY <1>2, <1>4 DEF PieceInv, Ship!IsInjective
<1>13. LeavesInv' /\ DisplacedInv'
  <2>1. \A l \in Ship!AllLeaves : l.piece \in Ship!Pieces
    BY <1>1, LeafFacts
  <2>2. Ship!AllLeaves' = Ship!AllLeaves
    BY <1>3 DEF LayoutSame
  <2>3. \A p : Has(p)' = {}
    BY <1>2, <2>1, <2>2 DEF Has, Owes
  <2>4. \A c : Shared(c)' = {}
    BY <1>2, <2>1, <2>2 DEF Shared
  <2>5. QED
    BY <1>3, <1>4, <2>3, <2>4, AddedNone DEF LeavesInv, DisplacedInv, LayoutSame
<1>14. QED
  BY <1>2, <1>3, <1>6, <1>7, <1>10, <1>11, <1>12, <1>13 DEF BuildInv, Working, LayoutSame

\* When nothing is under way no partition is owed anything, and the copies that are
\* wanted are here.
LEMMA QuietFacts ==
  ASSUME Ship!LayoutAssumption, BuildInv, phase # "idle", OnWay = {}, lanes = {}, toBuild = {}
  PROVE  /\ \A p \in Ship!Partitions, t \in Ship!Pieces :
              ~ Handing(p, t) /\ ~ Finding(p, t) /\ ~ Telling(p, t) /\ ~ Owes(p, t)
         /\ \A c \in Processes, t \in Ship!Pieces :
              ~ IsPending(c, t) /\ ~ Asking(c, t) /\ ~ Answering(c, t) /\ ~ Refreshing(c, t)
<1>1. \A p \in Ship!Partitions, t \in Ship!Pieces : ~ Handing(p, t) /\ ~ Finding(p, t) /\ ~ Telling(p, t)
  BY DEF Handing, Finding, Telling
<1>2. \A c, t : ~ IsPending(c, t) /\ ~ Asking(c, t) /\ ~ Answering(c, t) /\ ~ Refreshing(c, t)
  BY DEF IsPending, Asking, Answering, InstallingCopy, Refreshing
<1>3. QED
  BY <1>1, <1>2 DEF Owes

\* Between the stages nothing is under way: the driver's steps change the phase, what
\* is to be refreshed or the versions.
LEMMA StepBetween ==
  ASSUME Ship!LayoutAssumption, BuildInv, phase # "idle", OnWay = {}, lanes = {}, toBuild = {},
         phase' \in {"built", "annotated", "refreshing", "refreshed"},
         toRefresh' \in SUBSET Ship!Pieces, phase' # "refreshing" => toRefresh' = {},
         phase' = "refreshing" => toRefresh' = Ship!Pieces,
         version' \in [Ship!Pieces -> Nat \ {Ship!None}],
         phase' = "built" => phase = "building" /\ version' = version,
         phase' = "refreshed" => phase = "refreshing" /\ toRefresh = {} /\ version' = version,
         UNCHANGED <<layout, toBuild, shipIter, flat_subtree, copy_requesters, Ship!cacheVars, Ship!partVars, lanes, msgs>>
  PROVE  BuildInv'
<1>1. /\ UNCHANGED <<layout, toBuild, shipIter, flat_subtree, copy_requesters, local_tps, leaf_lookup, copy,
                     treepiece_copy_started, displaced, lookup_leaf_keys, leaves, lanes, msgs>>
      /\ Types /\ MsgInv /\ Working /\ layout \in TheLayouts
  BY DEF Ship!cacheVars, Ship!partVars, BuildInv, Types
<1>2. LayoutSame /\ OnWay' = {} /\ lanes' = {} /\ toBuild' = {}
  BY <1>1, LayoutKept DEF OnWay
<1>3. \A p \in Ship!Partitions, t \in Ship!Pieces :
        ~ Handing(p, t)' /\ ~ Finding(p, t)' /\ ~ Telling(p, t)' /\ (Registered(p, t)' <=> Registered(p, t))
  BY <1>1, <1>2 DEF Handing, Finding, Telling, Registered, LayoutSame
<1>4. \A c \in Processes, t \in Ship!Pieces :
        /\ ~ IsPending(c, t)' /\ ~ Asking(c, t)' /\ ~ Answering(c, t)' /\ ~ InstallingCopy(c, t)' /\ ~ Refreshing(c, t)'
        /\ Wanted(c, t)' <=> Wanted(c, t)
        /\ Requested(c, t)' <=> Requested(c, t)
        /\ Held(c, t)' <=> Held(c, t)
  BY <1>1, <1>2 DEF IsPending, Asking, Answering, InstallingCopy, Refreshing, Wanted, Requested, Held
<1>5. /\ \A p \in Ship!Partitions, t \in Ship!Pieces :
           ~ Handing(p, t) /\ ~ Finding(p, t) /\ ~ Telling(p, t) /\ ~ Owes(p, t)
      /\ \A c \in Processes, t \in Ship!Pieces :
           ~ IsPending(c, t) /\ ~ Asking(c, t) /\ ~ Answering(c, t) /\ ~ Refreshing(c, t)
  BY QuietFacts
<1>6. Types'
  BY <1>1, <1>2 DEF Types, LayoutSame
<1>7. MsgInv'
  BY <1>1, <1>2 DEF MsgInv, Refreshing
<1>8. \A p \in Ship!Partitions, t \in Ship!Pieces : PairInv(p, t)'
  BY <1>1, <1>2, <1>3 DEF Working, PairInv, LayoutSame
<1>9. \A c \in Processes, t \in Ship!Pieces : CopyInv(c, t)'
  BY <1>1, <1>2, <1>4, <1>5 DEF Working, CopyInv, LayoutSame
<1>10. \A c \in Processes, t \in Ship!Pieces : FreshInv(c, t)'
  BY <1>1, <1>2, <1>4, <1>5 DEF Working, FreshInv, LayoutSame
<1>11. \A t \in Ship!Pieces : PieceInv(t)'
  BY <1>1 DEF Working, PieceInv
<1>12. \A p \in Ship!Partitions, t \in Ship!Pieces : Owes(p, t)' <=> Owes(p, t)
  <2>1. \A p \in Ship!Partitions : At(p) \in Processes
    BY <1>1, LayoutFacts
  <2>2. QED
    BY <1>2, <1>3, <1>4, <1>5, <2>1 DEF Owes, LayoutSame
<1>13. LeavesInv' /\ DisplacedInv'
  BY <1>1, <1>2, <1>12, LeavesSame, DisplacedSame DEF Working
<1>14. QED
  BY <1>2, <1>6, <1>7, <1>8, <1>9, <1>10, <1>11, <1>13 DEF BuildInv, Working, LayoutSame

\* The build, or the refresh, is over when nothing is under way.
LEMMA StepQuiet ==
  ASSUME Ship!LayoutAssumption, BuildInv, Ship!Quiet
  PROVE  BuildInv'
<1>1. OnWay = {}
  BY DEF Ship!Quiet, OnWay, Ship!BagToSet, Ship!EmptyBag, Ship!SetToBag
<1>2. Types
  BY DEF BuildInv
<1>3. QED
  BY <1>1, <1>2, StepBetween DEF Ship!Quiet, Types, Ship!pieceVars

\* An annotation changes every piece.
LEMMA StepAnnotate ==
  ASSUME Ship!LayoutAssumption, BuildInv, Ship!Annotate
  PROVE  BuildInv'
<1>1. Types /\ MsgInv
  BY DEF BuildInv
<1>2. version' \in [Ship!Pieces -> Nat \ {Ship!None}]
  BY <1>1 DEF Types, Ship!Annotate, Ship!None
<1>3. QED
  BY <1>1, <1>2, StepBetween DEF Ship!Annotate, MsgInv, Types

\* A refresh begins.
LEMMA StepStartRefresh ==
  ASSUME Ship!LayoutAssumption, BuildInv, Ship!StartRefresh
  PROVE  BuildInv'
<1>1. Types /\ MsgInv
  BY DEF BuildInv
<1>2. QED
  BY <1>1, StepBetween DEF Ship!StartRefresh, MsgInv, Types, Ship!pieceVars

\* The end of an iteration.
LEMMA StepReset ==
  ASSUME Ship!LayoutAssumption, BuildInv, Ship!Reset
  PROVE  BuildInv'
<1>1. Types /\ MsgInv /\ OnWay = {} /\ lanes = {} /\ toRefresh = {}
  BY DEF BuildInv, Ship!Reset, MsgInv
<1>2. LayoutSame /\ OnWay' = {} /\ lanes' = {} /\ toRefresh' = {} /\ toBuild' = {}
  BY <1>1, LayoutKept DEF Ship!Reset, OnWay, MsgInv
<1>3. Types'
  <2>1. \A t \in Ship!Pieces : << >> \in Seq(Processes)
    OBVIOUS
  <2>2. copy_requesters' \in [Ship!Pieces -> Seq(Processes)]
    BY <2>1 DEF Ship!Reset
  <2>3. QED
    BY <1>1, <1>2, <2>2 DEF Ship!Reset, Types, LayoutSame, Ship!StartedCleared, Ship!NoPieces, Ship!None
<1>4. MsgInv'
  BY <1>1, <1>2 DEF MsgInv, Ship!Reset
<1>5. AtRest'
  BY <1>2 DEF AtRest, Ship!Reset, LayoutSame, Ship!StartedCleared
<1>6. QED
  BY <1>3, <1>4, <1>5 DEF BuildInv, Ship!Reset

\* A piece ships what it has become to those that asked for it.
LEMMA StepRefreshCopies ==
  ASSUME Ship!LayoutAssumption, BuildInv, NEW t \in toRefresh, Ship!RefreshCopies(t)
  PROVE  BuildInv'
<1>1. /\ phase = "refreshing" /\ layout \in TheLayouts /\ Types /\ MsgInv /\ Working /\ t \in Ship!Pieces
      /\ lanes = {} /\ toBuild = {}
  BY DEF BuildInv, MsgInv, Types
<1> DEFINE N == {Refreshes(c, t, version[t]) : c \in Ship!ToSet(copy_requesters[t])}
<1>2. /\ toRefresh' = toRefresh \ {t}
      /\ flat_subtree' = IF copy_requesters[t] = << >> THEN flat_subtree
                         ELSE [flat_subtree EXCEPT ![t] = version[t]]
      /\ msgs' = Ship!(+)(msgs, Ship!SetToBag(N))
      /\ UNCHANGED <<layout, phase, toBuild, shipIter, version, copy_requesters, local_tps, leaf_lookup, copy,
                     treepiece_copy_started, displaced, lookup_leaf_keys, leaves, lanes>>
  BY DEF Ship!RefreshCopies, Ship!Snapshot, Refreshes, Ship!cacheVars, Ship!partVars
<1>3. \A c \in Ship!ToSet(copy_requesters[t]) : c \in Processes /\ ~ Refreshing(c, t)
  <2>1. copy_requesters[t] \in Seq(Processes)
    BY <1>1 DEF Types
  <2>2. \A c \in Ship!ToSet(copy_requesters[t]) : c \in Processes
    BY <2>1 DEF Ship!ToSet
  <2>3. QED
    BY <1>1, <2>2 DEF MsgInv
<1>4. OnWay' = OnWay \cup N /\ msgs' = Ship!SetToBag(OnWay')
  <2>1. N \cap OnWay = {}
    BY <1>3 DEF Refreshing
  <2>2. QED
    BY <1>1, <1>2, <2>1, SentMore DEF MsgInv
<1>5. LayoutSame /\ KindsSame
  BY <1>2, LayoutKept, KindsKept
<1>6. \A m \in OnWay' : \E c \in Processes, u \in Ship!Pieces : m = Refreshes(c, u, version[u])
  BY <1>1, <1>3, <1>4 DEF MsgInv, ForRefresh
<1>7. \A m \in OnWay : \E c \in Processes, u \in Ship!Pieces : m = Refreshes(c, u, version[u])
  BY <1>1 DEF MsgInv, ForRefresh
<1>8. \A p \in Ship!Partitions, u \in Ship!Pieces :
        /\ ~ Handing(p, u)' /\ ~ Finding(p, u)' /\ ~ Telling(p, u)' /\ (Registered(p, u)' <=> Registered(p, u))
        /\ ~ Handing(p, u) /\ ~ Finding(p, u) /\ ~ Telling(p, u)
  BY <1>1, <1>2, <1>5, <1>6, <1>7, MessagesApart DEF Handing, Finding, Telling, Registered, LayoutSame, Apart
<1>9. \A c \in Processes, u \in Ship!Pieces :
        /\ ~ Asking(c, u)' /\ ~ Answering(c, u)' /\ ~ InstallingCopy(c, u)'
        /\ ~ Asking(c, u) /\ ~ Answering(c, u) /\ ~ InstallingCopy(c, u)
  BY <1>1, <1>2, <1>5, <1>6, <1>7, MessagesApart DEF Asking, Answering, InstallingCopy, Apart
<1>10. \A c \in Processes, u \in Ship!Pieces :
        /\ Wanted(c, u)' <=> Wanted(c, u)
        /\ Requested(c, u)' <=> Requested(c, u)
        /\ Held(c, u)' <=> Held(c, u)
        /\ Refreshing(c, u)' <=> Refreshing(c, u) \/ (u = t /\ Requested(c, t))
  BY <1>2, <1>4, MessagesApart DEF Wanted, Requested, Held, Refreshing, Apart
<1>11. \A c \in Processes, u \in Ship!Pieces : ~ IsPending(c, u)' /\ ~ IsPending(c, u)
  BY <1>9 DEF IsPending
<1>12. Types'
  <2>1. version[t] \in Nat
    BY <1>1 DEF Types
  <2>2. flat_subtree' \in [Ship!Pieces -> Nat]
    BY <1>1, <1>2, <2>1 DEF Types
  <2>3. QED
    BY <1>1, <1>2, <1>5, <2>2 DEF Types, LayoutSame
<1>13. MsgInv'
  <2>1. \A m \in OnWay' : ForRefresh(m)'
    BY <1>2, <1>5, <1>6 DEF ForRefresh, LayoutSame
  <2>2. \A c \in Processes, u \in toRefresh' : ~ Refreshing(c, u)'
    BY <1>1, <1>2, <1>10 DEF MsgInv, Types
  <2>3. QED
    BY <1>1, <1>2, <1>4, <2>1, <2>2 DEF MsgInv
<1> HIDE DEF N
<1>14. \A p \in Ship!Partitions, u \in Ship!Pieces : PairInv(p, u)'
  BY <1>1, <1>2, <1>5, <1>8 DEF Working, PairInv, LayoutSame
<1>15. \A c \in Processes, u \in Ship!Pieces : CopyInv(c, u)'
  BY <1>1, <1>2, <1>5, <1>9, <1>10, <1>11 DEF Working, CopyInv, LayoutSame
<1>16. \A c \in Processes, u \in Ship!Pieces : FreshInv(c, u)'
  <2>1. ASSUME NEW c \in Processes, NEW u \in Ship!Pieces, c # Home(u), Held(c, u) PROVE Requested(c, u)
    BY <1>1, <1>9, <2>1 DEF Working, CopyInv
  <2>2. QED
    BY <1>1, <1>2, <1>5, <1>10, <2>1 DEF Working, FreshInv, LayoutSame
<1>17. \A u \in Ship!Pieces : PieceInv(u)'
  BY <1>1, <1>2 DEF Working, PieceInv
<1>18. \A p \in Ship!Partitions, u \in Ship!Pieces : Owes(p, u)' <=> Owes(p, u)
  <2>1. \A p \in Ship!Partitions : At(p) \in Processes
    BY <1>1, LayoutFacts
  <2>2. QED
    BY <1>2, <1>5, <1>8, <1>11, <2>1 DEF Owes, LayoutSame
<1>19. LeavesInv' /\ DisplacedInv'
  BY <1>1, <1>2, <1>5, <1>18, LeavesSame, DisplacedSame DEF Working
<1>20. QED
  BY <1>1, <1>2, <1>5, <1>12, <1>13, <1>14, <1>15, <1>16, <1>17, <1>19 DEF BuildInv, Working, LayoutSame

\* A copy is replaced by what its piece has become.
LEMMA StepRefreshTreePieceCopy ==
  ASSUME Ship!LayoutAssumption, BuildInv, NEW m \in OnWay, Ship!RefreshTreePieceCopy(m)
  PROVE  BuildInv'
<1>1. /\ phase = "refreshing" /\ layout \in TheLayouts /\ Types /\ MsgInv /\ Working
      /\ lanes = {} /\ toBuild = {}
  <2>1. Types /\ MsgInv /\ m.type = "refreshTreePieceCopy"
    BY DEF BuildInv, Ship!RefreshTreePieceCopy
  <2>2. ~ ForBuild(m)
    BY <2>1, MessagesApart DEF ForBuild, Apart
  <2>3. phase = "refreshing"
    BY <2>1, <2>2 DEF MsgInv
  <2>4. QED
    BY <2>1, <2>3 DEF BuildInv, MsgInv, Types
<1>2. PICK a \in Processes, t \in Ship!Pieces : m = Refreshes(a, t, version[t])
  BY <1>1 DEF MsgInv, ForRefresh
<1>3. m.process = a /\ m.piece = t /\ m.data = version[t]
  BY <1>2 DEF Refreshes
<1>4. /\ msgs' = Ship!Took(m)
      /\ copy' = IF t \in local_tps[a] THEN [copy EXCEPT ![a][t] = version[t]] ELSE copy
      /\ UNCHANGED <<layout, phase, toBuild, toRefresh, shipIter, version, flat_subtree, copy_requesters, local_tps,
                     leaf_lookup, treepiece_copy_started, displaced, lookup_leaf_keys, leaves, lanes>>
  BY <1>3 DEF Ship!RefreshTreePieceCopy, Ship!driverVars, Ship!pieceVars, Ship!partVars
<1>5. LayoutSame /\ KindsSame /\ OnWay' = OnWay \ {m} /\ msgs' = Ship!SetToBag(OnWay')
  BY <1>1, <1>4, LayoutKept, KindsKept, SentFewer DEF MsgInv
<1>6. \A p \in Ship!Partitions, u \in Ship!Pieces :
        /\ Handing(p, u)' <=> Handing(p, u)
        /\ Finding(p, u)' <=> Finding(p, u)
        /\ Telling(p, u)' <=> Telling(p, u)
        /\ Registered(p, u)' <=> Registered(p, u)
  BY <1>2, <1>4, <1>5, MessagesApart DEF Handing, Finding, Telling, Registered, LayoutSame, Apart
<1>7. \A c \in Processes, u \in Ship!Pieces :
        /\ Asking(c, u)' <=> Asking(c, u)
        /\ Answering(c, u)' <=> Answering(c, u)
        /\ InstallingCopy(c, u)' <=> InstallingCopy(c, u)
        /\ Wanted(c, u)' <=> Wanted(c, u)
        /\ Requested(c, u)' <=> Requested(c, u)
        /\ Held(c, u)' <=> Held(c, u)
        /\ Refreshing(c, u)' <=> Refreshing(c, u) /\ ~ (c = a /\ u = t)
  BY <1>2, <1>4, <1>5, MessagesApart
  DEF Asking, Answering, InstallingCopy, Wanted, Requested, Held, Refreshing, Apart
<1>8. \A c \in Processes, u \in Ship!Pieces : IsPending(c, u)' <=> IsPending(c, u)
  BY <1>7 DEF IsPending
<1>9. \A c \in Processes, u \in Ship!Pieces :
        copy'[c][u] = IF c = a /\ u = t /\ Held(a, t) THEN version[t] ELSE copy[c][u]
  BY <1>1, <1>4 DEF Held, Types
<1>10. Types' /\ MsgInv'
  <2>1. copy' \in [Processes -> [Ship!Pieces -> Nat]]
    BY <1>1, <1>4 DEF Types
  <2>2. MsgInv'
    BY <1>1, <1>4, <1>5, <1>7 DEF MsgInv, LayoutSame, KindsSame, Types
  <2>3. QED
    BY <1>1, <1>4, <1>5, <2>1, <2>2 DEF Types, LayoutSame
<1>11. \A p \in Ship!Partitions, u \in Ship!Pieces : PairInv(p, u)'
  <2>1. \A p \in Ship!Partitions : At(p) \in Processes
    BY <1>1, LayoutFacts
  <2>2. QED
    BY <1>1, <1>4, <1>5, <1>6, <1>7, <1>8, <2>1 DEF Working, PairInv, LayoutSame
<1>12. \A c \in Processes, u \in Ship!Pieces : CopyInv(c, u)'
  BY <1>1, <1>4, <1>5, <1>7, <1>8 DEF Working, CopyInv, LayoutSame
<1>13. \A c \in Processes, u \in Ship!Pieces : FreshInv(c, u)'
  BY <1>1, <1>4, <1>5, <1>7, <1>9 DEF Working, FreshInv, LayoutSame
<1>14. \A u \in Ship!Pieces : PieceInv(u)'
  BY <1>1, <1>4 DEF Working, PieceInv
<1>15. \A p \in Ship!Partitions, u \in Ship!Pieces : Owes(p, u)' <=> Owes(p, u)
  <2>1. \A p \in Ship!Partitions : At(p) \in Processes
    BY <1>1, LayoutFacts
  <2>2. QED
    BY <1>4, <1>5, <1>6, <1>8, <2>1 DEF Owes, LayoutSame
<1>16. LeavesInv' /\ DisplacedInv'
  BY <1>1, <1>4, <1>5, <1>15, LeavesSame, DisplacedSame DEF Working
<1>17. QED
  BY <1>1, <1>4, <1>5, <1>10, <1>11, <1>12, <1>13, <1>14, <1>16 DEF BuildInv, Working, LayoutSame

\* A step that changes nothing.
LEMMA StepNone ==
  ASSUME BuildInv, UNCHANGED Ship!vars
  PROVE  BuildInv'
<1>1. UNCHANGED <<layout, phase, toBuild, toRefresh, shipIter, version, flat_subtree, copy_requesters, local_tps,
                  leaf_lookup, copy, treepiece_copy_started, displaced, lookup_leaf_keys, leaves, lanes, msgs>>
  BY DEF Ship!vars, Ship!driverVars, Ship!pieceVars, Ship!cacheVars, Ship!partVars
<1>2. LayoutSame /\ KindsSame /\ OnWay' = OnWay
  BY <1>1, LayoutKept, KindsKept DEF OnWay
<1>3. \A p, t :
        /\ Handing(p, t)' <=> Handing(p, t)
        /\ Finding(p, t)' <=> Finding(p, t)
        /\ Telling(p, t)' <=> Telling(p, t)
        /\ Registered(p, t)' <=> Registered(p, t)
  BY <1>1, <1>2 DEF Handing, Finding, Telling, Registered, LayoutSame
<1>4. \A c, t :
        /\ Asking(c, t)' <=> Asking(c, t)
        /\ Answering(c, t)' <=> Answering(c, t)
        /\ InstallingCopy(c, t)' <=> InstallingCopy(c, t)
        /\ Wanted(c, t)' <=> Wanted(c, t)
        /\ Requested(c, t)' <=> Requested(c, t)
        /\ Held(c, t)' <=> Held(c, t)
        /\ Refreshing(c, t)' <=> Refreshing(c, t)
  BY <1>1, <1>2 DEF Asking, Answering, InstallingCopy, Wanted, Requested, Held, Refreshing
<1>5. \A c, t : IsPending(c, t)' <=> IsPending(c, t)
  BY <1>4 DEF IsPending
<1>6. \A p, t : Owes(p, t)' <=> Owes(p, t)
  BY <1>1, <1>2, <1>3, <1>5 DEF Owes, LayoutSame
<1>7. Types'
  BY <1>1, <1>2 DEF BuildInv, Types, LayoutSame
<1>8. MsgInv'
  BY <1>1, <1>2, <1>4 DEF BuildInv, MsgInv, LayoutSame, KindsSame
<1>9. AtRest \/ Working
  BY DEF BuildInv
<1>10. AtRest => AtRest'
  BY <1>1, <1>2 DEF AtRest, LayoutSame
<1>11. ASSUME Working PROVE Working'
  <2>1. \A p \in Ship!Partitions, t \in Ship!Pieces : PairInv(p, t)'
    BY <1>1, <1>2, <1>3, <1>4, <1>5, <1>11 DEF Working, PairInv, LayoutSame
  <2>2. \A c \in Processes, t \in Ship!Pieces : CopyInv(c, t)' /\ FreshInv(c, t)'
    BY <1>1, <1>2, <1>4, <1>5, <1>11 DEF Working, CopyInv, FreshInv, LayoutSame
  <2>3. \A t \in Ship!Pieces : PieceInv(t)'
    BY <1>1, <1>11 DEF Working, PieceInv
  <2>4. LeavesInv'
    <3>1. \A p : Has(p)' = Has(p)
      BY <1>2, <1>6 DEF Has, LayoutSame
    <3>2. QED
      BY <1>1, <1>2, <1>11, <3>1 DEF Working, LeavesInv, LayoutSame
  <2>5. DisplacedInv'
    BY <1>1, <1>2, <1>11, DisplacedSame DEF Working
  <2>6. QED
    BY <1>2, <2>1, <2>2, <2>3, <2>4, <2>5 DEF Working, LayoutSame
<1>12. QED
  BY <1>1, <1>7, <1>8, <1>9, <1>10, <1>11 DEF BuildInv

\* Every step keeps the invariant.
LEMMA BuildInvKept ==
  ASSUME Ship!LayoutAssumption, BuildInv, [Ship!Next]_shipVars
  PROVE  BuildInv'
<1>1. CASE Ship!StartBuild \/ Ship!Annotate \/ Ship!StartRefresh \/ Ship!Quiet \/ Ship!Reset
  BY <1>1, StepStartBuild, StepAnnotate, StepStartRefresh, StepQuiet, StepReset
<1>2. CASE \E t \in toBuild : Ship!BuildTree(t)
  BY <1>2, StepBuildTree
<1>3. CASE \E t \in toRefresh : Ship!RefreshCopies(t)
  BY <1>3, StepRefreshCopies
<1>4. CASE \E m \in lanes : Ship!MakeLeavesFound(m) \/ Ship!TellPartitions(m)
  BY <1>4, StepMakeLeavesFound, StepTellPartitions
<1>5. ASSUME NEW m \in OnWay, Ship!ReceiveLeaves(m) PROVE BuildInv'
  BY <1>5, StepReceiveHere, StepReceiveWaits
<1>6. ASSUME NEW m \in OnWay,
             Ship!RequestCopy(m) \/ Ship!InstallCopy(m) \/ Ship!MakeLeaves(m) \/ Ship!RefreshTreePieceCopy(m)
      PROVE  BuildInv'
  BY <1>6, StepRequestCopy, StepInstallCopy, StepMakeLeaves, StepRefreshTreePieceCopy
<1>7. CASE UNCHANGED shipVars
  <2>1. UNCHANGED Ship!vars
    BY <1>7 DEF shipVars, Ship!vars, Ship!driverVars, Ship!pieceVars, Ship!cacheVars, Ship!partVars
  <2>2. QED
    BY <2>1, StepNone
<1>8. QED
  BY <1>1, <1>2, <1>3, <1>4, <1>5, <1>6, <1>7 DEF Ship!Next, OnWay

-----------------------------------------------------------------------------
\* What the invariant says of the properties.

\* A partition has leaves of its own, each with the mark that the layout decides.
LEMMA AddedEntries ==
  ASSUME NEW p, NEW L
  PROVE  Ship!BagToSet(Ship!Added(p, L)) = {[leaf |-> l, own |-> ~ layout.matching /\ l.of # {p}] : l \in L}
BY BagOfSet DEF Ship!Added

\* Type correctness.
LEMMA ImpliesTypeOK ==
  ASSUME Ship!LayoutAssumption, BuildInv
  PROVE  Ship!TypeOK
<1>1. Types /\ MsgInv /\ layout \in TheLayouts
  BY DEF BuildInv, Types
<1>2. Ship!IsABag(msgs)
  <2>1. \A S : Ship!IsABag(Ship!SetToBag(S))
    BY DEF Ship!IsABag, Ship!SetToBag
  <2>2. QED
    BY <1>1, <2>1 DEF MsgInv
<1>3. ASSUME NEW p \in Ship!Partitions PROVE leaves[p] = Ship!Added(p, IF phase = "idle" THEN {} ELSE Has(p))
  <2>1. CASE phase = "idle"
    BY <2>1, AddedNone DEF BuildInv, AtRest
  <2>2. CASE phase # "idle"
    BY <2>2 DEF BuildInv, Working, LeavesInv
  <2>3. QED
    BY <2>1, <2>2
<1>4. ASSUME NEW p \in Ship!Partitions, NEW e \in Ship!BagToSet(leaves[p])
      PROVE  e.leaf \in Ship!AllLeaves /\ p \in e.leaf.of
  <2>1. PICK L : leaves[p] = Ship!Added(p, L) /\ \A l \in L : l \in Ship!AllLeaves /\ p \in l.of
    <3>1. CASE phase = "idle"
      BY <1>3, <3>1
    <3>2. CASE phase # "idle"
      <4>1. leaves[p] = Ship!Added(p, Has(p))
        BY <1>3, <3>2
      <4>2. \A l \in Has(p) : l \in Ship!AllLeaves /\ p \in l.of
        BY DEF Has
      <4>3. QED
        BY <4>1, <4>2
    <3>3. QED
      BY <3>1, <3>2
  <2>2. PICK l \in L : e = [leaf |-> l, own |-> ~ layout.matching /\ l.of # {p}]
    BY <2>1, AddedEntries
  <2>3. e.leaf = l
    BY <2>2
  <2>4. QED
    BY <2>1, <2>3
<1>5. QED
  BY <1>1, <1>2, <1>4 DEF Types, Ship!TypeOK, TheLayouts

\* The leaves of a copy are registered before a partition looks them up.
LEMMA ImpliesLookupFinds ==
  ASSUME Ship!LayoutAssumption, BuildInv
  PROVE  Ship!LookupFinds
<1>1. Types /\ MsgInv /\ layout \in TheLayouts
  BY DEF BuildInv, Types
<1>2. \A p \in Ship!Partitions : At(p) \in Processes
  BY <1>1, LayoutFacts
<1>3. ASSUME NEW p \in Ship!Partitions, NEW t \in Ship!Pieces, Working, At(p) # Home(t), Held(At(p), t)
      PROVE  Ship!LeavesFor(t, p) \subseteq leaf_lookup[At(p)]
  <2>1. CopyInv(At(p), t)
    BY <1>2, <1>3 DEF Working
  <2>2. QED
    BY <1>3, <2>1 DEF CopyInv, Ship!LeavesFor
<1>4. ASSUME NEW m \in lanes, m.type = "receiveLeaves"
      PROVE  m.keys \subseteq leaf_lookup[layout.partOn[m.part]]
  <2>1. PICK p \in Ship!Partitions, t \in Ship!Pieces : m = Hands(p, t, Ship!LeavesFor(t, p))
    BY <1>1, <1>4, MessagesApart DEF MsgInv, InLane, Apart
  <2>2. m.part = p /\ m.keys = Ship!LeavesFor(t, p)
    BY <2>1 DEF Hands
  <2>3. Working
    BY <1>1 DEF BuildInv, MsgInv
  <2>4. Finding(p, t)
    BY <2>1 DEF Finding
  <2>5. At(p) # Home(t) /\ Held(At(p), t)
    BY <2>3, <2>4 DEF Working, PairInv, IsFar
  <2>6. QED
    BY <1>3, <2>2, <2>3, <2>5 DEF At
<1>5. ASSUME NEW m \in OnWay, m.type = "makeLeaves"
      PROVE  lookup_leaf_keys[m.part][m.piece] \subseteq leaf_lookup[layout.partOn[m.part]]
  <2>1. ~ ForRefresh(m)
    BY <1>5, MessagesApart DEF ForRefresh, Apart
  <2>2. phase = "building" /\ Working
    BY <1>1, <2>1 DEF BuildInv, MsgInv
  <2>3. PICK p \in Ship!Partitions, t \in Ship!Pieces : m = Tells(p, t)
    BY <1>1, <1>5, <2>2, MessagesApart DEF MsgInv, ForBuild, Apart
  <2>4. m.part = p /\ m.piece = t
    BY <2>3 DEF Tells
  <2>5. Telling(p, t) /\ Registered(p, t) /\ ~ IsPending(At(p), t) /\ IsFar(p, t)
        /\ lookup_leaf_keys[p][t] = Ship!LeavesFor(t, p)
    BY <2>2, <2>3 DEF Telling, Working, PairInv
  <2>6. Wanted(At(p), t) /\ At(p) # Home(t)
    BY <2>5 DEF Registered, Wanted, IsFar
  <2>7. Held(At(p), t)
    BY <1>2, <2>2, <2>5, <2>6 DEF Working, CopyInv, IsPending
  <2>8. QED
    BY <1>3, <2>2, <2>4, <2>5, <2>6, <2>7 DEF At
<1>6. QED
  BY <1>4, <1>5 DEF Ship!LookupFinds, OnWay

\* No process asks twice, nor for its own piece.
LEMMA ImpliesOneCopyPerProcess ==
  ASSUME Ship!LayoutAssumption, BuildInv
  PROVE  Ship!OneCopyPerProcess
<1>1. layout \in TheLayouts
  BY DEF BuildInv, Types
<1>2. CASE phase = "idle"
  BY <1>2 DEF BuildInv, AtRest, Ship!OneCopyPerProcess, Ship!IsInjective, Ship!ToSet
<1>3. CASE phase # "idle"
  <2>1. \A t \in Ship!Pieces : ~ Requested(Home(t), t)
    BY <1>1, <1>3, LayoutFacts DEF BuildInv, Working, CopyInv
  <2>2. QED
    BY <1>3, <2>1 DEF BuildInv, Working, PieceInv, Requested, Home, Ship!OneCopyPerProcess
<1>4. QED
  BY <1>2, <1>3

\* Copies are as new as their pieces when a walk may start.
LEMMA ImpliesCopiesFresh ==
  ASSUME BuildInv
  PROVE  Ship!CopiesFresh
<1>1. SUFFICES ASSUME phase \in {"built", "refreshed"}, NEW c \in Processes, NEW t \in local_tps[c],
                      c # layout.pieceOn[t]
               PROVE  copy[c][t] = version[t]
  BY DEF Ship!CopiesFresh
<1>2. t \in Ship!Pieces
  BY DEF BuildInv, Types
<1>3. FreshInv(c, t)
  BY <1>1, <1>2 DEF BuildInv, Working
<1>4. QED
  BY <1>1, <1>3 DEF FreshInv, Home, Held

\* A build that is over leaves every partition its leaves.
LEMMA SettledLeaves ==
  ASSUME Ship!LayoutAssumption, BuildInv, Ship!Settled
  PROVE  \A p \in Ship!Partitions : leaves[p] = Ship!Added(p, {l \in Ship!AllLeaves : p \in l.of})
<1>1. phase \notin {"idle", "building"} /\ Types /\ MsgInv /\ layout \in TheLayouts /\ Working
  BY DEF Ship!Settled, BuildInv, Types
<1>2. \A l \in Ship!AllLeaves : l.piece \in Ship!Pieces
  BY <1>1, LeafFacts
<1>3. lanes = {} /\ toBuild = {} /\ \A m \in OnWay : ForRefresh(m)
  BY <1>1 DEF MsgInv, Types
<1>4. \A p \in Ship!Partitions, t \in Ship!Pieces : ~ Handing(p, t) /\ ~ Finding(p, t) /\ ~ Telling(p, t)
  BY <1>3, MessagesApart DEF Handing, Finding, Telling, ForRefresh, Apart
<1>5. \A c \in Processes, t \in Ship!Pieces : ~ IsPending(c, t)
  BY <1>3, MessagesApart DEF IsPending, Asking, Answering, InstallingCopy, ForRefresh, Apart
<1>6. \A p \in Ship!Partitions : At(p) \in Processes
  BY <1>1, LayoutFacts
<1>7. \A p \in Ship!Partitions, t \in Ship!Pieces : ~ Owes(p, t)
  BY <1>3, <1>4, <1>5, <1>6 DEF Owes
<1>8. \A p \in Ship!Partitions : Has(p) = {l \in Ship!AllLeaves : p \in l.of}
  BY <1>2, <1>7 DEF Has
<1>9. QED
  BY <1>1, <1>8 DEF Working, LeavesInv

\* And the homes of the pieces know what is held elsewhere, or twice.
LEMMA ImpliesBuildSettled ==
  ASSUME Ship!LayoutAssumption, BuildInv
  PROVE  Ship!BuildSettled
<1>1. Ship!LeavesComplete
  BY SettledLeaves DEF Ship!LeavesComplete
<1>2. ASSUME Ship!Settled, NEW t \in Ship!Pieces, NEW l \in Ship!LeavesOf(t)
      PROVE  l \in displaced[layout.pieceOn[t]] <=>
               \E p \in Ship!Partitions : \E e \in Ship!BagToSet(leaves[p]) :
                 e.leaf = l /\ (e.own \/ layout.partOn[p] # layout.pieceOn[t])
  <2> DEFINE E(k, p) == [leaf |-> k, own |-> ~ layout.matching /\ k.of # {p}]
             InTwo(p) == (~ layout.matching /\ l.of # {p}) \/ At(p) # Home(t)
  <2>1. phase \notin {"idle", "building"} /\ Types /\ MsgInv /\ layout \in TheLayouts /\ Working /\ toBuild = {}
    BY <1>2 DEF Ship!Settled, BuildInv, Types, MsgInv
  <2>2. l \in Ship!AllLeaves /\ l.piece = t /\ l.of \in SUBSET Ship!Partitions /\ Home(t) \in Processes
    BY <2>1, LeafFacts, LayoutFacts
  <2>3. l \in displaced[Home(t)] <=> ~ layout.matching /\ \E p \in l.of : l.of # {p} \/ At(p) # Home(t)
    BY <2>1, <2>2 DEF Working, DisplacedInv, Shared, Ship!DisplacedFor, At, Home
  <2>4. layout.matching => \A p \in l.of : At(p) = Home(t)
    BY <1>2, <2>1, LayoutFacts
  <2>5. ASSUME NEW p \in Ship!Partitions
        PROVE  Ship!BagToSet(leaves[p]) = {E(k, p) : k \in {j \in Ship!AllLeaves : p \in j.of}}
    <3> DEFINE L == {j \in Ship!AllLeaves : p \in j.of}
    <3>1. leaves[p] = Ship!Added(p, L)
      BY <1>2, SettledLeaves
    <3> HIDE DEF L
    <3>2. Ship!BagToSet(Ship!Added(p, L)) = {E(k, p) : k \in L}
      BY AddedEntries
    <3>3. QED
      BY <3>1, <3>2 DEF L
  <2>6. \A k, p : E(k, p).leaf = k /\ E(k, p).own = (~ layout.matching /\ k.of # {p})
    OBVIOUS
  <2> HIDE DEF E
  <2>7. ASSUME NEW p \in Ship!Partitions
        PROVE  (\E e \in Ship!BagToSet(leaves[p]) : e.leaf = l /\ (e.own \/ At(p) # Home(t)))
                 <=> p \in l.of /\ InTwo(p)
    <3>1. ASSUME p \in l.of, InTwo(p)
          PROVE  \E e \in Ship!BagToSet(leaves[p]) : e.leaf = l /\ (e.own \/ At(p) # Home(t))
      <4>1. E(l, p) \in Ship!BagToSet(leaves[p])
        BY <2>2, <2>5, <3>1
      <4>2. QED
        BY <2>6, <3>1, <4>1
    <3>2. ASSUME NEW e \in Ship!BagToSet(leaves[p]), e.leaf = l, e.own \/ At(p) # Home(t)
          PROVE  p \in l.of /\ InTwo(p)
      <4>1. PICK k \in Ship!AllLeaves : e = E(k, p) /\ p \in k.of
        BY <2>5
      <4>2. k = l
        BY <2>6, <3>2, <4>1
      <4>3. QED
        BY <2>6, <3>2, <4>1, <4>2
    <3>3. QED
      BY <3>1, <3>2
  <2>8. QED
    BY <2>2, <2>3, <2>4, <2>7 DEF At, Home
<1>3. QED
  BY <1>1, <1>2 DEF Ship!DisplacedKnown, Ship!BuildSettled

-----------------------------------------------------------------------------
\* What is assumed of the layouts.
LEMMA LayoutsHold == Ship!LayoutAssumption
BY IterationAssumption

\* The invariant holds at first, and a step of another stage leaves the build alone.
LEMMA BuildInit == IterationInit => BuildInv
BY InitBuildInv, LayoutsHold DEF IterationInit

LEMMA BuildStep == [IterationNext]_iterationVars => [Ship!Next]_shipVars
<1>1. FlushStep \/ GatherStep \/ LoadStep \/ DriveStep \/ HostStep => UNCHANGED shipVars
  BY DEF FlushStep, GatherStep, LoadStep, DriveStep, HostStep, stageVars
<1>2. UNCHANGED iterationVars => UNCHANGED shipVars
  BY DEF iterationVars, stageVars
<1>3. QED
  BY <1>1, <1>2 DEF IterationNext, ShipStep

\* The invariant says what the property says.
LEMMA BuildImplies == BuildInv => BuildSound
BY LayoutsHold, ImpliesTypeOK, ImpliesLookupFinds, ImpliesOneCopyPerProcess, ImpliesBuildSettled,
   ImpliesCopiesFresh
DEF BuildSound

\* However the messages of a build and the requests of its neighbours cross: a leaf that
\* is looked up is there, a copy is asked for once, a quiet build leaves every partition
\* each of its leaves once and the displaced ones recorded, and no copy is older than its
\* piece when a walk may start.  In every run of the driver, for all layouts, numbers of
\* processes and iterations.
THEOREM BuildIsSound == IterationSpec => []BuildSound
<1>1. BuildInv /\ [IterationNext]_iterationVars => BuildInv'
  BY BuildStep, LayoutsHold, BuildInvKept
<1>2. QED
  BY <1>1, BuildInit, BuildImplies, PTL DEF IterationSpec

-----------------------------------------------------------------------------
(* The calls of a host.  What a PE staged in the call follows, in its      *)
(* labels, what it had before; a particle is staged, then has one owner,   *)
(* and its label is with the owner, or in an answer, until it is in place; *)
(* and every PE filters labels by this call's catalogue, never by another. *)

TheHosts == {s.host : s \in Scenarios}

\* What PE q had when the call began, what it stages in it, and where a label goes.
Past(c, q) == IF c > 1 /\ host[c - 1].clears THEN << >> ELSE Host!Held(host, q)[c - 1]
Before(q) == Past(call, q)
Ids(q) == host[call].ids[q]
Spot(q, i) == Len(Before(q)) + i
Mine(q) == {[id |-> Ids(q)[i], pe |-> q, place |-> Spot(q, i)] : i \in DOMAIN Ids(q)}
Final(q, i) == Host!LabelIn(host, call, Ids(q)[i])

ProperBag(B) == \A e \in DOMAIN B : B[e] \in Nat \ {0}

HostTypes ==
  /\ host \in TheHosts /\ call \in 1 .. Len(host)
  /\ step \in {"stage", "decompose", "aborted", "label", "catalog", "return", "quiet", "release", "called"}
  /\ left \subseteq HostPEs
  /\ step \in {"decompose", "aborted", "quiet", "called"} => left = HostPEs
  /\ staged = [q \in HostPEs |-> staged[q]] /\ owned = [q \in HostPEs |-> owned[q]]
  /\ hostLabels \in [HostPEs -> Seq(Int)]
  /\ cat_min_size = [q \in HostPEs |-> cat_min_size[q]] /\ cat_kept = [q \in HostPEs |-> cat_kept[q]]
  /\ ProperBag(answers)

\* A PE that has staged has as many more labels as particles, which are to be decomposed.
Unstaged(q) == step = "stage" /\ q \in left
StagedInv ==
  \A q \in HostPEs :
    /\ Unstaged(q) => hostLabels[q] = Before(q)
    /\ ~ Unstaged(q) =>
         /\ Len(hostLabels[q]) = Len(Before(q)) + Len(Ids(q))
         /\ \A j \in 1 .. Len(Before(q)) : hostLabels[q][j] = Before(q)[j]
    /\ staged[q] = IF step \in {"stage", "decompose", "aborted"} /\ ~ Unstaged(q) THEN Mine(q) ELSE {}

\* Between the decomposition and the return every particle has an owner.
OwnInv ==
  /\ step \in {"stage", "decompose", "aborted", "called"} => \A q \in HostPEs : owned[q] = {}
  /\ step = "release" => \A q \in HostPEs \ left : owned[q] = {}
  /\ step \in {"label", "catalog", "return"} =>
       /\ \A q \in HostPEs : \A p \in owned[q] : \E r \in HostPEs : p \in Mine(r)
       /\ \A q \in HostPEs : \A p \in Mine(q) : \E o \in HostPEs : p \in owned[o]

\* The filter of the call, once phase 1 and the catalogue have been there.
Catalogued == host[call].catalog \/ host[call].min_group_size > 1
Unfiltered(q) == cat_min_size[q] = 0
Filtered(q) ==
  /\ cat_min_size[q] = host[call].min_group_size
  /\ cat_kept[q] = {Host!Label(p.id) : p \in {x \in owned[q] : Host!Size(x.id) >= host[call].min_group_size}}
FilterInv ==
  /\ step = "label" => \A q \in HostPEs \ left : Unfiltered(q)
  /\ step = "catalog" => Catalogued /\ \A q \in HostPEs \ left : Filtered(q)
  /\ step = "return" => \A q \in HostPEs : IF Catalogued THEN Filtered(q) ELSE Unfiltered(q)

\* Answers are right, and under way only in the return.
AnswerInv ==
  /\ step \notin {"return", "quiet"} => answers = Host!EmptyBag
  /\ \A m \in DOMAIN answers :
       /\ m.to \in HostPEs
       /\ \A x \in m.labels : \E i \in DOMAIN Ids(m.to) :
            x = [place |-> Spot(m.to, i), label |-> Final(m.to, i)]

\* A label that has not come is still with the particle's owner, or in an answer.
Pending(q, i) ==
  \/ step = "return" /\ \E o \in left : \E p \in owned[o] : p.pe = q /\ p.place = Spot(q, i)
  \/ \E m \in DOMAIN answers : m.to = q /\ \E x \in m.labels : x.place = Spot(q, i)
LabelInv ==
  step \in {"return", "quiet", "release", "called"} =>
    \A q \in HostPEs : \A i \in DOMAIN Ids(q) :
      hostLabels[q][Spot(q, i)] = Final(q, i) \/ Pending(q, i)

HostInv == HostTypes /\ StagedInv /\ OwnInv /\ FilterInv /\ AnswerInv /\ LabelInv

\* What is assumed of the calls.
LEMMA CallsAre ==
  ASSUME NEW h \in TheHosts
  PROVE  Len(h) \in Nat \ {0} /\ \A c \in 1 .. Len(h) : Host!IsCall(h[c])
BY IterationAssumption DEF Host!HostAssumption, TheHosts

LEMMA CallIs ==
  ASSUME NEW h \in TheHosts, NEW c \in 1 .. Len(h)
  PROVE  /\ h[c].min_group_size \in Nat /\ h[c].catalog \in BOOLEAN /\ h[c].clears \in BOOLEAN
         /\ \A q \in HostPEs : /\ h[c].ids[q] \in Seq(Nat) /\ Len(h[c].ids[q]) \in Nat
                               /\ DOMAIN h[c].ids[q] = 1 .. Len(h[c].ids[q])
         /\ \A q \in HostPEs : \A i \in DOMAIN h[c].ids[q] : h[c].ids[q][i] \in Host!StagedFor(h[c])
<1>1. Host!IsCall(h[c])
  BY CallsAre
<1>2. h[c].ids \in [HostPEs -> Seq(Nat)]
  BY <1>1 DEF Host!IsCall
<1>3. QED
  BY <1>1, <1>2 DEF Host!IsCall, Host!StagedFor

\* A set of numbers has a least one.
LeastIn(g) == CHOOSE l \in g : \A m \in g : l <= m
LEMMA LeastOf ==
  ASSUME NEW g, g \subseteq Nat, g # {}
  PROVE  LeastIn(g) \in g /\ LeastIn(g) \in Nat
<1>1. PICK e \in g : TRUE
  OBVIOUS
<1> DEFINE S == Nat \ g
<1>2. PICK n \in 0 .. e : (\A j \in 0 .. n - 1 : j \in S) /\ (n = e \/ n \notin S)
  <2>1. e \in Nat /\ 0 <= e /\ 0 \in Nat
    BY <1>1
  <2> HIDE DEF S
  <2>2. QED
    BY <2>1, LoopStops
<1>3. n \in g
  BY <1>1, <1>2
<1>4. ASSUME NEW m \in g PROVE n <= m
  <2>1. m \in Nat /\ n \in Nat
    BY <1>1, <1>2
  <2>2. ~ (m \in 0 .. n - 1)
    BY <1>2
  <2>3. QED
    BY <2>1, <2>2
<1>5. LeastIn(g) \in g
  BY <1>3, <1>4 DEF LeastIn
<1>6. QED
  BY <1>5

\* A group is not empty, and the least of it stands for it.
LEMMA GroupsAre ==
  ASSUME NEW h \in TheHosts, NEW c \in 1 .. Len(h), NEW id \in Host!StagedFor(h[c]),
         NEW g, g = h[c].groups[id]
  PROVE  /\ LeastIn(g) \in g /\ LeastIn(g) \in Nat
         /\ Host!Cardinality(g) \in Nat /\ Host!Cardinality(g) >= 1
         /\ \A other \in Host!StagedFor(h[c]) : LeastIn(g) \in h[c].groups[other] => h[c].groups[other] = g
<1>1. /\ id \in g /\ g \subseteq Nat /\ Host!IsFiniteSet(g)
      /\ \A other \in Host!StagedFor(h[c]) : h[c].groups[other] \cap g # {} => h[c].groups[other] = g
  BY CallsAre DEF Host!IsCall
<1>2. LeastIn(g) \in g /\ LeastIn(g) \in Nat
  BY <1>1, LeastOf
<1>3. IsFiniteSet(g) /\ Host!Cardinality(g) = Cardinality(g)
  BY <1>1 DEF Host!IsFiniteSet, IsFiniteSet, Host!Cardinality, Cardinality
<1>4. Cardinality(g) \in Nat /\ Cardinality(g) >= 1
  <2>1. Cardinality(g) \in Nat /\ Cardinality(g) # 0
    BY <1>1, <1>3, FS_CardinalityType, FS_EmptySet
  <2>2. QED
    BY <2>1
<1>5. QED
  BY <1>1, <1>2, <1>3, <1>4

LEMMA LabelType ==
  ASSUME NEW h \in TheHosts, NEW c \in 1 .. Len(h), NEW id \in Host!StagedFor(h[c])
  PROVE  Host!LabelIn(h, c, id) \in Int
<1>1. PICK g : g = h[c].groups[id]
  OBVIOUS
<1>2. LeastIn(g) \in Nat
  BY <1>1, GroupsAre
<1>3. Host!LabelIn(h, c, id) = -1 \/ Host!LabelIn(h, c, id) = LeastIn(g)
  BY <1>1 DEF Host!LabelIn, LeastIn
<1>4. QED
  BY <1>2, <1>3

\* What PE q is told after call c.
Told(h, q, c) == [i \in DOMAIN h[c].ids[q] |-> Host!LabelIn(h, c, h[c].ids[q][i])]

LEMMA ToldIs ==
  ASSUME NEW h \in TheHosts, NEW q \in HostPEs, NEW c \in 1 .. Len(h)
  PROVE  /\ Told(h, q, c) \in Seq(Int) /\ Len(Told(h, q, c)) = Len(h[c].ids[q])
         /\ \A i \in 1 .. Len(h[c].ids[q]) : Told(h, q, c)[i] = Host!LabelIn(h, c, h[c].ids[q][i])
<1> DEFINE s == h[c].ids[q]
<1>1. s \in Seq(Nat) /\ Len(s) \in Nat /\ DOMAIN s = 1 .. Len(s)
  BY CallIs
<1>2. \A i \in 1 .. Len(s) : Host!LabelIn(h, c, s[i]) \in Int
  BY CallIs, LabelType
<1>3. Told(h, q, c) = [i \in 1 .. Len(s) |-> Host!LabelIn(h, c, s[i])]
  BY <1>1 DEF Told
<1> HIDE DEF s
<1>4. QED
  BY <1>1, <1>2, <1>3 DEF s

\* The recursion of Held.
LEMMA HeldIs ==
  ASSUME NEW h \in TheHosts, NEW q \in HostPEs
  PROVE  /\ Host!Held(h, q) \in [0 .. Len(h) -> Seq(Int)] /\ Host!Held(h, q)[0] = << >>
         /\ \A c \in 1 .. Len(h) : Host!Held(h, q)[c] =
              (IF c > 1 /\ h[c - 1].clears THEN << >> ELSE Host!Held(h, q)[c - 1]) \o Told(h, q, c)
<1> DEFINE D == 0 .. Len(h)
           V == Seq(Int)
           clear(c) == c > 1 /\ h[c - 1].clears
           told(c) == [i \in DOMAIN h[c].ids[q] |-> Host!LabelIn(h, c, h[c].ids[q][i])]
           G[c \in D] == IF c = 0 THEN << >> ELSE (IF clear(c) THEN << >> ELSE G[c - 1]) \o told(c)
           Is(f) == f = [c \in D |-> IF c = 0 THEN << >>
                                     ELSE (IF clear(c) THEN << >> ELSE f[c - 1]) \o told(c)]
           stop == {0}
           base == [c \in D |-> << >>]
           next == [c \in D |-> IF c = 0 THEN 0 ELSE c - 1]
           combine == [c \in D |-> [v \in V |->
                         IF c = 0 THEN << >> ELSE (IF clear(c) THEN << >> ELSE v) \o told(c)]]
           id == [c \in D |-> c]
<1>1. Len(h) \in Nat /\ \A c \in 1 .. Len(h) : told(c) \in V
  BY CallsAre, ToldIs DEF Told
<1>2. Host!Held(h, q) = G
  BY DEF Host!Held
<1>3. \A c \in 1 .. Len(h) : told(c) = Told(h, q, c)
  BY DEF Told
<1> HIDE DEF clear, told
<1>4. Descends(D, stop, next, id)
  BY <1>1 DEF Descends
<1>5. base \in [D -> V] /\ combine \in [D -> [V -> V]]
  <2>1. << >> \in V /\ \A u, v \in V : u \o v \in V
    OBVIOUS
  <2>2. \A c \in D : c # 0 => told(c) \in V
    BY <1>1
  <2> HIDE DEF V
  <2>3. base \in [D -> V]
    BY <2>1
  <2>4. \A c \in D : \A v \in V :
          (IF c = 0 THEN << >> ELSE (IF clear(c) THEN << >> ELSE v) \o told(c)) \in V
    BY <2>1, <2>2
  <2>5. QED
    BY <2>3, <2>4
<1> HIDE DEF V
<1>6. PICK f \in [D -> V] : Recursive(f, D, stop, base, next, combine)
  <2> HIDE DEF D, stop, base, next, combine, id
  <2>1. QED
    BY <1>4, <1>5, RecursionExists
<1>7. Is(f)
  <2>1. ASSUME NEW c \in D, c \notin stop
        PROVE  combine[c][f[next[c]]] = (IF clear(c) THEN << >> ELSE f[c - 1]) \o told(c)
    <3>1. c - 1 \in D /\ next[c] = c - 1 /\ f[c - 1] \in V
      BY <1>1, <2>1
    <3>2. QED
      BY <2>1, <3>1
  <2>2. QED
    BY <1>6, <2>1 DEF Recursive
<1>8. Is(G)
  BY <1>7
<1> HIDE DEF G
<1>9. \A c \in D : G[c] = IF c = 0 THEN << >> ELSE (IF clear(c) THEN << >> ELSE G[c - 1]) \o told(c)
  BY <1>8
<1>10. \A c \in D : G[c] \in V
  <2> DEFINE T == {c \in Nat : c \in D => G[c] \in V}
  <2>1. << >> \in V /\ \A u, v \in V : u \o v \in V
    BY DEF V
  <2>2. 0 \in T
    BY <1>9, <2>1
  <2>3. ASSUME NEW n \in Nat, n \in T PROVE n + 1 \in T
    <3>1. CASE n + 1 \in D
      <4>1. n \in D /\ n + 1 # 0 /\ (n + 1) - 1 = n /\ n + 1 \in 1 .. Len(h)
        BY <1>1, <3>1
      <4>2. G[n + 1] = (IF clear(n + 1) THEN << >> ELSE G[n]) \o told(n + 1)
        BY <1>9, <3>1, <4>1
      <4>3. G[n] \in V
        BY <2>3, <4>1
      <4>4. (IF clear(n + 1) THEN << >> ELSE G[n]) \in V /\ told(n + 1) \in V
        BY <1>1, <2>1, <4>1, <4>3
      <4>5. G[n + 1] \in V
        BY <2>1, <4>2, <4>4
      <4>6. QED
        BY <4>5
    <3>2. QED
      BY <3>1
  <2>4. Nat \subseteq T
    <3> HIDE DEF T
    <3>1. QED
      BY <2>2, <2>3, SetInduction
  <2>5. D \subseteq Nat
    BY <1>1
  <2>6. QED
    BY <2>4, <2>5
<1>11. G \in [D -> V] /\ G[0] = << >>
  <2>1. G = [c \in D |-> G[c]]
    BY <1>8
  <2>2. 0 \in D
    BY <1>1
  <2>3. QED
    BY <1>9, <1>10, <2>1, <2>2
<1>12. ASSUME NEW c \in 1 .. Len(h)
       PROVE  G[c] = (IF c > 1 /\ h[c - 1].clears THEN << >> ELSE G[c - 1]) \o Told(h, q, c)
  <2>1. c \in D /\ c # 0
    BY <1>1
  <2>2. QED
    BY <1>3, <1>9, <2>1 DEF clear
<1>13. QED
  BY <1>2, <1>11, <1>12 DEF V

\* A bag that a set or an element is added to, or taken from.
LEMMA BagGrows ==
  ASSUME NEW B, ProperBag(B), NEW S
  PROVE  DOMAIN Host!(+)(B, Host!SetToBag(S)) = DOMAIN B \cup S /\ ProperBag(Host!(+)(B, Host!SetToBag(S)))
<1>1. DOMAIN Host!SetToBag(S) = S /\ \A e \in S : Host!SetToBag(S)[e] = 1
  BY DEF Host!SetToBag
<1>2. QED
  BY <1>1 DEF Host!(+), ProperBag

LEMMA BagShrinks ==
  ASSUME NEW B, ProperBag(B), NEW m \in DOMAIN B
  PROVE  LET C == Host!(-)(B, Host!SetToBag({m}))
         IN  ProperBag(C) /\ DOMAIN C \subseteq DOMAIN B /\ DOMAIN B \ {m} \subseteq DOMAIN C
<1> DEFINE C == Host!(-)(B, Host!SetToBag({m}))
           A == [d \in DOMAIN B |->
                   IF d \in DOMAIN Host!SetToBag({m}) THEN B[d] - Host!SetToBag({m})[d] ELSE B[d]]
<1>1. DOMAIN Host!SetToBag({m}) = {m} /\ Host!SetToBag({m})[m] = 1
  BY DEF Host!SetToBag
<1>2. C = [d \in {e \in DOMAIN A : A[e] > 0} |-> A[d]]
  BY DEF Host!(-)
<1>3. \A d \in DOMAIN B : A[d] \in Nat /\ (d # m => A[d] = B[d])
  BY <1>1 DEF ProperBag
<1>4. DOMAIN A = DOMAIN B
  OBVIOUS
<1> HIDE DEF C, A
<1>5. QED
  BY <1>2, <1>3, <1>4 DEF ProperBag, C

\* One sequence behind another.
LEMMA Joined ==
  ASSUME NEW S, NEW u \in Seq(S), NEW t \in Seq(S)
  PROVE  /\ u \o t \in Seq(S) /\ Len(u \o t) = Len(u) + Len(t)
         /\ \A j \in 1 .. Len(u) : (u \o t)[j] = u[j]
<1>1. Len(t) \in Nat /\ Len(u) \in Nat
  OBVIOUS
<1>2. ASSUME NEW j \in 1 .. Len(u) PROVE (u \o t)[j] = u[j]
  <2>1. j \in 1 .. Len(u) + Len(t) /\ j <= Len(u)
    BY <1>1
  <2>2. QED
    BY <2>1
<1>3. QED
  BY <1>2

\* What is due to a PE in the call.
LEMMA PlacesAre ==
  ASSUME HostTypes, NEW q \in HostPEs
  PROVE  /\ Ids(q) \in Seq(Nat) /\ Len(Ids(q)) \in Nat /\ DOMAIN Ids(q) = 1 .. Len(Ids(q))
         /\ Before(q) \in Seq(Int) /\ Len(Before(q)) \in Nat
         /\ \A i \in DOMAIN Ids(q) : Ids(q)[i] \in Host!StagedFor(host[call]) /\ Final(q, i) \in Int
<1>1. host \in TheHosts /\ call \in 1 .. Len(host) /\ Len(host) \in Nat
  BY CallsAre DEF HostTypes
<1>2. /\ Ids(q) \in Seq(Nat) /\ Len(Ids(q)) \in Nat /\ DOMAIN Ids(q) = 1 .. Len(Ids(q))
      /\ \A i \in DOMAIN Ids(q) : Ids(q)[i] \in Host!StagedFor(host[call])
  BY <1>1, CallIs DEF Ids
<1>3. \A i \in DOMAIN Ids(q) : Final(q, i) \in Int
  BY <1>1, <1>2, LabelType DEF Final
<1>4. Before(q) \in Seq(Int)
  <2>1. Host!Held(host, q)[call - 1] \in Seq(Int)
    <3>1. call - 1 \in 0 .. Len(host)
      BY <1>1
    <3>2. QED
      BY <1>1, <3>1, HeldIs
  <2>2. << >> \in Seq(Int)
    OBVIOUS
  <2>3. QED
    BY <2>1, <2>2 DEF Before, Past
<1>5. Len(Before(q)) \in Nat
  BY <1>4
<1>6. QED
  BY <1>2, <1>3, <1>4, <1>5

\* What PE q has when the call is over.
LEMMA HeldNow ==
  ASSUME HostTypes, NEW q \in HostPEs
  PROVE  /\ Host!Held(host, q)[call] \in Seq(Int)
         /\ Len(Host!Held(host, q)[call]) = Len(Before(q)) + Len(Ids(q))
         /\ \A j \in 1 .. Len(Before(q)) : Host!Held(host, q)[call][j] = Before(q)[j]
         /\ \A i \in 1 .. Len(Ids(q)) : Host!Held(host, q)[call][Spot(q, i)] = Final(q, i)
<1>1. host \in TheHosts /\ call \in 1 .. Len(host)
  BY DEF HostTypes
<1>2. PICK t : t = Told(host, q, call)
  OBVIOUS
<1>3. PICK u : u = Before(q)
  OBVIOUS
<1>4. t \in Seq(Int) /\ Len(t) = Len(Ids(q)) /\ \A i \in 1 .. Len(Ids(q)) : t[i] = Final(q, i)
  BY <1>1, <1>2, ToldIs DEF Final, Ids
<1>5. u \in Seq(Int) /\ Len(u) \in Nat /\ Len(Ids(q)) \in Nat
  BY <1>3, PlacesAre
<1>6. Host!Held(host, q)[call] = u \o t
  BY <1>1, <1>2, <1>3, HeldIs DEF Before, Past
<1>7. /\ u \o t \in Seq(Int) /\ Len(u \o t) = Len(u) + Len(t)
      /\ \A j \in 1 .. Len(u) : (u \o t)[j] = u[j]
      /\ \A i \in 1 .. Len(t) : (u \o t)[Len(u) + i] = t[i]
  <2>1. u \in Seq(Int) /\ t \in Seq(Int)
    BY <1>4, <1>5
  <2>2. u \o t \in Seq(Int) /\ Len(u \o t) = Len(u) + Len(t)
    BY <2>1, Joined, Zenon
  <2>3. \A j \in 1 .. Len(u) : (u \o t)[j] = u[j]
    BY <2>1, Joined, Zenon
  <2>4. ASSUME NEW i \in 1 .. Len(t) PROVE (u \o t)[Len(u) + i] = t[i]
    <3>1. Len(t) \in Nat /\ Len(u) \in Nat
      BY <2>1
    <3>2. /\ Len(u) + i \in 1 .. Len(u) + Len(t)
          /\ ~ (Len(u) + i <= Len(u)) /\ (Len(u) + i) - Len(u) = i
      BY <3>1
    <3>3. QED
      BY <2>1, <3>2
  <2>5. QED
    BY <2>2, <2>3, <2>4
<1>8. QED
  BY <1>3, <1>4, <1>6, <1>7 DEF Spot

\* In the same call everything is due as before.
LEMMA SameCall ==
  ASSUME host' = host, call' = call
  PROVE  /\ \A q : Before(q)' = Before(q) /\ Ids(q)' = Ids(q) /\ Mine(q)' = Mine(q)
         /\ \A q, i : Spot(q, i)' = Spot(q, i) /\ Final(q, i)' = Final(q, i)
         /\ Catalogued' = Catalogued
BY DEF Before, Past, Ids, Mine, Spot, Final, Catalogued

\* A part of a step.
LEMMA TurnIs ==
  ASSUME HostTypes, NEW q \in HostPEs, NEW s, NEW next, Host!Turn(q, s, next)
  PROVE  /\ step = s /\ q \in left /\ left' \subseteq HostPEs
         /\ \/ step' = next /\ left' = HostPEs /\ left = {q}
            \/ step' = s /\ left' = left \ {q} /\ left # {q}
BY DEF Host!Turn, HostTypes

\* What a PE sends back for a particle of its is what is due.
LEMMA LabelRight ==
  ASSUME HostInv, step = "return", NEW q \in HostPEs, NEW p \in owned[q]
  PROVE  \E r \in HostPEs : \E i \in DOMAIN Ids(r) :
           /\ p = [id |-> Ids(r)[i], pe |-> r, place |-> Spot(r, i)]
           /\ Host!LabelOn(q, p.id) = Final(r, i)
<1>1. PICK r \in HostPEs : p \in Mine(r)
  BY DEF HostInv, OwnInv
<1>2. PICK i \in DOMAIN Ids(r) : p = [id |-> Ids(r)[i], pe |-> r, place |-> Spot(r, i)]
  BY <1>1 DEF Mine
<1>3. HostTypes /\ host \in TheHosts /\ call \in 1 .. Len(host)
  BY DEF HostInv, HostTypes
<1>4. p.id = Ids(r)[i] /\ p.id \in Host!StagedFor(host[call])
  BY <1>2, <1>3, PlacesAre
<1>5. PICK g : g = host[call].groups[p.id]
  OBVIOUS
<1>6. PICK k : k = host[call].min_group_size
  OBVIOUS
<1>7. /\ LeastIn(g) \in g /\ LeastIn(g) \in Nat
      /\ Host!Cardinality(g) \in Nat /\ Host!Cardinality(g) >= 1 /\ k \in Nat
      /\ \A other \in Host!StagedFor(host[call]) :
           LeastIn(g) \in host[call].groups[other] => host[call].groups[other] = g
  BY <1>3, <1>4, <1>5, <1>6, GroupsAre, CallIs
<1>8. Host!Label(p.id) = LeastIn(g) /\ Host!Size(p.id) = Host!Cardinality(g)
  BY <1>5 DEF Host!Label, Host!Size, Host!Now, LeastIn
<1>9. Final(r, i) = IF Host!Cardinality(g) < k THEN -1 ELSE LeastIn(g)
  BY <1>4, <1>5, <1>6 DEF Final, Host!LabelIn, LeastIn
<1>10. CASE ~ Catalogued
  <2>1. cat_min_size[q] = 0
    BY <1>10 DEF HostInv, FilterInv, Unfiltered
  <2>2. Host!LabelOn(q, p.id) = LeastIn(g)
    BY <1>8, <2>1 DEF Host!LabelOn
  <2>3. ~ (Host!Cardinality(g) < k)
    BY <1>6, <1>7, <1>10 DEF Catalogued
  <2>4. QED
    BY <1>2, <1>9, <2>2, <2>3
<1>11. CASE Catalogued
  <2>1. /\ cat_min_size[q] = k
        /\ cat_kept[q] = {Host!Label(x.id) : x \in {y \in owned[q] : Host!Size(y.id) >= k}}
    BY <1>6, <1>11 DEF HostInv, FilterInv, Filtered
  <2>2. LeastIn(g) \in cat_kept[q] <=> Host!Cardinality(g) >= k
    <3>1. ASSUME NEW x \in owned[q], Host!Label(x.id) = LeastIn(g) PROVE Host!Size(x.id) = Host!Cardinality(g)
      <4>1. PICK o \in HostPEs : x \in Mine(o)
        BY DEF HostInv, OwnInv
      <4>2. PICK j \in DOMAIN Ids(o) : x = [id |-> Ids(o)[j], pe |-> o, place |-> Spot(o, j)]
        BY <4>1 DEF Mine
      <4>3. x.id \in Host!StagedFor(host[call])
        BY <1>3, <4>2, PlacesAre
      <4>4. PICK f : f = host[call].groups[x.id]
        OBVIOUS
      <4>5. LeastIn(f) \in f
        BY <1>3, <4>3, <4>4, GroupsAre
      <4>6. Host!Label(x.id) = LeastIn(f) /\ Host!Size(x.id) = Host!Cardinality(f)
        BY <4>4 DEF Host!Label, Host!Size, Host!Now, LeastIn
      <4>7. f = g
        BY <1>7, <3>1, <4>3, <4>4, <4>5, <4>6
      <4>8. QED
        BY <4>6, <4>7
    <3>2. QED
      BY <1>8, <2>1, <3>1
  <2>3. Host!LabelOn(q, p.id) = IF k > 1 /\ LeastIn(g) \notin cat_kept[q] THEN -1 ELSE LeastIn(g)
    BY <1>8, <2>1 DEF Host!LabelOn
  <2>4. Host!LabelOn(q, p.id) = Final(r, i)
    <3>1. \A n, c \in Nat : c >= 1 => ((c < k) <=> (k > 1 /\ ~ (c >= k)))
      BY <1>7
    <3>2. QED
      BY <1>7, <1>9, <2>2, <2>3, <3>1
  <2>5. QED
    BY <1>2, <2>4
<1>12. QED
  BY <1>10, <1>11

\* No message is in an empty bag.
LEMMA NoAnswer == DOMAIN Host!EmptyBag = {} /\ ProperBag(Host!EmptyBag)
BY DEF Host!EmptyBag, Host!SetToBag, ProperBag

\* Who waits for the start-up moves no particle and no label.
LEMMA HostInvKept ==
  ASSUME HostInv, UNCHANGED <<host, call, step, left, staged, owned, hostLabels, cat_min_size, cat_kept, answers>>
  PROVE  HostInv'
<1>1. /\ \A q : Before(q)' = Before(q) /\ Ids(q)' = Ids(q) /\ Mine(q)' = Mine(q)
      /\ \A q, i : Spot(q, i)' = Spot(q, i) /\ Final(q, i)' = Final(q, i)
      /\ Catalogued' = Catalogued
  BY SameCall
<1>2. \A q : Unstaged(q)' = Unstaged(q) /\ Unfiltered(q)' = Unfiltered(q)
  BY DEF Unstaged, Unfiltered
<1>3. \A q : Filtered(q)' = Filtered(q)
  BY DEF Filtered, Host!Label, Host!Size, Host!Now
<1>4. \A q, i : Pending(q, i)' = Pending(q, i)
  BY <1>1 DEF Pending
<1>5. HostTypes'
  BY DEF HostInv, HostTypes
<1>6. StagedInv'
  BY <1>1, <1>2 DEF HostInv, StagedInv
<1>7. OwnInv'
  BY <1>1 DEF HostInv, OwnInv
<1>8. FilterInv'
  BY <1>1, <1>2, <1>3 DEF HostInv, FilterInv
<1>9. AnswerInv'
  BY <1>1 DEF HostInv, AnswerInv
<1>10. LabelInv'
  BY <1>1, <1>4 DEF HostInv, LabelInv
<1>11. QED
  BY <1>5, <1>6, <1>7, <1>8, <1>9, <1>10 DEF HostInv

\* A PE stages its particles behind those it has.
LEMMA StageInv ==
  ASSUME HostInv, NEW q \in HostPEs, Host!Stage(q)
  PROVE  HostInv'
<1>1. /\ Host!Turn(q, "stage", "decompose") /\ host' = host /\ call' = call
      /\ owned' = owned /\ cat_min_size' = cat_min_size /\ cat_kept' = cat_kept /\ answers' = answers
      /\ staged' = [staged EXCEPT ![q] = @ \cup
            {[id |-> Ids(q)[i], pe |-> q, place |-> Len(hostLabels[q]) + i] : i \in DOMAIN Ids(q)}]
      /\ hostLabels' = [hostLabels EXCEPT ![q] = @ \o [i \in DOMAIN Ids(q) |-> -1]]
  BY DEF Host!Stage, Ids, Host!Now, Host!FirstPlace
<1>2. HostTypes
  BY DEF HostInv
<1>3. /\ step = "stage" /\ q \in left /\ left' \subseteq HostPEs
      /\ \/ step' = "decompose" /\ left' = HostPEs /\ left = {q}
         \/ step' = "stage" /\ left' = left \ {q} /\ left # {q}
  BY <1>1, <1>2, TurnIs
<1>4. /\ Unstaged(q) /\ ~ Unstaged(q)'
      /\ \A r \in HostPEs \ {q} : Unstaged(r)' = Unstaged(r)
  BY <1>3 DEF Unstaged
<1>5. /\ \A r : Before(r)' = Before(r) /\ Ids(r)' = Ids(r) /\ Mine(r)' = Mine(r)
      /\ answers = Host!EmptyBag /\ \A r \in HostPEs : owned[r] = {}
  BY <1>1, <1>3, SameCall DEF HostInv, AnswerInv, OwnInv
<1>6. /\ hostLabels[q] = Before(q) /\ staged[q] = {}
      /\ Before(q) \in Seq(Int) /\ Len(Before(q)) \in Nat
      /\ DOMAIN Ids(q) = 1 .. Len(Ids(q)) /\ Len(Ids(q)) \in Nat
  BY <1>2, <1>4, PlacesAre DEF HostInv, StagedInv
<1> DEFINE new == [i \in 1 .. Len(Ids(q)) |-> -1]
<1>7. new \in Seq(Int) /\ Len(new) = Len(Ids(q))
  <2>1. -1 \in Int
    OBVIOUS
  <2>2. QED
    BY <1>6, <2>1
<1>8. hostLabels'[q] = Before(q) \o new
  BY <1>1, <1>2, <1>6 DEF HostTypes
<1> HIDE DEF new
<1>9. /\ hostLabels'[q] \in Seq(Int) /\ Len(hostLabels'[q]) = Len(Before(q)) + Len(Ids(q))
      /\ \A j \in 1 .. Len(Before(q)) : hostLabels'[q][j] = Before(q)[j]
  <2>1. Before(q) \in Seq(Int) /\ new \in Seq(Int)
    BY <1>6, <1>7
  <2>2. /\ Before(q) \o new \in Seq(Int) /\ Len(Before(q) \o new) = Len(Before(q)) + Len(new)
        /\ \A j \in 1 .. Len(Before(q)) : (Before(q) \o new)[j] = Before(q)[j]
    BY <2>1, Joined, Zenon
  <2>3. QED
    BY <1>7, <1>8, <2>2
<1>10. staged'[q] = Mine(q)
  BY <1>1, <1>2, <1>6 DEF HostTypes, Mine, Spot
<1>11. \A r \in HostPEs \ {q} : hostLabels'[r] = hostLabels[r] /\ staged'[r] = staged[r]
  BY <1>1, <1>2 DEF HostTypes
<1>12. HostTypes'
  <2>1. hostLabels' = [r \in HostPEs |-> hostLabels'[r]] /\ staged' = [r \in HostPEs |-> staged'[r]]
    BY <1>1, <1>2 DEF HostTypes
  <2>2. hostLabels' \in [HostPEs -> Seq(Int)]
    BY <1>2, <1>9, <1>11, <2>1 DEF HostTypes
  <2>3. QED
    BY <1>1, <1>2, <1>3, <2>1, <2>2 DEF HostTypes
<1>13. StagedInv'
  <2>1. ASSUME NEW r \in HostPEs, r # q
        PROVE  /\ Unstaged(r)' => hostLabels'[r] = Before(r)'
               /\ ~ Unstaged(r)' =>
                    /\ Len(hostLabels'[r]) = Len(Before(r)') + Len(Ids(r)')
                    /\ \A j \in 1 .. Len(Before(r)') : hostLabels'[r][j] = Before(r)'[j]
               /\ staged'[r] = IF ~ Unstaged(r)' THEN Mine(r)' ELSE {}
    <3>1. /\ Unstaged(r) => hostLabels[r] = Before(r)
          /\ ~ Unstaged(r) => /\ Len(hostLabels[r]) = Len(Before(r)) + Len(Ids(r))
                              /\ \A j \in 1 .. Len(Before(r)) : hostLabels[r][j] = Before(r)[j]
          /\ staged[r] = IF ~ Unstaged(r) THEN Mine(r) ELSE {}
      BY <1>3 DEF HostInv, StagedInv
    <3>2. QED
      BY <1>4, <1>5, <1>11, <2>1, <3>1
  <2>2. step' \in {"stage", "decompose", "aborted"}
    BY <1>3
  <2>3. QED
    BY <1>4, <1>5, <1>9, <1>10, <2>1, <2>2 DEF StagedInv
<1>14. OwnInv' /\ FilterInv' /\ LabelInv'
  BY <1>1, <1>3, <1>5 DEF OwnInv, FilterInv, LabelInv
<1>15. AnswerInv'
  BY <1>1, <1>5, NoAnswer DEF AnswerInv
<1>16. QED
  BY <1>12, <1>13, <1>14, <1>15 DEF HostInv

\* Every particle that was staged gets an owner.
LEMMA DecomposeInv ==
  ASSUME HostInv, Host!DecomposeStaged
  PROVE  HostInv'
<1>1. /\ step = "decompose" /\ host' = host /\ call' = call /\ left' = left
      /\ hostLabels' = hostLabels /\ cat_min_size' = cat_min_size /\ cat_kept' = cat_kept
      /\ answers' = answers
      /\ \/ step' = "aborted" /\ staged' = staged /\ owned' = owned
         \/ /\ step' = "label" /\ staged' = Host!Nowhere
            /\ \E to \in [Host!AllStaged -> HostPEs] :
                 owned' = [q \in HostPEs |-> {p \in Host!AllStaged : to[p] = q}]
  BY DEF Host!DecomposeStaged
<1>2. HostTypes /\ left = HostPEs /\ answers = Host!EmptyBag
  BY <1>1 DEF HostInv, HostTypes, AnswerInv
<1>3. /\ \A r : Before(r)' = Before(r) /\ Ids(r)' = Ids(r) /\ Mine(r)' = Mine(r)
      /\ \A r : ~ Unstaged(r) /\ ~ Unstaged(r)'
  BY <1>1, SameCall DEF Unstaged
<1>4. \A r \in HostPEs :
        /\ Len(hostLabels[r]) = Len(Before(r)) + Len(Ids(r))
        /\ \A j \in 1 .. Len(Before(r)) : hostLabels[r][j] = Before(r)[j]
        /\ staged[r] = Mine(r)
  BY <1>1, <1>3 DEF HostInv, StagedInv
<1>5. AnswerInv' /\ FilterInv' /\ LabelInv'
  BY <1>1, <1>2, NoAnswer DEF AnswerInv, FilterInv, LabelInv
<1>6. CASE step' = "aborted"
  <2>1. staged' = staged /\ owned' = owned
    BY <1>1, <1>6
  <2>2. HostTypes'
    BY <1>1, <1>2, <1>6, <2>1 DEF HostTypes
  <2>3. StagedInv'
    BY <1>1, <1>3, <1>4, <1>6, <2>1 DEF StagedInv
  <2>4. OwnInv'
    BY <1>1, <1>6, <2>1 DEF HostInv, OwnInv
  <2>5. QED
    BY <1>5, <2>2, <2>3, <2>4 DEF HostInv
<1>7. CASE step' = "label"
  <2>1. PICK to \in [Host!AllStaged -> HostPEs] : owned' = [q \in HostPEs |-> {p \in Host!AllStaged : to[p] = q}]
    BY <1>1, <1>7
  <2>2. staged' = [q \in HostPEs |-> {}]
    BY <1>1, <1>7 DEF Host!Nowhere
  <2>3. HostTypes'
    <3>1. owned' = [q \in HostPEs |-> owned'[q]] /\ staged' = [q \in HostPEs |-> staged'[q]]
      BY <2>1, <2>2
    <3>2. QED
      BY <1>1, <1>2, <1>7, <3>1 DEF HostTypes
  <2>4. StagedInv'
    BY <1>1, <1>3, <1>4, <1>7, <2>2 DEF StagedInv
  <2>5. OwnInv'
    <3>1. ASSUME NEW q \in HostPEs, NEW p \in owned'[q] PROVE \E r \in HostPEs : p \in Mine(r)
      <4>1. p \in Host!AllStaged
        BY <2>1, <3>1
      <4>2. QED
        BY <1>4, <4>1 DEF Host!AllStaged
    <3>2. ASSUME NEW q \in HostPEs, NEW p \in Mine(q) PROVE \E o \in HostPEs : p \in owned'[o]
      <4>1. p \in Host!AllStaged
        BY <1>4, <3>2 DEF Host!AllStaged
      <4>2. QED
        BY <2>1, <4>1
    <3>3. QED
      BY <1>3, <1>7, <3>1, <3>2 DEF OwnInv
  <2>6. QED
    BY <1>5, <2>3, <2>4, <2>5 DEF HostInv
<1>8. QED
  BY <1>1, <1>6, <1>7

\* At the return every label is still with the owner of its particle.
LEMMA AllPending ==
  ASSUME OwnInv', step' = "return", left' = HostPEs
  PROVE  LabelInv'
<1>1. ASSUME NEW q \in HostPEs, NEW i \in DOMAIN Ids(q)' PROVE Pending(q, i)'
  <2>1. PICK p \in Mine(q)' : p = [id |-> Ids(q)'[i], pe |-> q, place |-> Spot(q, i)']
    BY <1>1 DEF Mine
  <2>2. PICK o \in HostPEs : p \in owned'[o]
    BY <2>1 DEF OwnInv
  <2>3. p.pe = q /\ p.place = Spot(q, i)'
    BY <2>1
  <2>4. QED
    BY <2>2, <2>3 DEF Pending
<1>2. QED
  BY <1>1 DEF LabelInv

\* What the chain and the catalogue leave alone.
LEMMA ChainStep ==
  ASSUME HostInv, step \in {"label", "catalog"}, step' \in {"label", "catalog", "return"},
         left' \subseteq HostPEs,
         UNCHANGED <<host, call, staged, owned, hostLabels, answers>>,
         cat_min_size' = [q \in HostPEs |-> cat_min_size'[q]], cat_kept' = [q \in HostPEs |-> cat_kept'[q]]
  PROVE  HostTypes' /\ StagedInv' /\ OwnInv' /\ AnswerInv'
<1>1. \A q : /\ Before(q)' = Before(q) /\ Ids(q)' = Ids(q) /\ Mine(q)' = Mine(q)
             /\ ~ Unstaged(q) /\ ~ Unstaged(q)'
  BY SameCall DEF Unstaged
<1>2. HostTypes'
  BY DEF HostInv, HostTypes
<1>3. StagedInv'
  BY <1>1 DEF HostInv, StagedInv
<1>4. OwnInv'
  BY <1>1 DEF HostInv, OwnInv
<1>5. AnswerInv'
  <2>1. answers = Host!EmptyBag
    BY DEF HostInv, AnswerInv
  <2>2. QED
    BY <2>1, NoAnswer DEF AnswerInv
<1>6. QED
  BY <1>2, <1>3, <1>4, <1>5

\* Phase 1 resets the filter of every PE.
LEMMA ResetInv ==
  ASSUME HostInv, NEW q \in HostPEs, Host!Reset(q)
  PROVE  HostInv'
<1>1. /\ Host!Turn(q, "label", IF Catalogued THEN "catalog" ELSE "return")
      /\ UNCHANGED <<host, call, staged, owned, hostLabels, answers>>
      /\ cat_min_size' = [cat_min_size EXCEPT ![q] = 0] /\ cat_kept' = [cat_kept EXCEPT ![q] = {}]
  BY DEF Host!Reset, Host!Now, Catalogued, Host!NoFilter
<1>2. HostTypes
  BY DEF HostInv
<1>3. /\ step = "label" /\ q \in left /\ left' \subseteq HostPEs
      /\ \/ /\ step' = IF Catalogued THEN "catalog" ELSE "return"
            /\ left' = HostPEs /\ left = {q}
         \/ step' = "label" /\ left' = left \ {q} /\ left # {q}
  BY <1>1, <1>2, TurnIs
<1>4. /\ cat_min_size' = [r \in HostPEs |-> cat_min_size'[r]] /\ cat_kept' = [r \in HostPEs |-> cat_kept'[r]]
      /\ Unfiltered(q)' /\ \A r \in HostPEs \ {q} : Unfiltered(r)' = Unfiltered(r)
  BY <1>1, <1>2 DEF HostTypes, Unfiltered
<1>5. HostTypes' /\ StagedInv' /\ OwnInv' /\ AnswerInv'
  <2>1. step \in {"label", "catalog"} /\ step' \in {"label", "catalog", "return"}
    BY <1>3
  <2>2. QED
    BY <1>1, <1>3, <1>4, <2>1, ChainStep
<1>6. Catalogued' = Catalogued
  BY <1>1, SameCall
<1>7. FilterInv'
  <2>1. \A r \in HostPEs \ left : Unfiltered(r)
    BY <1>3 DEF HostInv, FilterInv
  <2>2. QED
    BY <1>3, <1>4, <1>6, <2>1 DEF FilterInv
<1>8. LabelInv'
  <2>1. CASE step' = "return"
    BY <1>3, <1>5, <2>1, AllPending
  <2>2. CASE step' # "return"
    BY <1>3, <2>2 DEF LabelInv
  <2>3. QED
    BY <2>1, <2>2
<1>9. QED
  BY <1>5, <1>7, <1>8 DEF HostInv

\* The catalogue tells every PE which labels it keeps.
LEMMA CatalogInv ==
  ASSUME HostInv, NEW q \in HostPEs, Host!CatalogStep(q)
  PROVE  HostInv'
<1>1. /\ Host!Turn(q, "catalog", "return")
      /\ UNCHANGED <<host, call, staged, owned, hostLabels, answers>>
      /\ cat_min_size' = [cat_min_size EXCEPT ![q] = host[call].min_group_size]
      /\ cat_kept' = [cat_kept EXCEPT ![q] =
           {Host!Label(p.id) : p \in {x \in owned[q] : Host!Size(x.id) >= host[call].min_group_size}}]
  BY DEF Host!CatalogStep, Host!Now
<1>2. HostTypes
  BY DEF HostInv
<1>3. /\ step = "catalog" /\ q \in left /\ left' \subseteq HostPEs
      /\ \/ step' = "return" /\ left' = HostPEs /\ left = {q}
         \/ step' = "catalog" /\ left' = left \ {q} /\ left # {q}
  BY <1>1, <1>2, TurnIs
<1>4. cat_min_size' = [r \in HostPEs |-> cat_min_size'[r]] /\ cat_kept' = [r \in HostPEs |-> cat_kept'[r]]
  BY <1>1, <1>2 DEF HostTypes
<1>5. HostTypes' /\ StagedInv' /\ OwnInv' /\ AnswerInv'
  <2>1. step \in {"label", "catalog"} /\ step' \in {"label", "catalog", "return"}
    BY <1>3
  <2>2. QED
    BY <1>1, <1>3, <1>4, <2>1, ChainStep
<1>6. Catalogued' = Catalogued
  BY <1>1, SameCall
<1>7. Filtered(q)' /\ \A r \in HostPEs \ {q} : Filtered(r) => Filtered(r)'
  <2>1. \A id : Host!Label(id)' = Host!Label(id) /\ Host!Size(id)' = Host!Size(id)
    BY <1>1 DEF Host!Label, Host!Size, Host!Now
  <2>2. /\ cat_min_size'[q] = host[call].min_group_size
        /\ cat_kept'[q] = {Host!Label(p.id) : p \in {x \in owned[q] : Host!Size(x.id) >= host[call].min_group_size}}
        /\ \A r \in HostPEs \ {q} : cat_min_size'[r] = cat_min_size[r] /\ cat_kept'[r] = cat_kept[r]
    BY <1>1, <1>2 DEF HostTypes
  <2>3. QED
    BY <1>1, <2>1, <2>2 DEF Filtered
<1>8. FilterInv'
  <2>1. Catalogued /\ \A r \in HostPEs \ left : Filtered(r)
    BY <1>3 DEF HostInv, FilterInv
  <2>2. QED
    BY <1>3, <1>6, <1>7, <2>1 DEF FilterInv
<1>9. LabelInv'
  <2>1. CASE step' = "return"
    BY <1>3, <1>5, <2>1, AllPending
  <2>2. CASE step' # "return"
    BY <1>3, <2>2 DEF LabelInv
  <2>3. QED
    BY <2>1, <2>2
<1>10. QED
  BY <1>5, <1>8, <1>9 DEF HostInv

\* A PE returns the labels of the particles it owns: they are in answers now.
LEMMA ReturnInv ==
  ASSUME HostInv, NEW q \in HostPEs, Host!ReturnHostLabels(q)
  PROVE  HostInv'
<1> DEFINE out(r) == {[place |-> p.place, label |-> Host!LabelOn(q, p.id)] : p \in {x \in owned[q] : x.pe = r}}
           sent == {[to |-> r, labels |-> out(r)] : r \in {s \in HostPEs : out(s) # {}}}
<1>1. /\ Host!Turn(q, "return", "quiet")
      /\ UNCHANGED <<host, call, staged, owned, hostLabels, cat_min_size, cat_kept>>
      /\ answers' = Host!(+)(answers, Host!SetToBag(sent))
  BY DEF Host!ReturnHostLabels
<1>2. HostTypes
  BY DEF HostInv
<1>3. /\ step = "return" /\ q \in left /\ left' \subseteq HostPEs
      /\ \/ step' = "quiet" /\ left' = HostPEs /\ left = {q}
         \/ step' = "return" /\ left' = left \ {q} /\ left # {q}
  BY <1>1, <1>2, TurnIs
<1>4. /\ \A r : Before(r)' = Before(r) /\ Ids(r)' = Ids(r) /\ Mine(r)' = Mine(r)
      /\ \A r, i : Spot(r, i)' = Spot(r, i) /\ Final(r, i)' = Final(r, i)
      /\ Catalogued' = Catalogued /\ \A r : ~ Unstaged(r) /\ ~ Unstaged(r)'
  BY <1>1, <1>3, SameCall DEF Unstaged
<1>5. DOMAIN answers' = DOMAIN answers \cup sent /\ ProperBag(answers')
  <2> HIDE DEF sent
  <2>1. QED
    BY <1>1, <1>2, BagGrows DEF HostTypes
<1>6. \A m \in sent : m.to \in HostPEs /\ m.labels = out(m.to)
  OBVIOUS
<1>7. ASSUME NEW r \in HostPEs, NEW x \in out(r)
      PROVE  \E i \in DOMAIN Ids(r) : x = [place |-> Spot(r, i), label |-> Final(r, i)]
  <2>1. PICK p \in owned[q] : p.pe = r /\ x = [place |-> p.place, label |-> Host!LabelOn(q, p.id)]
    BY <1>7
  <2>2. PICK o \in HostPEs : \E i \in DOMAIN Ids(o) :
          p = [id |-> Ids(o)[i], pe |-> o, place |-> Spot(o, i)] /\ Host!LabelOn(q, p.id) = Final(o, i)
    BY <1>3, LabelRight
  <2>3. PICK i \in DOMAIN Ids(o) :
          p = [id |-> Ids(o)[i], pe |-> o, place |-> Spot(o, i)] /\ Host!LabelOn(q, p.id) = Final(o, i)
    BY <2>2
  <2>4. p.pe = o /\ p.place = Spot(o, i)
    BY <2>3
  <2>5. QED
    BY <2>1, <2>3, <2>4
<1>8. ASSUME NEW r \in HostPEs, NEW p \in owned[q], p.pe = r
      PROVE  \E m \in sent : m.to = r /\ \E x \in m.labels : x.place = p.place
  <2>1. PICK x \in out(r) : x = [place |-> p.place, label |-> Host!LabelOn(q, p.id)]
    BY <1>8
  <2>2. PICK m \in sent : m = [to |-> r, labels |-> out(r)]
    BY <2>1
  <2>3. x.place = p.place /\ m.to = r /\ x \in m.labels
    BY <2>1, <2>2
  <2>4. QED
    BY <2>3
<1> HIDE DEF sent, out
<1>9. HostTypes'
  BY <1>1, <1>2, <1>3, <1>5 DEF HostTypes
<1>10. StagedInv'
  BY <1>1, <1>3, <1>4 DEF HostInv, StagedInv
<1>11. OwnInv'
  BY <1>1, <1>3, <1>4 DEF HostInv, OwnInv
<1>12. FilterInv'
  <2>1. \A r : Unfiltered(r)' = Unfiltered(r) /\ Filtered(r)' = Filtered(r)
    BY <1>1 DEF Unfiltered, Filtered, Host!Label, Host!Size, Host!Now
  <2>2. QED
    BY <1>3, <1>4, <2>1 DEF HostInv, FilterInv
<1>13. AnswerInv'
  <2>1. ASSUME NEW m \in DOMAIN answers'
        PROVE  /\ m.to \in HostPEs
               /\ \A x \in m.labels : \E i \in DOMAIN Ids(m.to) :
                    x = [place |-> Spot(m.to, i), label |-> Final(m.to, i)]
    <3>1. CASE m \in DOMAIN answers
      BY <3>1 DEF HostInv, AnswerInv
    <3>2. CASE m \in sent
      BY <1>6, <1>7, <3>2
    <3>3. QED
      BY <1>5, <2>1, <3>1, <3>2
  <2>2. QED
    BY <1>3, <1>4, <2>1 DEF AnswerInv
<1>14. LabelInv'
  <2>1. ASSUME NEW r \in HostPEs, NEW i, Pending(r, i)
        PROVE  Pending(r, i)'
    <3>1. CASE \E m \in DOMAIN answers : m.to = r /\ \E x \in m.labels : x.place = Spot(r, i)
      BY <1>4, <1>5, <3>1 DEF Pending
    <3>2. CASE \E o \in left : \E p \in owned[o] : p.pe = r /\ p.place = Spot(r, i)
      <4>1. PICK o \in left : \E p \in owned[o] : p.pe = r /\ p.place = Spot(r, i)
        BY <3>2
      <4>2. CASE o = q
        <5>1. PICK m \in sent : m.to = r /\ \E x \in m.labels : x.place = Spot(r, i)
          BY <1>8, <2>1, <4>1, <4>2
        <5>2. QED
          BY <1>4, <1>5, <5>1 DEF Pending
      <4>3. CASE o # q
        <5>1. step' = "return" /\ o \in left'
          BY <1>3, <4>1, <4>3
        <5>2. QED
          BY <1>1, <1>4, <4>1, <5>1 DEF Pending
      <4>4. QED
        BY <4>2, <4>3
    <3>3. QED
      BY <2>1, <3>1, <3>2 DEF Pending
  <2>2. \A r \in HostPEs : \A i \in DOMAIN Ids(r) : hostLabels[r][Spot(r, i)] = Final(r, i) \/ Pending(r, i)
    BY <1>3 DEF HostInv, LabelInv
  <2>3. QED
    BY <1>1, <1>4, <2>1, <2>2 DEF LabelInv
<1>15. QED
  BY <1>9, <1>10, <1>11, <1>12, <1>13, <1>14 DEF HostInv

\* An answer puts its labels where they belong, and touches nothing else.
LEMMA ReceiveInv ==
  ASSUME HostInv, Host!ReceiveHostLabels
  PROVE  HostInv'
<1>1. PICK m \in DOMAIN answers :
        /\ answers' = Host!(-)(answers, Host!SetToBag({m}))
        /\ hostLabels' = [hostLabels EXCEPT ![m.to] =
             [i \in DOMAIN @ |-> IF \E x \in m.labels : x.place = i
                                   THEN (CHOOSE x \in m.labels : x.place = i).label ELSE @[i]]]
  BY DEF Host!ReceiveHostLabels
<1>2. UNCHANGED <<host, call, step, left, staged, owned, cat_min_size, cat_kept>>
  BY DEF Host!ReceiveHostLabels
<1>3. HostTypes
  BY DEF HostInv
<1>4. step \in {"return", "quiet"}
  BY <1>1, NoAnswer DEF HostInv, AnswerInv
<1>5. /\ \A r : Before(r)' = Before(r) /\ Ids(r)' = Ids(r) /\ Mine(r)' = Mine(r)
      /\ \A r, i : Spot(r, i)' = Spot(r, i) /\ Final(r, i)' = Final(r, i)
      /\ Catalogued' = Catalogued /\ \A r : ~ Unstaged(r) /\ ~ Unstaged(r)'
  BY <1>2, <1>4, SameCall DEF Unstaged
<1>6. ProperBag(answers') /\ DOMAIN answers' \subseteq DOMAIN answers /\ DOMAIN answers \ {m} \subseteq DOMAIN answers'
  BY <1>1, <1>3, BagShrinks DEF HostTypes
<1>7. PICK t : t = m.to
  OBVIOUS
<1>8. /\ t \in HostPEs
      /\ \A x \in m.labels : \E i \in DOMAIN Ids(t) : x = [place |-> Spot(t, i), label |-> Final(t, i)]
  BY <1>7 DEF HostInv, AnswerInv
<1>9. PICK b : b = Len(Before(t))
  OBVIOUS
<1>10. PICK n : n = Len(Ids(t))
  OBVIOUS
<1>11. PICK old : old = hostLabels[t]
  OBVIOUS
<1>12. /\ b \in Nat /\ n \in Nat /\ DOMAIN Ids(t) = 1 .. n
       /\ \A i \in 1 .. n : Spot(t, i) = b + i /\ Final(t, i) \in Int
       /\ old \in Seq(Int) /\ Len(old) = b + n /\ DOMAIN old = 1 .. b + n
  <2>1. /\ b \in Nat /\ n \in Nat /\ DOMAIN Ids(t) = 1 .. n /\ \A i \in 1 .. n : Final(t, i) \in Int
    BY <1>3, <1>8, <1>9, <1>10, PlacesAre
  <2>2. \A i \in 1 .. n : Spot(t, i) = b + i
    BY <1>9 DEF Spot
  <2>3. old \in Seq(Int)
    BY <1>3, <1>8, <1>11 DEF HostTypes
  <2>4. Len(old) = b + n
    BY <1>5, <1>8, <1>9, <1>10, <1>11 DEF HostInv, StagedInv
  <2>5. DOMAIN old = 1 .. b + n
    BY <2>3, <2>4
  <2>6. QED
    BY <2>1, <2>2, <2>3, <2>4, <2>5
<1> DEFINE In(i) == \E x \in m.labels : x.place = i
           Found(i) == CHOOSE x \in m.labels : x.place = i
           new == [i \in 1 .. b + n |-> IF In(i) THEN Found(i).label ELSE old[i]]
<1>13. hostLabels'[t] = new
  BY <1>1, <1>3, <1>7, <1>8, <1>11, <1>12 DEF HostTypes
<1>14. \A r \in HostPEs \ {t} : hostLabels'[r] = hostLabels[r]
  BY <1>1, <1>3, <1>7 DEF HostTypes
<1>15. ASSUME NEW i \in 1 .. b + n, In(i)
       PROVE  \E k \in 1 .. n : i = b + k /\ Found(i).label = Final(t, k)
  <2>1. Found(i) \in m.labels /\ Found(i).place = i
    BY <1>15
  <2>2. PICK a : a = Found(i)
    OBVIOUS
  <2> HIDE DEF Found, In
  <2>3. PICK k \in 1 .. n : a = [place |-> Spot(t, k), label |-> Final(t, k)]
    BY <1>8, <1>12, <2>1, <2>2
  <2>4. a.place = b + k /\ a.label = Final(t, k)
    BY <1>12, <2>3
  <2>5. QED
    BY <2>1, <2>2, <2>4
<1> HIDE DEF Found
<1>16. /\ new \in Seq(Int) /\ Len(new) = b + n
       /\ \A j \in 1 .. b : new[j] = old[j]
       /\ \A k \in 1 .. n : In(b + k) => new[b + k] = Final(t, k)
       /\ \A k \in 1 .. n : ~ In(b + k) => new[b + k] = old[b + k]
  <2> HIDE DEF In
  <2>1. \A i \in 1 .. b + n : (IF In(i) THEN Found(i).label ELSE old[i]) \in Int
    <3>1. \A i \in 1 .. b + n : old[i] \in Int
      BY <1>12
    <3>2. QED
      BY <1>12, <1>15, <3>1
  <2>2. \A i \in 1 .. b + n : new[i] = IF In(i) THEN Found(i).label ELSE old[i]
    OBVIOUS
  <2>3. b + n \in Nat /\ new \in [1 .. b + n -> Int]
    BY <1>12, <2>1
  <2> HIDE DEF new
  <2>4. new \in Seq(Int) /\ Len(new) = b + n
    BY <2>3
  <2>5. ASSUME NEW j \in 1 .. b PROVE new[j] = old[j]
    <3>1. j \in 1 .. b + n /\ \A k \in 1 .. n : j # b + k
      BY <1>12
    <3>2. ~ In(j)
      BY <1>15, <3>1
    <3>3. QED
      BY <2>2, <3>1, <3>2
  <2>6. ASSUME NEW k \in 1 .. n
        PROVE  (In(b + k) => new[b + k] = Final(t, k)) /\ (~ In(b + k) => new[b + k] = old[b + k])
    <3>1. b + k \in 1 .. b + n /\ \A l \in 1 .. n : b + k = b + l => k = l
      BY <1>12
    <3>2. In(b + k) => Found(b + k).label = Final(t, k)
      BY <1>15, <3>1
    <3>3. QED
      BY <2>2, <3>1, <3>2
  <2>7. QED
    BY <2>4, <2>5, <2>6
<1> HIDE DEF new
<1>17. HostTypes'
  <2>1. hostLabels' = [r \in HostPEs |-> hostLabels'[r]]
    BY <1>1, <1>3 DEF HostTypes
  <2>2. hostLabels' \in [HostPEs -> Seq(Int)]
    BY <1>3, <1>13, <1>14, <1>16, <2>1 DEF HostTypes
  <2>3. QED
    BY <1>2, <1>3, <1>6, <2>2 DEF HostTypes
<1>18. StagedInv'
  <2>1. ASSUME NEW r \in HostPEs
        PROVE  /\ Len(hostLabels'[r]) = Len(Before(r)) + Len(Ids(r))
               /\ \A j \in 1 .. Len(Before(r)) : hostLabels'[r][j] = Before(r)[j]
    <3>1. /\ Len(hostLabels[r]) = Len(Before(r)) + Len(Ids(r))
          /\ \A j \in 1 .. Len(Before(r)) : hostLabels[r][j] = Before(r)[j]
      BY <1>5 DEF HostInv, StagedInv
    <3>2. CASE r = t
      BY <1>9, <1>10, <1>11, <1>13, <1>16, <3>1, <3>2
    <3>3. CASE r # t
      BY <1>14, <3>1, <3>3
    <3>4. QED
      BY <3>2, <3>3
  <2>2. \A r \in HostPEs : staged'[r] = {}
    BY <1>2, <1>4 DEF HostInv, StagedInv
  <2>3. QED
    BY <1>2, <1>4, <1>5, <2>1, <2>2 DEF StagedInv
<1>19. OwnInv'
  BY <1>2, <1>5 DEF HostInv, OwnInv
<1>20. FilterInv'
  <2>1. \A r : Unfiltered(r)' = Unfiltered(r) /\ Filtered(r)' = Filtered(r)
    BY <1>2 DEF Unfiltered, Filtered, Host!Label, Host!Size, Host!Now
  <2>2. QED
    BY <1>2, <1>5, <2>1 DEF HostInv, FilterInv
<1>21. AnswerInv'
  BY <1>2, <1>4, <1>5, <1>6 DEF HostInv, AnswerInv
<1>22. LabelInv'
  <2>1. ASSUME NEW r \in HostPEs, NEW i \in DOMAIN Ids(r)
        PROVE  hostLabels'[r][Spot(r, i)] = Final(r, i) \/ Pending(r, i)'
    <3>1. hostLabels[r][Spot(r, i)] = Final(r, i) \/ Pending(r, i)
      BY <1>4 DEF HostInv, LabelInv
    <3>2. CASE r = t /\ In(Spot(r, i))
      <4>1. i \in 1 .. n /\ Spot(r, i) = b + i
        BY <1>12, <2>1, <3>2
      <4>2. QED
        BY <1>13, <1>16, <3>2, <4>1
    <3>3. CASE r # t \/ ~ In(Spot(r, i))
      <4>1. hostLabels'[r][Spot(r, i)] = hostLabels[r][Spot(r, i)]
        <5>1. CASE r # t
          BY <1>14, <5>1
        <5>2. CASE r = t
          <6>1. i \in 1 .. n /\ Spot(r, i) = b + i /\ ~ In(b + i)
            BY <1>12, <2>1, <3>3, <5>2
          <6>2. QED
            BY <1>11, <1>13, <1>16, <5>2, <6>1
        <5>3. QED
          BY <5>1, <5>2
      <4>2. Pending(r, i) => Pending(r, i)'
        BY <1>2, <1>5, <1>6, <1>7, <3>3 DEF Pending
      <4>3. QED
        BY <3>1, <4>1, <4>2
    <3>4. QED
      BY <3>2, <3>3
  <2>2. QED
    BY <1>5, <2>1 DEF LabelInv
<1>23. QED
  BY <1>17, <1>18, <1>19, <1>20, <1>21, <1>22 DEF HostInv

\* When no answer is under way every label has come.
LEMMA QuietInv ==
  ASSUME HostInv, Host!Quiet
  PROVE  HostInv'
<1>1. /\ step = "quiet" /\ step' = "release" /\ answers = Host!EmptyBag
      /\ UNCHANGED <<host, call, left, staged, owned, hostLabels, cat_min_size, cat_kept, answers>>
  BY DEF Host!Quiet
<1>2. /\ \A r : Before(r)' = Before(r) /\ Ids(r)' = Ids(r) /\ Mine(r)' = Mine(r)
      /\ \A r, i : Spot(r, i)' = Spot(r, i) /\ Final(r, i)' = Final(r, i)
      /\ \A r : ~ Unstaged(r) /\ ~ Unstaged(r)'
  BY <1>1, SameCall DEF Unstaged
<1>3. \A r, i : ~ Pending(r, i)
  BY <1>1, NoAnswer DEF Pending
<1>4. HostTypes'
  BY <1>1 DEF HostInv, HostTypes
<1>5. StagedInv'
  BY <1>1, <1>2 DEF HostInv, StagedInv
<1>6. OwnInv'
  <2>1. left' = HostPEs
    BY <1>1 DEF HostInv, HostTypes
  <2>2. QED
    BY <1>1, <2>1 DEF OwnInv
<1>7. FilterInv'
  BY <1>1 DEF FilterInv
<1>8. AnswerInv'
  BY <1>1, NoAnswer DEF AnswerInv
<1>9. LabelInv'
  BY <1>1, <1>2, <1>3 DEF HostInv, LabelInv
<1>10. QED
  BY <1>4, <1>5, <1>6, <1>7, <1>8, <1>9 DEF HostInv

\* The scratch of a PE goes, and its particles.
LEMMA ReleaseInv ==
  ASSUME HostInv, NEW q \in HostPEs, Host!ReleaseScratch(q)
  PROVE  HostInv'
<1>1. /\ Host!Turn(q, "release", "called")
      /\ UNCHANGED <<host, call, staged, hostLabels, cat_min_size, answers>>
      /\ cat_kept' = [cat_kept EXCEPT ![q] = {}] /\ owned' = [owned EXCEPT ![q] = {}]
  BY DEF Host!ReleaseScratch
<1>2. HostTypes
  BY DEF HostInv
<1>3. /\ step = "release" /\ q \in left /\ left' \subseteq HostPEs
      /\ \/ step' = "called" /\ left' = HostPEs /\ left = {q}
         \/ step' = "release" /\ left' = left \ {q} /\ left # {q}
  BY <1>1, <1>2, TurnIs
<1>4. /\ \A r : Before(r)' = Before(r) /\ Ids(r)' = Ids(r) /\ Mine(r)' = Mine(r)
      /\ \A r, i : Spot(r, i)' = Spot(r, i) /\ Final(r, i)' = Final(r, i)
      /\ \A r : ~ Unstaged(r) /\ ~ Unstaged(r)'
  BY <1>1, <1>3, SameCall DEF Unstaged
<1>5. answers = Host!EmptyBag
  BY <1>3 DEF HostInv, AnswerInv
<1>6. HostTypes'
  <2>1. owned' = [r \in HostPEs |-> owned'[r]] /\ cat_kept' = [r \in HostPEs |-> cat_kept'[r]]
    BY <1>1, <1>2 DEF HostTypes
  <2>2. QED
    BY <1>1, <1>2, <1>3, <2>1 DEF HostTypes
<1>7. StagedInv'
  BY <1>1, <1>3, <1>4 DEF HostInv, StagedInv
<1>8. OwnInv'
  <2>1. \A r \in HostPEs \ left : owned[r] = {}
    BY <1>3 DEF HostInv, OwnInv
  <2>2. \A r \in HostPEs : owned'[r] = IF r = q THEN {} ELSE owned[r]
    BY <1>1, <1>2 DEF HostTypes
  <2>3. QED
    BY <1>3, <2>1, <2>2 DEF OwnInv
<1>9. FilterInv'
  BY <1>3 DEF FilterInv
<1>10. AnswerInv'
  BY <1>1, <1>5, NoAnswer DEF AnswerInv
<1>11. LabelInv'
  <2>1. \A r, i : ~ Pending(r, i)
    BY <1>3, <1>5, NoAnswer DEF Pending
  <2>2. QED
    BY <1>1, <1>3, <1>4, <2>1 DEF HostInv, LabelInv
<1>12. QED
  BY <1>6, <1>7, <1>8, <1>9, <1>10, <1>11 DEF HostInv

\* When the host is called every PE has what it is to have.
LEMMA AllReturned ==
  ASSUME HostInv, step = "called", NEW q \in HostPEs
  PROVE  hostLabels[q] = Host!Held(host, q)[call] /\ staged[q] = {} /\ owned[q] = {}
<1>1. HostTypes /\ answers = Host!EmptyBag /\ ~ Unstaged(q)
  BY DEF HostInv, AnswerInv, Unstaged
<1>2. PICK h : h = hostLabels[q]
  OBVIOUS
<1>3. PICK w : w = Host!Held(host, q)[call]
  OBVIOUS
<1>4. PICK b : b = Len(Before(q))
  OBVIOUS
<1>5. PICK n : n = Len(Ids(q))
  OBVIOUS
<1>6. /\ b \in Nat /\ n \in Nat /\ DOMAIN Ids(q) = 1 .. n
      /\ h \in Seq(Int) /\ Len(h) = b + n /\ \A j \in 1 .. b : h[j] = Before(q)[j]
  BY <1>1, <1>2, <1>4, <1>5, PlacesAre DEF HostInv, HostTypes, StagedInv
<1>7. \A i \in 1 .. n : h[b + i] = Final(q, i)
  <2>1. \A i : ~ Pending(q, i)
    BY <1>1, NoAnswer DEF Pending
  <2>2. QED
    BY <1>2, <1>4, <1>6, <2>1 DEF HostInv, LabelInv, Spot
<1>8. /\ w \in Seq(Int) /\ Len(w) = b + n /\ \A j \in 1 .. b : w[j] = Before(q)[j]
      /\ \A i \in 1 .. n : w[b + i] = Final(q, i)
  BY <1>1, <1>3, <1>4, <1>5, HeldNow DEF Spot
<1>9. h = w
  <2>1. ASSUME NEW j \in 1 .. b + n PROVE h[j] = w[j]
    <3>1. CASE j <= b
      <4>1. j \in 1 .. b
        BY <1>6, <3>1
      <4>2. QED
        BY <1>6, <1>8, <4>1
    <3>2. CASE ~ (j <= b)
      <4>1. j - b \in 1 .. n /\ b + (j - b) = j
        BY <1>6, <3>2
      <4>2. QED
        BY <1>7, <1>8, <4>1
    <3>3. QED
      BY <3>1, <3>2
  <2>2. h = [j \in 1 .. b + n |-> h[j]] /\ w = [j \in 1 .. b + n |-> w[j]]
    BY <1>6, <1>8
  <2>3. QED
    BY <2>1, <2>2
<1>10. QED
  BY <1>2, <1>3, <1>9 DEF HostInv, StagedInv, OwnInv

\* The host calls again with what it has kept.
LEMMA AgainInv ==
  ASSUME HostInv, Host!CallAgain
  PROVE  HostInv'
<1>1. /\ step = "called" /\ call < Len(host) /\ call' = call + 1 /\ step' = "stage"
      /\ hostLabels' = IF host[call].clears THEN [q \in HostPEs |-> << >>] ELSE hostLabels
      /\ UNCHANGED <<host, left, staged, owned, cat_min_size, cat_kept, answers>>
  BY DEF Host!CallAgain, Host!Now
<1>2. HostTypes /\ left = HostPEs /\ answers = Host!EmptyBag
  BY <1>1 DEF HostInv, HostTypes, AnswerInv
<1>3. host \in TheHosts /\ call \in 1 .. Len(host) /\ Len(host) \in Nat
  BY <1>2, CallsAre DEF HostTypes
<1>4. call + 1 \in 1 .. Len(host) /\ call + 1 > 1 /\ (call + 1) - 1 = call
  BY <1>1, <1>3
<1>5. \A q \in HostPEs : Before(q)' = IF host[call].clears THEN << >> ELSE Host!Held(host, q)[call]
  BY <1>1, <1>4 DEF Before, Past
<1>6. \A q \in HostPEs : /\ hostLabels[q] = Host!Held(host, q)[call]
                         /\ staged[q] = {} /\ owned[q] = {}
  BY <1>1, AllReturned
<1>7. \A q \in HostPEs : hostLabels'[q] = Before(q)'
  BY <1>1, <1>5, <1>6
<1>8. \A q \in HostPEs : Unstaged(q)'
  BY <1>1, <1>2 DEF Unstaged
<1>9. HostTypes'
  <2>1. << >> \in Seq(Int)
    OBVIOUS
  <2>2. hostLabels' \in [HostPEs -> Seq(Int)]
    BY <1>1, <1>2, <2>1 DEF HostTypes
  <2>3. call' \in 1 .. Len(host')
    BY <1>1, <1>4
  <2>4. QED
    BY <1>1, <1>2, <2>2, <2>3 DEF HostTypes
<1>10. StagedInv'
  BY <1>1, <1>6, <1>7, <1>8 DEF StagedInv
<1>11. OwnInv' /\ FilterInv' /\ LabelInv'
  BY <1>1, <1>6 DEF OwnInv, FilterInv, LabelInv
<1>12. AnswerInv'
  BY <1>1, <1>2, NoAnswer DEF AnswerInv
<1>13. QED
  BY <1>9, <1>10, <1>11, <1>12 DEF HostInv

\* A host that has not called yet.
LEMMA HostStarts ==
  ASSUME NEW s \in Scenarios, Host!StartHost(s.host)
  PROVE  HostInv
<1>1. /\ host = s.host /\ call = 1 /\ step = "stage" /\ left = HostPEs
      /\ staged = [q \in HostPEs |-> {}] /\ owned = [q \in HostPEs |-> {}]
      /\ hostLabels = [q \in HostPEs |-> << >>]
      /\ cat_min_size = [q \in HostPEs |-> 0] /\ cat_kept = [q \in HostPEs |-> {}]
      /\ answers = Host!EmptyBag
  BY DEF Host!StartHost, Host!Nowhere
<1>2. host \in TheHosts /\ call \in 1 .. Len(host)
  <2>1. host \in TheHosts
    BY <1>1 DEF TheHosts
  <2>2. Len(host) \in Nat \ {0}
    BY <2>1, CallsAre
  <2>3. QED
    BY <1>1, <2>1, <2>2
<1>3. HostTypes
  <2>1. << >> \in Seq(Int)
    OBVIOUS
  <2>2. hostLabels \in [HostPEs -> Seq(Int)]
    BY <1>1, <2>1
  <2>3. /\ staged = [q \in HostPEs |-> staged[q]] /\ owned = [q \in HostPEs |-> owned[q]]
        /\ cat_min_size = [q \in HostPEs |-> cat_min_size[q]] /\ cat_kept = [q \in HostPEs |-> cat_kept[q]]
    BY <1>1
  <2>4. QED
    BY <1>1, <1>2, <2>2, <2>3, NoAnswer DEF HostTypes
<1>4. \A q \in HostPEs : Unstaged(q) /\ Before(q) = << >>
  <2>1. \A q \in HostPEs : Host!Held(host, q)[0] = << >>
    BY <1>2, HeldIs
  <2>2. ~ (call > 1) /\ call - 1 = 0
    BY <1>1
  <2>3. QED
    BY <1>1, <2>1, <2>2 DEF Unstaged, Before, Past
<1>5. StagedInv
  BY <1>1, <1>4 DEF StagedInv
<1>6. OwnInv /\ FilterInv /\ LabelInv
  BY <1>1 DEF OwnInv, FilterInv, LabelInv
<1>7. AnswerInv
  BY <1>1, NoAnswer DEF AnswerInv
<1>8. QED
  BY <1>3, <1>5, <1>6, <1>7 DEF HostInv

\* A host that stages its particles on any PEs, call after call, finds after every call on
\* every PE the labels of what it has staged there since it last cleared, in the order of
\* the staging, whatever the calls before have left of their catalogues; and no particle
\* of a call is left behind for the next.
THEOREM LabelsAreReturned == IterationSpec => []LabelsReturned
<1>1. IterationInit => HostInv
  <2>1. ASSUME IterationInit PROVE HostInv
    <3>1. PICK s \in Scenarios : Host!StartHost(s.host)
      BY <2>1 DEF IterationInit
    <3>2. QED
      BY <3>1, HostStarts
  <2>2. QED
    BY <2>1
<1>2. HostInv /\ [IterationNext]_iterationVars => HostInv'
  <2>1. ASSUME HostInv, [IterationNext]_iterationVars PROVE HostInv'
    <3>1. HostStep \/ UNCHANGED hostVars
      BY <2>1
      DEF IterationNext, iterationVars, stageVars, FlushStep, ShipStep, GatherStep, LoadStep, DriveStep
    <3>2. CASE UNCHANGED hostVars
      BY <2>1, <3>2, HostInvKept DEF hostVars
    <3>3. CASE HostStep
      <4>1. CASE Host!WhenReady \/ Host!Ready
        BY <2>1, <4>1, HostInvKept DEF Host!WhenReady, Host!Ready
      <4>2. CASE Host!DecomposeStaged
        BY <2>1, <4>2, DecomposeInv
      <4>3. CASE Host!ReceiveHostLabels
        BY <2>1, <4>3, ReceiveInv
      <4>4. CASE Host!Quiet
        BY <2>1, <4>4, QuietInv
      <4>5. CASE Host!CallAgain
        BY <2>1, <4>5, AgainInv
      <4>6. CASE \E q \in HostPEs :
                   Host!Stage(q) \/ Host!Reset(q) \/ Host!CatalogStep(q) \/ Host!ReturnHostLabels(q) \/ Host!ReleaseScratch(q)
        <5>1. PICK q \in HostPEs :
                Host!Stage(q) \/ Host!Reset(q) \/ Host!CatalogStep(q) \/ Host!ReturnHostLabels(q) \/ Host!ReleaseScratch(q)
          BY <4>6
        <5>2. QED
          BY <2>1, <5>1, StageInv, ResetInv, CatalogInv, ReturnInv, ReleaseInv
      <4>7. QED
        BY <3>3, <4>1, <4>2, <4>3, <4>4, <4>5, <4>6 DEF HostStep, Host!Next
    <3>4. QED
      BY <3>1, <3>2, <3>3
  <2>2. QED
    BY <2>1
<1>3. HostInv => LabelsReturned
  <2>1. ASSUME HostInv PROVE Host!LabelsReturned
    BY <2>1, AllReturned DEF Host!LabelsReturned, Host!AllStaged
  <2>2. QED
    BY <2>1 DEF LabelsReturned
<1>4. QED
  BY <1>1, <1>2, <1>3, PTL DEF IterationSpec
===============================================================================
