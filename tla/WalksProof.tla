------------------------------ MODULE WalksProof ------------------------------
(***************************************************************************)
(* What the walks promise, for every tree, visitor and order of events.    *)
(*                                                                         *)
(* A transposed walk meets each node once, with one set of buckets: those  *)
(* that opened its parent.  A node that some bucket has to visit is in one *)
(* of four places: in the recursion, waiting in curr_nodes for its data,   *)
(* below an entry of paused_curr_nodes, or behind the walk.                *)
(*                                                                         *)
(* A basic or an up-and-down walk keeps its types, and has a goDown coming *)
(* for what is queued.                                                     *)
(***************************************************************************)
EXTENDS Walks, FiniteSetTheorems, SequenceTheorems, WellFoundedInduction, TLAPS

-----------------------------------------------------------------------------
(* The inductive invariant of TransposedWalk.                              *)

\* The buckets that node n is due for, and whether the walk has come to its parent.
Reach(n) == IF n = 1 THEN Buckets ELSE opened[Parent(n)]
Arrived(n) == started /\ (n = 1 \/ opened[Parent(n)] # {})

\* The nodes of a stack, and that it has none twice.
OnIt(s, n) == \E i \in DOMAIN s : s[i].node = n
NoneTwice(s) == \A i, j \in DOMAIN s : i # j => s[i].node # s[j].node

\* The places.
OnStack(n) == OnIt(stack, n)
WaitsAt(n) == n # resuming /\ curr_nodes[n] # {}
PutAside(n) ==
  \E i \in DOMAIN paused_curr_nodes : i > next_paused /\ paused_curr_nodes[i].node = Parent(n)
Behind(n) == ~ OnStack(n) /\ ~ WaitsAt(n) /\ ~ PutAside(n)

\* Nobody has visited n.
Fresh(n) == opened[n] = {} /\ \A b \in Buckets : visits[n][b] = 0

EntryOK(n, O) ==
  /\ Arrived(n) /\ Fresh(n)
  /\ O = Reach(n)
  /\ ~ WaitsAt(n) /\ ~ PutAside(n)

StackInv ==
  /\ \A i \in DOMAIN stack : EntryOK(stack[i].node, stack[i].active)
  /\ NoneTwice(stack)

CurrInv ==
  \A n \in Nodes : curr_nodes[n] # {} =>
    /\ Arrived(n)
    /\ n # resuming => Fresh(n)
    /\ curr_nodes[n] = Reach(n)
    /\ ~ PutAside(n)

AsideInv ==
  /\ \A i \in DOMAIN paused_curr_nodes : i > next_paused =>
       LET p == paused_curr_nodes[i] IN
       /\ p.active = opened[p.node] /\ p.active # {}
       /\ \A n \in Nodes : Parent(n) = p.node => Fresh(n)
  /\ \A i, j \in DOMAIN paused_curr_nodes :
       i > next_paused /\ j > next_paused /\ i # j
         => paused_curr_nodes[i].node # paused_curr_nodes[j].node

OpenedInv ==
  \A n \in Nodes : /\ opened[n] # {} => Here(n) /\ n \notin Leaves /\ Arrived(n)
                   /\ ~ Arrived(n) => Fresh(n)

VisitInv ==
  \A n \in Nodes : \A b \in Buckets :
    /\ visits[n][b] <= 1
    /\ Arrived(n) /\ Behind(n) /\ b \in Reach(n) /\ (n # b \/ CallSelfLeaf) => visits[n][b] = 1

\* A node that waits has a wake-up ahead.
WaitInv ==
  /\ \A n \in Nodes : WaitsAt(n) =>
       n = parking \/ n \in parked \cup wakes \/ \E i \in DOMAIN resume_nodes : resume_nodes[i] = n
  /\ parked \subseteq requested \ installed
  /\ parking \in requested \cup {0}
  /\ wakes \cup processed_keys \subseteq installed
  /\ \A i \in DOMAIN resume_nodes : resume_nodes[i] \in installed \cap requested
  /\ wakes \subseteq requested
  /\ resuming # 0 => resuming \in installed /\ curr_nodes[resuming] # {}
  /\ \A n \in processed_keys : curr_nodes[n] = {}

EntryInv ==
  /\ stack # << >> \/ parking # 0 => entry # "none"
  /\ resuming # 0 => entry = "goDown"
  /\ next_paused # 0 => entry = "resumeAfterPause"
  /\ goDowns = (IF entry = "goDown" \/ resume_nodes = << >> THEN 0 ELSE 1)
  /\ ~ started => /\ entry = "none" /\ parked = {} /\ wakes = {} /\ resume_nodes = << >>
                  /\ resumes = 0 /\ paused_curr_nodes = << >>

\* What is in the cache or asked for has its parent there.
CacheInv ==
  \A n \in installed \cup requested : Parent(n) \in Remote => Parent(n) \in installed

\* All the canopies are shipped before the walk begins.
WholePacks == Packs \subseteq {Canopies}

PauseInv ==
  /\ Canopies \subseteq installed /\ requested \subseteq Remote
  /\ entry = "goDown" => \A i \in DOMAIN stack : stack[i].node \in Remote
  /\ paused_curr_nodes # << >> =>
       /\ entry = "start" => WantsPause(handle_count, num_requested)
       /\ entry \in {"none", "goDown"} => resumes > 0

\* Where the nodes are.
PlaceInv == StackInv /\ CurrInv /\ AsideInv /\ OpenedInv /\ VisitInv

IInv ==
  /\ TypeOK /\ PlaceInv
  /\ WaitInv /\ EntryInv /\ CacheInv
  /\ WholePacks => PauseInv

\* When all is quiet, every node that a bucket has to visit is visited or left aside.
LosesNothing ==
  Quiescent => \A n \in Nodes : \A b \in Buckets :
                 Due(n, b) => visits[n][b] = 1 \/ PutAside(n)

-----------------------------------------------------------------------------
(* Lemmas on trees and stacks.                                             *)

\* The children of a node are the keys whose parent it is.
Child(n, i) == n * BranchFactor + i - 1

LEMMA ChildrenHaveParent ==
  /\ Parent(1) = 0 /\ 0 \notin Nodes
  /\ \A n \in Nodes, i \in 1 .. BranchFactor : Parent(Child(n, i)) = n
  /\ \A c \in Nodes : \E i \in 1 .. BranchFactor : c = Child(Parent(c), i)
  /\ \A n \in Nodes, i, j \in 1 .. BranchFactor : Child(n, i) = Child(n, j) => i = j
<1>1. /\ BranchFactor \in Nat \ {0, 1} /\ Nodes \subseteq Nat \ {0}
  BY WalkAssumption
<1>2. Parent(1) = 0 /\ 0 \notin Nodes
  BY <1>1 DEF Parent
<1>3. ASSUME NEW n \in Nodes, NEW i \in 1 .. BranchFactor
      PROVE  Parent(n * BranchFactor + i - 1) = n
  <2>1. n \in Nat /\ i - 1 \in 0 .. BranchFactor - 1 /\ BranchFactor \in Nat \ {0}
    BY <1>1, <1>3
  <2>2. n * BranchFactor + i - 1 \in Nat
    BY <2>1
  <2>3. n * BranchFactor + i - 1 = BranchFactor * n + (i - 1)
    BY <2>1, <1>3
  <2> QED
    BY <2>1, <2>2, <2>3, <1>3 DEF Parent
<1>4. ASSUME NEW c \in Nodes
      PROVE  \E i \in 1 .. BranchFactor : c = Parent(c) * BranchFactor + i - 1
  <2>1. c \in Nat /\ BranchFactor \in Nat \ {0}
    BY <1>1, <1>4
  <2>2. /\ c \div BranchFactor \in Int /\ BranchFactor * (c \div BranchFactor) <= c
        /\ c - BranchFactor * (c \div BranchFactor) < BranchFactor
    BY <2>1
  <2>3. PICK q \in Int : q = c \div BranchFactor
    BY <2>2
  <2>4. q * BranchFactor = BranchFactor * q /\ q * BranchFactor \in Int
    BY <2>1
  <2>5. PICK m \in Int : m = q * BranchFactor
    BY <2>4
  <2>6. m <= c /\ c - m < BranchFactor
    BY <2>2, <2>3, <2>4, <2>5
  <2>7. c - m + 1 \in 1 .. BranchFactor /\ c = m + (c - m + 1) - 1
    BY <2>1, <2>6
  <2> QED
    BY <2>3, <2>5, <2>7 DEF Parent
<1>5. ASSUME NEW n \in Nodes, NEW i \in 1 .. BranchFactor, NEW j \in 1 .. BranchFactor,
             n * BranchFactor + i - 1 = n * BranchFactor + j - 1
      PROVE  i = j
  <2>1. n * BranchFactor \in Nat
    BY <1>1, <1>5
  <2> QED
    BY <2>1, <1>5, <1>1
<1>6. QED
  BY <1>2, <1>3, <1>4, <1>5 DEF Child

\* What is in the tree.
LEMMA TreeFacts ==
  /\ 1 \in Nodes /\ 1 \in Canopies /\ Buckets \subseteq Nodes
  /\ \A n \in Nodes \ {1} : Parent(n) \in Nodes \ Leaves
  /\ \A n \in Nodes : Parent(n) \in Nodes => n # 1 /\ Parent(n) \notin Leaves
  /\ \A n \in Nodes \ Leaves : \A i \in 1 .. BranchFactor : Child(n, i) \in Nodes
<1>1. \A n \in Nodes \ Leaves : \A i \in 1 .. BranchFactor : Child(n, i) \in Nodes
  BY WalkAssumption DEF Child
<1>2. QED
  BY <1>1, WalkAssumption, ChildrenHaveParent DEF Nodes

LEMMA ParentApart ==
  ASSUME NEW n \in Nodes
  PROVE  Parent(n) # n
<1>1. n \in Nat \ {0} /\ BranchFactor \in Nat \ {0, 1}
  BY WalkAssumption
<1>2. n \div BranchFactor # n
  BY <1>1
<1>3. QED
  BY <1>2 DEF Parent

-----------------------------------------------------------------------------
(* Stacks.                                                                 *)

Children(n, O) == [i \in DOMAIN ChildrenOf(n) |-> [node |-> ChildrenOf(n)[i], active |-> O]]

\* The stack t is s and the children of n above it, with the buckets in O.
Pushed(t, s, n, O) ==
  /\ t \in Seq(Work)
  /\ NoneTwice(t)
  /\ \A c \in Nodes : OnIt(t, c) <=> OnIt(s, c) \/ Parent(c) = n
  /\ \A i \in DOMAIN t :
       \/ \E j \in DOMAIN s : t[i] = s[j]
       \/ t[i].node \in Nodes /\ Parent(t[i].node) = n /\ t[i].active = O

\* Children are entries of a stack.
LEMMA ChildrenTyped ==
  ASSUME NEW n \in Nodes \ Leaves, NEW O \in SUBSET Buckets
  PROVE  /\ Children(n, O) \in Seq(Work) /\ Len(Children(n, O)) = BranchFactor
         /\ \A i \in 1 .. BranchFactor : Children(n, O)[i] = [node |-> Child(n, i), active |-> O]
<1>1. BranchFactor \in Nat /\ DOMAIN ChildrenOf(n) = 1 .. BranchFactor
      /\ \A i \in 1 .. BranchFactor : ChildrenOf(n)[i] = Child(n, i)
  BY WalkAssumption DEF ChildrenOf, Child
<1>2. QED
  <2>1. \A i \in 1 .. BranchFactor : [node |-> ChildrenOf(n)[i], active |-> O] \in Work
    BY <1>1, TreeFacts DEF Work
  <2>2. Children(n, O) = [i \in 1 .. BranchFactor |-> [node |-> ChildrenOf(n)[i], active |-> O]]
    BY <1>1 DEF Children
  <2>3. [i \in 1 .. BranchFactor |-> [node |-> ChildrenOf(n)[i], active |-> O]] \in Seq(Work)
    BY <1>1, <2>1, IsASeq
  <2> QED
    BY <1>1, <2>1, <2>2, <2>3, LenProperties

LEMMA ChildrenPushed ==
  ASSUME NEW n \in Nodes \ Leaves, NEW O \in SUBSET Buckets, NEW s \in Seq(Work),
         NoneTwice(s), \A c \in Nodes : Parent(c) = n => ~ OnIt(s, c)
  PROVE  Pushed(Children(n, O) \o s, s, n, O)
<1> DEFINE t == Children(n, O) \o s
<1>1. BranchFactor \in Nat
  BY WalkAssumption
<1>2. /\ Children(n, O) \in Seq(Work) /\ Len(Children(n, O)) = BranchFactor
      /\ \A i \in 1 .. BranchFactor : Children(n, O)[i] = [node |-> Child(n, i), active |-> O]
  BY ChildrenTyped
<1>3. /\ t \in Seq(Work) /\ Len(t) = BranchFactor + Len(s)
      /\ \A i \in 1 .. BranchFactor + Len(s) :
           t[i] = IF i <= BranchFactor THEN Children(n, O)[i] ELSE s[i - BranchFactor]
  BY <1>2, ConcatProperties
<1>4. Len(s) \in Nat /\ DOMAIN s = 1 .. Len(s) /\ DOMAIN t = 1 .. BranchFactor + Len(s)
  BY <1>3, LenProperties
<1> HIDE DEF t
<1>5. \A i \in 1 .. BranchFactor :
        /\ i \in DOMAIN t /\ t[i].node = Child(n, i) /\ t[i].active = O
        /\ t[i].node \in Nodes /\ Parent(t[i].node) = n
  <2>1. \A i \in 1 .. BranchFactor : i \in DOMAIN t /\ t[i] = [node |-> Child(n, i), active |-> O]
    BY <1>1, <1>2, <1>3, <1>4
  <2>2. ASSUME NEW i \in 1 .. BranchFactor PROVE t[i].node = Child(n, i) /\ t[i].active = O
    <3>1. t[i] = [node |-> Child(n, i), active |-> O]
      BY <2>1
    <3> QED
      BY <3>1
  <2> QED
    BY <2>1, <2>2, ChildrenHaveParent, TreeFacts
<1>6. \A i \in DOMAIN t : i \notin 1 .. BranchFactor =>
        i - BranchFactor \in DOMAIN s /\ t[i] = s[i - BranchFactor]
  BY <1>1, <1>3, <1>4
<1>7. \A i \in DOMAIN s : i + BranchFactor \in DOMAIN t /\ t[i + BranchFactor] = s[i]
                         /\ i + BranchFactor \notin 1 .. BranchFactor
  BY <1>1, <1>3, <1>4
<1>8. ASSUME NEW i \in DOMAIN t, NEW j \in DOMAIN t, i # j PROVE t[i].node # t[j].node
  <2>1. CASE i \in 1 .. BranchFactor /\ j \in 1 .. BranchFactor
    <3>1. t[i].node = Child(n, i) /\ t[j].node = Child(n, j)
      BY <2>1, <1>5
    <3>2. n \in Nodes
      OBVIOUS
    <3> QED
      BY <2>1, <1>8, <3>1, <3>2, ChildrenHaveParent
  <2>2. CASE i \in 1 .. BranchFactor /\ j \notin 1 .. BranchFactor
    BY <2>2, <1>5, <1>6 DEF OnIt
  <2>3. CASE i \notin 1 .. BranchFactor /\ j \in 1 .. BranchFactor
    BY <2>3, <1>5, <1>6 DEF OnIt
  <2>4. CASE i \notin 1 .. BranchFactor /\ j \notin 1 .. BranchFactor
    <3>1. i - BranchFactor # j - BranchFactor
      BY <1>8, <1>4, <1>1
    <3> QED
      BY <2>4, <1>6, <3>1 DEF NoneTwice
  <2> QED
    BY <2>1, <2>2, <2>3, <2>4
<1>9. ASSUME NEW c \in Nodes PROVE OnIt(t, c) <=> OnIt(s, c) \/ Parent(c) = n
  <2>1. OnIt(s, c) => OnIt(t, c)
    BY <1>7 DEF OnIt
  <2>2. Parent(c) = n => OnIt(t, c)
    <3>1. SUFFICES ASSUME Parent(c) = n PROVE OnIt(t, c)
      OBVIOUS
    <3>2. PICK i \in 1 .. BranchFactor : c = Child(n, i)
      BY <3>1, ChildrenHaveParent
    <3>3. i \in DOMAIN t /\ t[i].node = c
      BY <3>2, <1>5
    <3> QED
      BY <3>3 DEF OnIt
  <2>3. OnIt(t, c) => OnIt(s, c) \/ Parent(c) = n
    BY <1>5, <1>6 DEF OnIt
  <2> QED
    BY <2>1, <2>2, <2>3
<1>10. \A i \in DOMAIN t :
         \/ \E j \in DOMAIN s : t[i] = s[j]
         \/ t[i].node \in Nodes /\ Parent(t[i].node) = n /\ t[i].active = O
  <2> TAKE i \in DOMAIN t
  <2>1. CASE i \in 1 .. BranchFactor
    BY <2>1, <1>5
  <2>2. CASE i \notin 1 .. BranchFactor
    <3>1. i - BranchFactor \in DOMAIN s /\ t[i] = s[i - BranchFactor]
      BY <2>2, <1>6
    <3> QED
      BY <3>1
  <2> QED
    BY <2>1, <2>2
<1>11. QED
  BY <1>3, <1>8, <1>9, <1>10 DEF Pushed, NoneTwice, t

\* The stack t is s without its first entry.
Popped(t, s) ==
  /\ t \in Seq(Work) /\ NoneTwice(t)
  /\ \A c : OnIt(t, c) <=> OnIt(s, c) /\ c # Head(s).node
  /\ \A i \in DOMAIN t : \E j \in DOMAIN s : t[i] = s[j] /\ s[j].node # Head(s).node
  /\ 1 \in DOMAIN s /\ s[1] = Head(s) /\ Head(s) \in Work

LEMMA HeadPopped ==
  ASSUME NEW s \in Seq(Work), s # << >>, NoneTwice(s)
  PROVE  Popped(Tail(s), s)
<1> DEFINE t == Tail(s)
<1>1. /\ Head(s) \in Work /\ t \in Seq(Work) /\ Len(t) = Len(s) - 1
      /\ \A i \in 1 .. Len(t) : t[i] = s[i + 1]
  BY HeadTailProperties
<1>2. Len(s) \in Nat \ {0} /\ DOMAIN s = 1 .. Len(s) /\ DOMAIN t = 1 .. Len(t) /\ Head(s) = s[1]
  BY <1>1, LenProperties, EmptySeq
<1> HIDE DEF t
<1>3. \A i \in DOMAIN t : i + 1 \in DOMAIN s /\ i + 1 # 1 /\ t[i] = s[i + 1]
  BY <1>1, <1>2
<1>4. \A i \in DOMAIN s : i # 1 => i - 1 \in DOMAIN t /\ t[i - 1] = s[i]
  <2> TAKE i \in DOMAIN s
  <2> HAVE i # 1
  <2>1. i - 1 \in 1 .. Len(t) /\ (i - 1) + 1 = i
    BY <1>1, <1>2
  <2> QED
    BY <2>1, <1>1, <1>2
<1>5. 1 \in DOMAIN s
  BY <1>2
<1>6. \A i \in DOMAIN s : i # 1 => s[i].node # Head(s).node
  BY <1>2, <1>5 DEF NoneTwice
<1>7. NoneTwice(t)
  <2> SUFFICES ASSUME NEW i \in DOMAIN t, NEW j \in DOMAIN t, i # j PROVE t[i].node # t[j].node
    BY DEF NoneTwice
  <2>1. i + 1 # j + 1
    BY <1>2, <1>1
  <2> QED
    BY <2>1, <1>3 DEF NoneTwice
<1>8. ASSUME NEW c PROVE OnIt(t, c) <=> OnIt(s, c) /\ c # Head(s).node
  <2>1. OnIt(t, c) => OnIt(s, c) /\ c # Head(s).node
    BY <1>3, <1>6 DEF OnIt
  <2>2. ASSUME OnIt(s, c), c # Head(s).node PROVE OnIt(t, c)
    <3>1. PICK i \in DOMAIN s : s[i].node = c
      BY <2>2 DEF OnIt
    <3>2. i # 1
      BY <3>1, <2>2, <1>2
    <3> QED
      BY <3>1, <3>2, <1>4 DEF OnIt
  <2> QED
    BY <2>1, <2>2
<1>9. \A i \in DOMAIN t : \E j \in DOMAIN s : t[i] = s[j] /\ s[j].node # Head(s).node
  BY <1>3, <1>6
<1>10. QED
  BY <1>1, <1>2, <1>5, <1>7, <1>8, <1>9 DEF Popped, t

-----------------------------------------------------------------------------
(* The places of the nodes, from step to step.                             *)

walkVars == <<started, stack, curr_nodes, resuming, paused_curr_nodes, next_paused, opened, visits>>

\* Nothing moves.
LEMMA PlacesStay ==
  PlaceInv /\ UNCHANGED walkVars /\ installed \subseteq installed' => PlaceInv'
BY DEF PlaceInv, StackInv, EntryOK, CurrInv, AsideInv, OpenedInv, VisitInv, walkVars, Arrived, Fresh, Reach,
       WaitsAt, PutAside, Behind, OnStack, Here

\* The node that is visited next, and its entry.
LEMMA NodeFacts ==
  ASSUME TypeOK, StackInv, stack # << >>
  PROVE  /\ Popped(Tail(stack), stack)
         /\ Node \in Nodes /\ Active = Reach(Node) /\ Active \subseteq Buckets
         /\ Arrived(Node) /\ Fresh(Node) /\ ~ WaitsAt(Node) /\ ~ PutAside(Node)
         /\ OnStack(Node)
         /\ \A i \in DOMAIN stack : stack[i].node \in Nodes
<1>1. stack \in Seq(Work) /\ NoneTwice(stack)
  BY DEF TypeOK, StackInv
<1>2. Popped(Tail(stack), stack)
  BY <1>1, HeadPopped
<1>3. 1 \in DOMAIN stack /\ stack[1] = Head(stack) /\ Head(stack) \in Work
  BY <1>2 DEF Popped
<1>4. \A i \in DOMAIN stack : stack[i].node \in Nodes
  <2> TAKE i \in DOMAIN stack
  <2>1. stack[i] \in Work
    BY <1>1, ElementOfSeq, LenProperties
  <2> QED
    BY <2>1 DEF Work
<1>5. QED
  BY <1>2, <1>3, <1>4 DEF StackInv, EntryOK, Node, Active, Work, OnStack, OnIt

LEMMA LeafPlaces ==
  ASSUME TypeOK, PlaceInv, VisitLeaf
  PROVE  PlaceInv'
<1>1. /\ Popped(Tail(stack), stack)
      /\ Node \in Nodes /\ Active = Reach(Node) /\ Active \subseteq Buckets
      /\ Arrived(Node) /\ Fresh(Node) /\ ~ WaitsAt(Node) /\ ~ PutAside(Node)
  BY NodeFacts DEF VisitLeaf, Visiting, PlaceInv
<1>2. stack' = Tail(stack) /\ UNCHANGED <<started, curr_nodes, resuming, paused_curr_nodes,
                                          next_paused, opened, installed>>
  BY DEF VisitLeaf, cacheVars, pauseVars, resumeVars
<1>3. /\ \A n \in Nodes : n # Node => visits'[n] = visits[n]
      /\ \A b \in Buckets : visits'[Node][b] = IF b \in Active /\ (CallSelfLeaf \/ b # Node) THEN 1 ELSE 0
  BY <1>1 DEF VisitLeaf, Visited, TypeOK, Fresh
<1>4. /\ \A n : Arrived(n)' = Arrived(n) /\ Reach(n)' = Reach(n) /\ WaitsAt(n)' = WaitsAt(n)
      /\ \A n : PutAside(n)' = PutAside(n) /\ Here(n)' = Here(n)
      /\ \A n \in Nodes : n # Node => Fresh(n)' = Fresh(n)
  BY <1>2, <1>3 DEF Arrived, Reach, WaitsAt, PutAside, Fresh, Here
<1>5. \A n \in Nodes : OnStack(n)' <=> OnStack(n) /\ n # Node
  BY <1>1, <1>2 DEF OnStack, Popped, Node
<1>6. StackInv'
  <2>1. ASSUME NEW n \in Nodes, NEW O, n # Node, EntryOK(n, O) PROVE EntryOK(n, O)'
    BY <2>1, <1>4 DEF EntryOK
  <2>2. ASSUME NEW i \in DOMAIN stack' PROVE EntryOK(stack[i].node, stack[i].active)'
    <3>1. PICK j \in DOMAIN stack : stack'[i] = stack[j] /\ stack[j].node # Node
      BY <1>1, <1>2 DEF Popped, Node
    <3>2. PICK n \in Nodes, O \in {stack'[i].active} : n = stack'[i].node /\ O = stack'[i].active /\ n # Node /\ EntryOK(n, O)
      BY <3>1, NodeFacts DEF StackInv, PlaceInv, VisitLeaf, Visiting
    <3> QED
      BY <2>1, <3>2
  <2>3. NoneTwice(stack')
    BY <1>1, <1>2 DEF Popped
  <2> QED
    BY <2>2, <2>3 DEF StackInv
<1>7. CurrInv'
  BY <1>1, <1>2, <1>4 DEF CurrInv, PlaceInv, WaitsAt
<1>8. AsideInv'
  BY <1>1, <1>2, <1>4 DEF AsideInv, PlaceInv, PutAside
<1>9. OpenedInv'
  BY <1>1, <1>2, <1>4 DEF OpenedInv, PlaceInv
<1>10. VisitInv'
  BY <1>1, <1>3, <1>4, <1>5 DEF VisitInv, PlaceInv, Behind
<1>11. QED
  BY <1>6, <1>7, <1>8, <1>9, <1>10 DEF PlaceInv

\* Nobody has come to the children of a node that no bucket has opened.
LEMMA ChildrenUnmet ==
  ASSUME TypeOK, PlaceInv, NEW n \in Nodes, opened[n] = {}, NEW c \in Nodes, Parent(c) = n
  PROVE  /\ ~ Arrived(c) /\ Fresh(c) /\ curr_nodes[c] = {}
         /\ ~ OnStack(c) /\ ~ WaitsAt(c) /\ ~ PutAside(c)
<1>1. c # 1
  BY ChildrenHaveParent
<1>2. ~ Arrived(c)
  BY <1>1 DEF Arrived
<1>3. Fresh(c) /\ curr_nodes[c] = {}
  BY <1>2 DEF PlaceInv, OpenedInv, CurrInv
<1>4. ~ OnStack(c)
  BY <1>2 DEF PlaceInv, StackInv, EntryOK, OnStack, OnIt
<1>5. ~ PutAside(c)
  BY DEF PlaceInv, AsideInv, PutAside
<1>6. QED
  BY <1>2, <1>3, <1>4, <1>5 DEF WaitsAt

\* What opening a node does to it and to the others; Open does so in three ways.
Opened(O, K) ==
  /\ UNCHANGED <<started, curr_nodes, resuming, next_paused, installed>>
  /\ opened' = [opened EXCEPT ![Node] = @ \cup O]
  /\ visits' = Visited(Active)
  /\ K = IF O = {} THEN {} ELSE {n \in Nodes : Parent(n) = Node}
  /\ stack' \in Seq(Work) /\ NoneTwice(stack')
  /\ \A i \in DOMAIN stack' :
       \/ \E j \in DOMAIN stack : stack'[i] = stack[j] /\ stack[j].node # Node
       \/ stack'[i].node \in K /\ stack'[i].active = O /\ paused_curr_nodes' = paused_curr_nodes
  /\ \/ paused_curr_nodes' = paused_curr_nodes
     \/ /\ paused_curr_nodes' = Append(paused_curr_nodes, [node |-> Node, active |-> O])
        /\ O # {} /\ Node \in Local
  /\ \A n \in Nodes : /\ n \in K => OnIt(stack', n) \/ PutAside(n)'
                      /\ OnStack(n) /\ n # Node => OnIt(stack', n)
                      /\ PutAside(n) => PutAside(n)'

LEMMA OpenCases ==
  ASSUME TypeOK, PlaceInv, NEW O \in SUBSET Active, Open(O)
  PROVE  \E K : Opened(O, K)
<1> DEFINE K == IF O = {} THEN {} ELSE {n \in Nodes : Parent(n) = Node}
           p == [node |-> Node, active |-> O]
           handled == IF O = {} THEN handle_count ELSE handle_count + 1
           pause == Node \in Local /\ WantsPause(handled, num_requested)
           t == Tail(stack)
<1>1. /\ Popped(t, stack) /\ Node \in Nodes /\ Active \subseteq Buckets /\ Fresh(Node)
      /\ stack # << >> /\ Node \notin Leaves
  BY NodeFacts DEF Open, Visiting, PlaceInv
<1>2. /\ UNCHANGED <<started, curr_nodes, resuming, next_paused, installed>>
      /\ opened' = [opened EXCEPT ![Node] = @ \cup O]
      /\ visits' = Visited(Active)
      /\ paused_curr_nodes' = IF O # {} /\ pause THEN Append(paused_curr_nodes, p) ELSE paused_curr_nodes
      /\ stack' = IF O = {} \/ pause THEN t ELSE Children(Node, O) \o t
  BY DEF Open, cacheVars, resumeVars, Children
<1>3. /\ paused_curr_nodes \in Seq([node : Local \ Leaves, active : SUBSET Buckets])
      /\ next_paused \in 0 .. Len(paused_curr_nodes)
  BY DEF TypeOK
<1>4. ASSUME O # {}, pause
      PROVE  /\ \A n : PutAside(n) => PutAside(n)'
             /\ \A n \in K : PutAside(n)'
  <2>1. p \in [node : Local \ Leaves, active : SUBSET Buckets]
    BY <1>1, <1>4
  <2>2. paused_curr_nodes' = Append(paused_curr_nodes, p)
    BY <1>2, <1>4
  <2>3. /\ Len(paused_curr_nodes) \in Nat /\ DOMAIN paused_curr_nodes = 1 .. Len(paused_curr_nodes)
        /\ DOMAIN paused_curr_nodes' = 1 .. Len(paused_curr_nodes) + 1
        /\ \A i \in 1 .. Len(paused_curr_nodes) : paused_curr_nodes'[i] = paused_curr_nodes[i]
        /\ paused_curr_nodes'[Len(paused_curr_nodes) + 1] = p
    BY <1>3, <2>1, <2>2, AppendProperties, LenProperties
  <2>4. \A n : PutAside(n) => PutAside(n)'
    BY <1>2, <2>3 DEF PutAside
  <2>5. ASSUME NEW n \in K PROVE PutAside(n)'
    <3>1. Parent(n) = Node /\ Len(paused_curr_nodes) + 1 \in DOMAIN paused_curr_nodes'
          /\ Len(paused_curr_nodes) + 1 > next_paused
          /\ paused_curr_nodes'[Len(paused_curr_nodes) + 1].node = Node
      BY <1>3, <1>4, <2>3
    <3> QED
      BY <3>1, <1>2 DEF PutAside
  <2> QED
    BY <2>4, <2>5
<1>5. \A n : ~ (O # {} /\ pause) => (PutAside(n)' <=> PutAside(n))
  BY <1>2 DEF PutAside
<1>6. \A i \in DOMAIN t : \E j \in DOMAIN stack : t[i] = stack[j] /\ stack[j].node # Node
  BY <1>1 DEF Popped, Node
<1>7. \A n : OnIt(t, n) <=> OnStack(n) /\ n # Node
  BY <1>1 DEF Popped, Node, OnStack
<1>8. t \in Seq(Work) /\ NoneTwice(t)
  BY <1>1 DEF Popped
<1> HIDE DEF t, K, pause
<1>9. CASE O = {} \/ pause
  <2>1. stack' = t
    BY <1>2, <1>9
  <2>2. \A n \in Nodes : /\ n \in K => PutAside(n)'
                         /\ OnStack(n) /\ n # Node => OnIt(stack', n)
                         /\ PutAside(n) => PutAside(n)'
    BY <1>4, <1>5, <1>7, <1>9, <2>1 DEF K
  <2>3. pause => Node \in Local
    BY DEF pause
  <2>4. Opened(O, K)
    <3>1. K = IF O = {} THEN {} ELSE {n \in Nodes : Parent(n) = Node}
      BY DEF K
    <3> QED
      BY <1>2, <1>6, <1>8, <2>1, <2>2, <2>3, <3>1 DEF Opened
  <2> QED
    BY <2>4
<1>10. CASE O # {} /\ ~ pause
  <2>1. stack' = Children(Node, O) \o t /\ paused_curr_nodes' = paused_curr_nodes
    BY <1>2, <1>10
  <2>2. \A c \in Nodes : Parent(c) = Node => ~ OnIt(t, c)
    BY <1>1, <1>7, ChildrenUnmet DEF Fresh
  <2>3. Pushed(Children(Node, O) \o t, t, Node, O)
    BY <1>1, <1>8, <2>2, ChildrenPushed
  <2>4. K = {n \in Nodes : Parent(n) = Node}
    BY <1>10 DEF K
  <2>5. \A n \in Nodes : /\ n \in K => OnIt(stack', n)
                         /\ OnStack(n) /\ n # Node => OnIt(stack', n)
                         /\ PutAside(n) => PutAside(n)'
    BY <1>5, <1>7, <1>10, <2>1, <2>3, <2>4 DEF Pushed
  <2>6. stack' \in Seq(Work) /\ NoneTwice(stack')
    BY <2>1, <2>3 DEF Pushed
  <2>7. ASSUME NEW i \in DOMAIN stack'
        PROVE  \/ \E j \in DOMAIN stack : stack'[i] = stack[j] /\ stack[j].node # Node
               \/ stack'[i].node \in K /\ stack'[i].active = O /\ paused_curr_nodes' = paused_curr_nodes
    BY <1>6, <2>1, <2>3, <2>4 DEF Pushed
  <2>8. Opened(O, K)
    <3>1. K = IF O = {} THEN {} ELSE {n \in Nodes : Parent(n) = Node}
      BY DEF K
    <3> QED
      BY <1>2, <2>1, <2>5, <2>6, <2>7, <3>1 DEF Opened
  <2> QED
    BY <2>8
<1>11. QED
  BY <1>9, <1>10

LEMMA OpenPlaces ==
  ASSUME TypeOK, PlaceInv, NEW O \in SUBSET Active, Open(O)
  PROVE  PlaceInv'
<1>1. PICK K : Opened(O, K)
  BY OpenCases
<1>2. /\ Node \in Nodes /\ Active = Reach(Node) /\ Active \subseteq Buckets /\ Node \notin Leaves
      /\ Arrived(Node) /\ Fresh(Node) /\ ~ WaitsAt(Node) /\ ~ PutAside(Node) /\ Here(Node)
      /\ \A i \in DOMAIN stack : stack[i].node \in Nodes
  BY NodeFacts DEF Open, Visiting, PlaceInv
<1>3. PICK h \in Nodes : h = Node
  BY <1>2
<1>4. /\ UNCHANGED <<started, curr_nodes, resuming, next_paused, installed>>
      /\ opened'[h] = O /\ \A n \in Nodes : n # h => opened'[n] = opened[n] /\ visits'[n] = visits[n]
      /\ \A b \in Buckets : visits'[h][b] = IF b \in Active THEN 1 ELSE 0
  BY <1>1, <1>2, <1>3 DEF Opened, Visited, TypeOK, Fresh
<1>5. K = IF O = {} THEN {} ELSE {n \in Nodes : Parent(n) = h}
  BY <1>1, <1>3 DEF Opened
<1>6. ASSUME NEW c \in K
      PROVE  /\ c \in Nodes /\ c # h /\ c # 1 /\ Parent(c) = h /\ O # {}
             /\ Fresh(c) /\ curr_nodes[c] = {} /\ ~ OnStack(c) /\ ~ PutAside(c) /\ ~ Arrived(c)
  BY <1>2, <1>3, <1>5, ChildrenUnmet, ParentApart, ChildrenHaveParent DEF Fresh
<1>7. \A n \in Nodes : n \notin K => Arrived(n)' = Arrived(n) /\ Reach(n)' = Reach(n)
  <2> TAKE n \in Nodes
  <2> HAVE n \notin K
  <2>1. CASE n = 1
    BY <2>1, <1>4 DEF Arrived, Reach
  <2>2. CASE n # 1
    <3>1. Parent(n) \in Nodes
      BY <2>2, TreeFacts
    <3>2. opened'[Parent(n)] = opened[Parent(n)]
      BY <3>1, <1>2, <1>3, <1>4, <1>5 DEF Fresh
    <3> QED
      BY <2>2, <3>2, <1>4 DEF Arrived, Reach
  <2> QED
    BY <2>1, <2>2
<1>8. ASSUME NEW n \in K PROVE Arrived(n)' /\ Reach(n)' = O /\ Fresh(n)'
  BY <1>2, <1>3, <1>4, <1>6 DEF Arrived, Reach, Fresh
<1>9. /\ \A n \in Nodes : n # h => Fresh(n)' = Fresh(n)
      /\ \A n : WaitsAt(n)' = WaitsAt(n) /\ Here(n)' = Here(n)
  BY <1>4 DEF Fresh, WaitsAt, Here
<1>10. h \notin K
  BY <1>6
\* The nodes that are put aside.
<1>11. /\ paused_curr_nodes \in Seq([node : Local \ Leaves, active : SUBSET Buckets])
       /\ next_paused \in 0 .. Len(paused_curr_nodes)
  BY DEF TypeOK
<1>12. ASSUME NEW i \in DOMAIN paused_curr_nodes', i > next_paused
       PROVE  \/ /\ i \in DOMAIN paused_curr_nodes /\ paused_curr_nodes'[i] = paused_curr_nodes[i]
              \/ /\ i = Len(paused_curr_nodes) + 1 /\ i \notin DOMAIN paused_curr_nodes
                 /\ paused_curr_nodes'[i] = [node |-> h, active |-> O] /\ O # {}
                 /\ paused_curr_nodes' # paused_curr_nodes
  <2>1. CASE paused_curr_nodes' = paused_curr_nodes
    BY <2>1, <1>12
  <2>2. CASE /\ paused_curr_nodes' = Append(paused_curr_nodes, [node |-> h, active |-> O])
             /\ O # {} /\ h \in Local
    <3>1. [node |-> h, active |-> O] \in [node : Local \ Leaves, active : SUBSET Buckets]
      BY <2>2, <1>2, <1>3
    <3>2. /\ Len(paused_curr_nodes) \in Nat /\ DOMAIN paused_curr_nodes = 1 .. Len(paused_curr_nodes)
          /\ DOMAIN paused_curr_nodes' = 1 .. Len(paused_curr_nodes) + 1
          /\ \A j \in 1 .. Len(paused_curr_nodes) : paused_curr_nodes'[j] = paused_curr_nodes[j]
          /\ paused_curr_nodes'[Len(paused_curr_nodes) + 1] = [node |-> h, active |-> O]
      BY <1>11, <2>2, <3>1, AppendProperties, LenProperties
    <3>3. paused_curr_nodes' # paused_curr_nodes
      BY <3>2
    <3>4. CASE i = Len(paused_curr_nodes) + 1
      <4>1. i \notin DOMAIN paused_curr_nodes
        BY <3>2, <3>4
      <4> QED
        BY <2>2, <3>2, <3>3, <3>4, <4>1
    <3>5. CASE i # Len(paused_curr_nodes) + 1
      <4>1. i \in 1 .. Len(paused_curr_nodes)
        BY <1>12, <3>2, <3>5
      <4> QED
        BY <3>2, <4>1
    <3> QED
      BY <3>4, <3>5
  <2> QED
    BY <1>1, <1>3, <2>1, <2>2 DEF Opened
<1>13. ASSUME NEW n \in Nodes, PutAside(n)'
       PROVE  PutAside(n) \/ (n \in K /\ paused_curr_nodes' # paused_curr_nodes)
  <2>1. PICK i \in DOMAIN paused_curr_nodes' : i > next_paused /\ paused_curr_nodes'[i].node = Parent(n)
    BY <1>13, <1>4 DEF PutAside
  <2>2. CASE i \in DOMAIN paused_curr_nodes /\ paused_curr_nodes'[i] = paused_curr_nodes[i]
    BY <2>1, <2>2 DEF PutAside
  <2>3. CASE /\ paused_curr_nodes'[i] = [node |-> h, active |-> O] /\ O # {}
             /\ paused_curr_nodes' # paused_curr_nodes
    BY <2>1, <2>3, <1>5
  <2> QED
    BY <2>1, <2>2, <2>3, <1>12
\* The invariants.
<1>14. StackInv'
  <2>1. ASSUME NEW n \in Nodes, NEW A, n # h, EntryOK(n, A), OnStack(n) PROVE EntryOK(n, A)'
    <3>1. n \notin K
      BY <2>1, <1>6
    <3> QED
      BY <2>1, <3>1, <1>7, <1>9, <1>13 DEF EntryOK
  <2>2. ASSUME NEW n \in K, paused_curr_nodes' = paused_curr_nodes PROVE EntryOK(n, O)'
    <3>1. ~ PutAside(n)' /\ ~ WaitsAt(n)'
      BY <2>2, <1>6, <1>9, <1>13 DEF WaitsAt
    <3> QED
      BY <2>2, <3>1, <1>8 DEF EntryOK
  <2>3. ASSUME NEW i \in DOMAIN stack' PROVE EntryOK(stack[i].node, stack[i].active)'
    <3>1. CASE \E j \in DOMAIN stack : stack'[i] = stack[j] /\ stack[j].node # Node
      <4>1. PICK j \in DOMAIN stack : stack'[i] = stack[j] /\ stack[j].node # h
        BY <3>1, <1>3
      <4>2. PICK n \in Nodes, A \in {stack'[i].active} : n = stack'[i].node /\ A = stack'[i].active
        BY <4>1, <1>2
      <4>3. n # h /\ EntryOK(n, A) /\ OnStack(n)
        BY <4>1, <4>2 DEF PlaceInv, StackInv, OnStack, OnIt
      <4> QED
        BY <2>1, <4>2, <4>3
    <3>2. CASE stack'[i].node \in K /\ stack'[i].active = O /\ paused_curr_nodes' = paused_curr_nodes
      <4>1. PICK n \in K : n = stack'[i].node
        BY <3>2
      <4> QED
        BY <2>2, <3>2, <4>1
    <3> QED
      BY <1>1, <3>1, <3>2 DEF Opened
  <2> QED
    BY <2>3, <1>1 DEF StackInv, Opened
<1>15. CurrInv'
  <2> SUFFICES ASSUME NEW n \in Nodes, curr_nodes'[n] # {}
               PROVE  /\ Arrived(n)' /\ (n # resuming' => Fresh(n)')
                      /\ curr_nodes'[n] = Reach(n)' /\ ~ PutAside(n)'
    BY DEF CurrInv
  <2>1. curr_nodes[n] # {} /\ n \notin K
    BY <1>4, <1>6
  <2>2. Arrived(n) /\ (n # resuming => Fresh(n)) /\ curr_nodes[n] = Reach(n) /\ ~ PutAside(n)
    BY <2>1 DEF PlaceInv, CurrInv
  <2>3. n = h => n = resuming
    BY <2>1, <1>2, <1>3 DEF WaitsAt
  <2> QED
    BY <2>1, <2>2, <2>3, <1>4, <1>7, <1>9, <1>13
<1>16. AsideInv'
  <2>1. \A i \in DOMAIN paused_curr_nodes : i > next_paused =>
          /\ paused_curr_nodes[i].node \in Nodes /\ paused_curr_nodes[i].node # h
          /\ opened'[paused_curr_nodes[i].node] = opened[paused_curr_nodes[i].node]
    <3> TAKE i \in DOMAIN paused_curr_nodes
    <3> HAVE i > next_paused
    <3>1. paused_curr_nodes[i] \in [node : Local \ Leaves, active : SUBSET Buckets]
      BY <1>11, ElementOfSeq, LenProperties
    <3>2. paused_curr_nodes[i].node \in Nodes
      BY <3>1 DEF Nodes
    <3>3. paused_curr_nodes[i].active # {} /\ paused_curr_nodes[i].active = opened[paused_curr_nodes[i].node]
      BY DEF PlaceInv, AsideInv
    <3> QED
      BY <3>2, <3>3, <1>2, <1>3, <1>4 DEF Fresh
  <2>2. ASSUME NEW i \in DOMAIN paused_curr_nodes', i > next_paused'
        PROVE  /\ paused_curr_nodes'[i].active = opened'[paused_curr_nodes'[i].node]
               /\ paused_curr_nodes'[i].active # {}
               /\ \A n \in Nodes : Parent(n) = paused_curr_nodes'[i].node => Fresh(n)'
    <3>1. CASE i \in DOMAIN paused_curr_nodes /\ paused_curr_nodes'[i] = paused_curr_nodes[i]
      <4>1. i > next_paused
        BY <2>2, <1>4
      <4>2. ASSUME NEW n \in Nodes, Parent(n) = paused_curr_nodes'[i].node PROVE Fresh(n)'
        <5>1. PutAside(n) /\ Fresh(n)
          BY <3>1, <4>1, <4>2 DEF PutAside, PlaceInv, AsideInv
        <5>2. n # h
          BY <5>1, <1>2, <1>3
        <5> QED
          BY <5>1, <5>2, <1>9
      <4> QED
        BY <2>1, <3>1, <4>1, <4>2 DEF PlaceInv, AsideInv
    <3>2. CASE paused_curr_nodes'[i] = [node |-> h, active |-> O] /\ O # {}
      <4>1. paused_curr_nodes'[i].node = h /\ paused_curr_nodes'[i].active = O
        BY <3>2
      <4>2. \A n \in Nodes : Parent(n) = h => n \in K
        BY <3>2, <1>5
      <4> QED
        BY <3>2, <4>1, <4>2, <1>4, <1>8
    <3> QED
      BY <2>2, <3>1, <3>2, <1>4, <1>12
  <2>3. ASSUME NEW i \in DOMAIN paused_curr_nodes', NEW j \in DOMAIN paused_curr_nodes',
               i > next_paused', j > next_paused', i # j
        PROVE  paused_curr_nodes'[i].node # paused_curr_nodes'[j].node
    <3>1. i > next_paused /\ j > next_paused
      BY <2>3, <1>4
    <3>2. CASE /\ i \in DOMAIN paused_curr_nodes /\ paused_curr_nodes'[i] = paused_curr_nodes[i]
               /\ j \in DOMAIN paused_curr_nodes /\ paused_curr_nodes'[j] = paused_curr_nodes[j]
      BY <2>3, <3>1, <3>2 DEF PlaceInv, AsideInv
    <3>3. CASE /\ i \in DOMAIN paused_curr_nodes /\ paused_curr_nodes'[i] = paused_curr_nodes[i]
               /\ paused_curr_nodes'[j] = [node |-> h, active |-> O]
      BY <2>1, <3>1, <3>3
    <3>4. CASE /\ j \in DOMAIN paused_curr_nodes /\ paused_curr_nodes'[j] = paused_curr_nodes[j]
               /\ paused_curr_nodes'[i] = [node |-> h, active |-> O]
      BY <2>1, <3>1, <3>4
    <3>5. CASE /\ i = Len(paused_curr_nodes) + 1 /\ j = Len(paused_curr_nodes) + 1
      BY <2>3, <3>5
    <3> QED
      BY <3>1, <3>2, <3>3, <3>4, <3>5, <1>12
  <2> QED
    BY <2>2, <2>3 DEF AsideInv
<1>17. OpenedInv'
  <2> SUFFICES ASSUME NEW n \in Nodes
               PROVE  /\ opened'[n] # {} => Here(n)' /\ n \notin Leaves /\ Arrived(n)'
                      /\ ~ Arrived(n)' => Fresh(n)'
    BY DEF OpenedInv
  <2>1. CASE n = h
    BY <2>1, <1>2, <1>3, <1>7, <1>9, <1>10
  <2>2. CASE n \in K
    BY <2>2, <1>8 DEF Fresh
  <2>3. CASE n # h /\ n \notin K
    BY <2>3, <1>4, <1>7, <1>9 DEF PlaceInv, OpenedInv
  <2> QED
    BY <2>1, <2>2, <2>3
<1>18. VisitInv'
  <2> SUFFICES ASSUME NEW n \in Nodes, NEW b \in Buckets
               PROVE  /\ visits'[n][b] <= 1
                      /\ Arrived(n)' /\ Behind(n)' /\ b \in Reach(n)' /\ (n # b \/ CallSelfLeaf)
                           => visits'[n][b] = 1
    BY DEF VisitInv
  <2>1. CASE n = h
    BY <2>1, <1>2, <1>3, <1>4, <1>7, <1>10
  <2>2. CASE n \in K
    <3>1. ~ Behind(n)'
      BY <2>2, <1>1, <1>6 DEF Opened, Behind, OnStack
    <3> QED
      BY <2>2, <3>1, <1>4, <1>6 DEF Fresh
  <2>3. CASE n # h /\ n \notin K
    <3>1. Behind(n)' => Behind(n)
      BY <2>3, <1>1, <1>3, <1>9 DEF Opened, Behind, OnStack
    <3> QED
      BY <2>3, <3>1, <1>4, <1>7 DEF PlaceInv, VisitInv
  <2> QED
    BY <2>1, <2>2, <2>3
<1>19. QED
  BY <1>14, <1>15, <1>16, <1>17, <1>18 DEF PlaceInv

LEMMA MissPlaces ==
  ASSUME TypeOK, PlaceInv, WaitInv, Miss
  PROVE  PlaceInv'
<1>1. /\ Popped(Tail(stack), stack)
      /\ Node \in Nodes /\ Active = Reach(Node) /\ Active \subseteq Buckets
      /\ Arrived(Node) /\ Fresh(Node) /\ ~ WaitsAt(Node) /\ ~ PutAside(Node) /\ ~ Here(Node)
      /\ \A i \in DOMAIN stack : stack[i].node \in Nodes
  BY NodeFacts DEF Miss, Visiting, PlaceInv
<1>2. PICK h \in Nodes : h = Node
  BY <1>1
<1>3. PICK A \in SUBSET Buckets : A = Active
  BY <1>1
<1>4. /\ stack' = Tail(stack)
      /\ UNCHANGED <<started, resuming, paused_curr_nodes, next_paused, opened, visits, installed>>
      /\ curr_nodes'[h] = A /\ \A n \in Nodes : n # h => curr_nodes'[n] = curr_nodes[n]
  BY <1>2, <1>3 DEF Miss, resumeVars, history, TypeOK
<1>5. resuming # h
  BY <1>1, <1>2, ChildrenHaveParent DEF WaitInv, Here
<1>6. /\ \A n : Arrived(n)' = Arrived(n) /\ Reach(n)' = Reach(n) /\ Fresh(n)' = Fresh(n)
      /\ \A n : PutAside(n)' = PutAside(n) /\ Here(n)' = Here(n)
      /\ \A n \in Nodes : n # h => WaitsAt(n)' = WaitsAt(n)
  BY <1>4 DEF Arrived, Reach, WaitsAt, PutAside, Fresh, Here
<1>7. \A n \in Nodes : OnStack(n)' <=> OnStack(n) /\ n # h
  BY <1>1, <1>2, <1>4 DEF OnStack, Popped, Node
<1>8. StackInv'
  <2>1. ASSUME NEW n \in Nodes, NEW O, n # h, EntryOK(n, O) PROVE EntryOK(n, O)'
    BY <2>1, <1>6 DEF EntryOK
  <2>2. ASSUME NEW i \in DOMAIN stack' PROVE EntryOK(stack[i].node, stack[i].active)'
    <3>1. PICK j \in DOMAIN stack : stack'[i] = stack[j] /\ stack[j].node # h
      BY <1>1, <1>2, <1>4 DEF Popped, Node
    <3>2. PICK n \in Nodes, O \in {stack'[i].active} : n = stack'[i].node /\ O = stack'[i].active /\ n # h /\ EntryOK(n, O)
      BY <3>1, <1>1 DEF StackInv, PlaceInv
    <3> QED
      BY <2>1, <3>2
  <2> QED
    BY <2>2, <1>1, <1>4 DEF StackInv, Popped
<1>9. CurrInv'
  <2> SUFFICES ASSUME NEW n \in Nodes, curr_nodes'[n] # {}
               PROVE  /\ Arrived(n)' /\ (n # resuming' => Fresh(n)')
                      /\ curr_nodes'[n] = Reach(n)' /\ ~ PutAside(n)'
    BY DEF CurrInv
  <2>1. CASE n = h
    BY <2>1, <1>1, <1>2, <1>3, <1>4, <1>6
  <2>2. CASE n # h
    BY <2>2, <1>4, <1>6 DEF PlaceInv, CurrInv
  <2> QED
    BY <2>1, <2>2
<1>10. AsideInv'
  BY <1>4, <1>6 DEF AsideInv, PlaceInv
<1>11. OpenedInv'
  BY <1>4, <1>6 DEF OpenedInv, PlaceInv
<1>12. VisitInv'
  <2> SUFFICES ASSUME NEW n \in Nodes, NEW b \in Buckets
               PROVE  /\ visits'[n][b] <= 1
                      /\ Arrived(n)' /\ Behind(n)' /\ b \in Reach(n)' /\ (n # b \/ CallSelfLeaf)
                           => visits'[n][b] = 1
    BY DEF VisitInv
  <2>1. CASE n = h
    <3>1. Behind(n)' => A = {}
      BY <2>1, <1>4, <1>5 DEF Behind, WaitsAt
    <3> QED
      BY <2>1, <3>1, <1>1, <1>2, <1>3, <1>4, <1>6 DEF PlaceInv, VisitInv
  <2>2. CASE n # h
    BY <2>2, <1>4, <1>6, <1>7 DEF PlaceInv, VisitInv, Behind
  <2> QED
    BY <2>1, <2>2
<1>13. QED
  BY <1>8, <1>9, <1>10, <1>11, <1>12 DEF PlaceInv

LEMMA StartPlaces ==
  ASSUME TypeOK, PlaceInv, EntryInv, Start
  PROVE  PlaceInv'
<1>1. /\ ~ started /\ started' = TRUE /\ stack' = <<[node |-> 1, active |-> Buckets]>>
      /\ UNCHANGED <<curr_nodes, resuming, paused_curr_nodes, next_paused, opened, visits, installed>>
      /\ paused_curr_nodes = << >>
  BY DEF Start, EntryInv, cacheVars, pauseVars, resumeVars, history
<1>2. ASSUME NEW n \in Nodes
      PROVE  ~ Arrived(n) /\ opened[n] = {} /\ Fresh(n) /\ curr_nodes[n] = {}
  BY <1>1 DEF Arrived, PlaceInv, OpenedInv, CurrInv, Fresh
<1>3. ASSUME NEW n \in Nodes
      PROVE  /\ Arrived(n)' <=> n = 1
             /\ Reach(1)' = Buckets
             /\ Fresh(n)' /\ opened'[n] = {} /\ curr_nodes'[n] = {} /\ ~ WaitsAt(n)' /\ ~ PutAside(n)'
  <2>1. n # 1 => opened'[Parent(n)] = {}
    BY <1>1, <1>2, TreeFacts
  <2> QED
    BY <2>1, <1>1, <1>2 DEF Arrived, Fresh, WaitsAt, PutAside, Reach
<1>4. DOMAIN stack' = {1} /\ stack'[1].node = 1 /\ stack'[1].active = Buckets
  BY <1>1
<1>5. OnStack(1)'
  BY <1>4 DEF OnStack, OnIt
<1>6. StackInv'
  <2>1. EntryOK(1, Buckets)'
    BY <1>3, TreeFacts DEF EntryOK
  <2>2. EntryOK(stack[1].node, stack[1].active)'
    BY <1>4, <2>1
  <2>3. NoneTwice(stack)'
    BY <1>4 DEF NoneTwice
  <2> QED
    BY <1>4, <2>2, <2>3 DEF StackInv
<1>7. CurrInv' /\ OpenedInv'
  BY <1>3 DEF CurrInv, OpenedInv
<1>8. AsideInv'
  BY <1>1 DEF AsideInv
<1>9. VisitInv'
  BY <1>3, <1>5 DEF VisitInv, Behind, Fresh
<1>10. QED
  BY <1>6, <1>7, <1>8, <1>9 DEF PlaceInv

LEMMA ResumePlaces ==
  ASSUME TypeOK, PlaceInv, NextResume
  PROVE  PlaceInv'
<1>1. /\ stack = << >> /\ resuming = 0
      /\ UNCHANGED <<started, curr_nodes, paused_curr_nodes, next_paused, opened, visits, installed>>
  BY DEF NextResume, Returned, cacheVars, pauseVars, history
<1>2. PICK n \in Nodes : n = Head(resume_nodes)
  BY HeadTailProperties DEF NextResume, TypeOK
<1>3. CASE UNCHANGED <<stack, resuming>>
  BY <1>1, <1>3, PlacesStay DEF walkVars
<1>4. CASE curr_nodes[n] # {} /\ stack' = <<[node |-> n, active |-> curr_nodes[n]]>> /\ resuming' = n
  <2>1. /\ Arrived(n) /\ Fresh(n) /\ curr_nodes[n] = Reach(n) /\ ~ PutAside(n)
    BY <1>1, <1>4, ChildrenHaveParent DEF PlaceInv, CurrInv
  <2>2. /\ \A m : Arrived(m)' = Arrived(m) /\ Reach(m)' = Reach(m) /\ Fresh(m)' = Fresh(m)
        /\ \A m : PutAside(m)' = PutAside(m) /\ Here(m)' = Here(m)
        /\ \A m \in Nodes : m # n => WaitsAt(m)' = WaitsAt(m)
        /\ ~ WaitsAt(n)'
    BY <1>1, <1>4, ChildrenHaveParent DEF Arrived, Reach, WaitsAt, PutAside, Fresh, Here
  <2>3. DOMAIN stack' = {1} /\ stack'[1].node = n /\ stack'[1].active = curr_nodes[n]
    BY <1>4
  <2>4. StackInv'
    <3>1. PICK A : A = curr_nodes[n]
      OBVIOUS
    <3>2. EntryOK(n, A)'
      BY <3>1, <2>1, <2>2 DEF EntryOK
    <3>3. EntryOK(stack[1].node, stack[1].active)'
      BY <3>1, <3>2, <2>3
    <3>4. NoneTwice(stack)'
      BY <2>3 DEF NoneTwice
    <3> QED
      BY <2>3, <3>3, <3>4 DEF StackInv
  <2>5. CurrInv'
    <3> SUFFICES ASSUME NEW m \in Nodes, curr_nodes'[m] # {}
                 PROVE  /\ Arrived(m)' /\ (m # resuming' => Fresh(m)')
                        /\ curr_nodes'[m] = Reach(m)' /\ ~ PutAside(m)'
      BY DEF CurrInv
    <3>1. m # resuming
      BY <1>1, ChildrenHaveParent
    <3> QED
      BY <3>1, <2>2, <1>1 DEF PlaceInv, CurrInv
  <2>6. AsideInv' /\ OpenedInv'
    BY <1>1, <2>2 DEF AsideInv, OpenedInv, PlaceInv
  <2>7. VisitInv'
    <3> SUFFICES ASSUME NEW m \in Nodes, NEW b \in Buckets
                 PROVE  /\ visits'[m][b] <= 1
                        /\ Arrived(m)' /\ Behind(m)' /\ b \in Reach(m)' /\ (m # b \/ CallSelfLeaf)
                             => visits'[m][b] = 1
      BY DEF VisitInv
    <3>1. ~ OnStack(m)
      BY <1>1 DEF OnStack, OnIt
    <3>2. Behind(m)' => m # n
      BY <2>3 DEF Behind, OnStack, OnIt
    <3>3. Behind(m)' => Behind(m)
      BY <3>1, <3>2, <2>2 DEF Behind
    <3> QED
      BY <3>3, <2>2, <1>1 DEF PlaceInv, VisitInv
  <2> QED
    BY <2>4, <2>5, <2>6, <2>7 DEF PlaceInv
<1>5. QED
  BY <1>2, <1>3, <1>4 DEF NextResume

LEMMA FinishPlaces ==
  ASSUME TypeOK, PlaceInv, FinishResume
  PROVE  PlaceInv'
<1>1. PICK h \in Nodes : h = resuming
  BY DEF FinishResume, TypeOK
<1>2. /\ UNCHANGED <<started, stack, paused_curr_nodes, next_paused, opened, visits, installed>>
      /\ resuming' = 0 /\ curr_nodes'[h] = {}
      /\ \A n \in Nodes : n # h => curr_nodes'[n] = curr_nodes[n]
  BY <1>1 DEF FinishResume, cacheVars, pauseVars, history, TypeOK
<1>3. /\ \A n : Arrived(n)' = Arrived(n) /\ Reach(n)' = Reach(n) /\ Fresh(n)' = Fresh(n)
      /\ \A n : PutAside(n)' = PutAside(n) /\ Here(n)' = Here(n) /\ OnStack(n)' = OnStack(n)
      /\ \A n \in Nodes : WaitsAt(n)' = WaitsAt(n)
  BY <1>1, <1>2, ChildrenHaveParent DEF Arrived, Reach, WaitsAt, PutAside, Fresh, Here, OnStack
<1>4. StackInv'
  <2>1. stack = << >> /\ stack' = << >>
    BY <1>2 DEF FinishResume, Returned
  <2> QED
    BY <2>1 DEF StackInv, NoneTwice
<1>5. CurrInv'
  <2> SUFFICES ASSUME NEW n \in Nodes, curr_nodes'[n] # {}
               PROVE  /\ Arrived(n)' /\ (n # resuming' => Fresh(n)')
                      /\ curr_nodes'[n] = Reach(n)' /\ ~ PutAside(n)'
    BY DEF CurrInv
  <2>1. n # resuming /\ curr_nodes'[n] = curr_nodes[n]
    BY <1>1, <1>2
  <2> QED
    BY <2>1, <1>3 DEF PlaceInv, CurrInv
<1>6. AsideInv' /\ OpenedInv'
  BY <1>2, <1>3 DEF AsideInv, OpenedInv, PlaceInv
<1>7. VisitInv'
  BY <1>2, <1>3 DEF VisitInv, PlaceInv, Behind
<1>8. QED
  BY <1>4, <1>5, <1>6, <1>7 DEF PlaceInv

LEMMA PausedPlaces ==
  ASSUME TypeOK, PlaceInv, NextPaused
  PROVE  PlaceInv'
<1>1. /\ stack = << >>
      /\ UNCHANGED <<started, curr_nodes, resuming, paused_curr_nodes, opened, visits, installed>>
      /\ next_paused' = next_paused + 1 /\ next_paused < Len(paused_curr_nodes)
      /\ stack' = Children(paused_curr_nodes[next_paused + 1].node, paused_curr_nodes[next_paused + 1].active)
  BY DEF NextPaused, Returned, MorePaused, cacheVars, resumeVars, history, Children
<1>2. /\ paused_curr_nodes \in Seq([node : Local \ Leaves, active : SUBSET Buckets])
      /\ next_paused \in Nat /\ Len(paused_curr_nodes) \in Nat
      /\ DOMAIN paused_curr_nodes = 1 .. Len(paused_curr_nodes)
  BY LenProperties DEF TypeOK
<1>3. PICK k : k = next_paused + 1
  OBVIOUS
<1>4. k \in DOMAIN paused_curr_nodes /\ k > next_paused /\ next_paused' = k
      /\ \A i \in DOMAIN paused_curr_nodes : i > next_paused <=> i = k \/ i > next_paused'
  BY <1>1, <1>2, <1>3
<1>5. paused_curr_nodes[k] \in [node : Local \ Leaves, active : SUBSET Buckets]
  BY <1>2, <1>4, ElementOfSeq
<1>6. PICK h \in Nodes \ Leaves, O \in SUBSET Buckets :
        h = paused_curr_nodes[k].node /\ O = paused_curr_nodes[k].active
  BY <1>5 DEF Nodes
<1>7. O = opened[h] /\ O # {}
  BY <1>4, <1>6 DEF PlaceInv, AsideInv
<1>8. Pushed(stack', << >>, h, O)
  <2>1. << >> \in Seq(Work) /\ NoneTwice(<< >>) /\ \A c \in Nodes : ~ OnIt(<< >>, c)
    BY DEF NoneTwice, OnIt
  <2>2. Pushed(Children(h, O) \o << >>, << >>, h, O)
    BY <2>1, ChildrenPushed
  <2>3. Children(h, O) \in Seq(Work)
    BY ChildrenTyped
  <2>4. Children(h, O) \o << >> = Children(h, O)
    BY <2>3, ConcatEmptySeq
  <2> QED
    BY <2>2, <2>4, <1>1, <1>3, <1>6
<1>9. /\ \A n : Arrived(n)' = Arrived(n) /\ Reach(n)' = Reach(n) /\ Fresh(n)' = Fresh(n)
      /\ \A n : WaitsAt(n)' = WaitsAt(n) /\ Here(n)' = Here(n)
  BY <1>1 DEF Arrived, Reach, WaitsAt, Fresh, Here
<1>10. ASSUME NEW n \in Nodes
       PROVE  PutAside(n)' <=> PutAside(n) /\ Parent(n) # h
  <2>1. PutAside(n)' => PutAside(n) /\ Parent(n) # h
    <3>1. SUFFICES ASSUME PutAside(n)' PROVE PutAside(n) /\ Parent(n) # h
      OBVIOUS
    <3>2. PICK i \in DOMAIN paused_curr_nodes : i > next_paused' /\ paused_curr_nodes[i].node = Parent(n)
      BY <3>1, <1>1 DEF PutAside
    <3>3. i > next_paused /\ i # k
      BY <3>2, <1>2, <1>4, <1>3
    <3> QED
      BY <3>2, <3>3, <1>4, <1>6 DEF PutAside, PlaceInv, AsideInv
  <2>2. PutAside(n) /\ Parent(n) # h => PutAside(n)'
    BY <1>1, <1>4, <1>6 DEF PutAside
  <2> QED
    BY <2>1, <2>2
<1>11. ASSUME NEW c \in Nodes, Parent(c) = h
       PROVE  /\ Arrived(c) /\ Fresh(c) /\ Reach(c) = O /\ ~ WaitsAt(c) /\ ~ PutAside(c)' /\ PutAside(c)
  <2>1. c # 1
    BY <1>11, TreeFacts
  <2>2. started
    BY <1>7 DEF PlaceInv, OpenedInv, Arrived
  <2>3. PutAside(c)
    BY <1>4, <1>6, <1>11 DEF PutAside
  <2>4. Fresh(c)
    BY <1>4, <1>6, <1>11 DEF PlaceInv, AsideInv
  <2>5. curr_nodes[c] = {}
    BY <2>3 DEF PlaceInv, CurrInv
  <2> QED
    BY <2>1, <2>2, <2>3, <2>4, <2>5, <1>7, <1>10, <1>11 DEF Arrived, Reach, WaitsAt
<1>12. StackInv'
  <2>1. ASSUME NEW c \in Nodes, Parent(c) = h PROVE EntryOK(c, O)'
    BY <2>1, <1>9, <1>11 DEF EntryOK
  <2>2. ASSUME NEW i \in DOMAIN stack' PROVE EntryOK(stack[i].node, stack[i].active)'
    <3>1. stack'[i].node \in Nodes /\ Parent(stack'[i].node) = h /\ stack'[i].active = O
      BY <1>8, <2>2 DEF Pushed
    <3>2. PICK c \in Nodes : c = stack'[i].node
      BY <3>1
    <3> QED
      BY <2>1, <3>1, <3>2
  <2> QED
    BY <2>2, <1>8 DEF StackInv, Pushed
<1>13. CurrInv'
  BY <1>1, <1>9, <1>10 DEF CurrInv, PlaceInv
<1>14. AsideInv'
  BY <1>1, <1>4, <1>9 DEF AsideInv, PlaceInv
<1>15. OpenedInv'
  BY <1>1, <1>9 DEF OpenedInv, PlaceInv
<1>16. VisitInv'
  <2> SUFFICES ASSUME NEW n \in Nodes, NEW b \in Buckets
               PROVE  /\ visits'[n][b] <= 1
                      /\ Arrived(n)' /\ Behind(n)' /\ b \in Reach(n)' /\ (n # b \/ CallSelfLeaf)
                           => visits'[n][b] = 1
    BY DEF VisitInv
  <2>1. ~ OnStack(n)
    BY <1>1 DEF OnStack, OnIt
  <2>2. Parent(n) = h => OnStack(n)'
    BY <1>8 DEF Pushed, OnStack
  <2>3. Behind(n)' => Behind(n)
    BY <2>1, <2>2, <1>9, <1>10 DEF Behind
  <2> QED
    BY <2>3, <1>1, <1>9 DEF PlaceInv, VisitInv
<1>17. QED
  BY <1>12, <1>13, <1>14, <1>15, <1>16 DEF PlaceInv

LEMMA EndPausePlaces ==
  ASSUME TypeOK, PlaceInv, EndResumeAfterPause
  PROVE  PlaceInv'
<1>1. /\ stack = << >>
      /\ UNCHANGED <<started, stack, curr_nodes, resuming, opened, visits, installed>>
      /\ next_paused' = 0
      /\ paused_curr_nodes' = SubSeq(paused_curr_nodes, next_paused + 1, Len(paused_curr_nodes))
  BY DEF EndResumeAfterPause, Returned, Taken, cacheVars, resumeVars, history
<1>2. /\ paused_curr_nodes \in Seq([node : Local \ Leaves, active : SUBSET Buckets])
      /\ next_paused \in 0 .. Len(paused_curr_nodes) /\ Len(paused_curr_nodes) \in Nat
      /\ DOMAIN paused_curr_nodes = 1 .. Len(paused_curr_nodes)
  BY LenProperties DEF TypeOK
<1>3. /\ DOMAIN paused_curr_nodes' = 1 .. Len(paused_curr_nodes) - next_paused
      /\ \A i \in 1 .. Len(paused_curr_nodes) - next_paused :
           paused_curr_nodes'[i] = paused_curr_nodes[i + next_paused]
  <2>1. \A i \in next_paused + 1 .. Len(paused_curr_nodes) :
          paused_curr_nodes[i] \in [node : Local \ Leaves, active : SUBSET Buckets]
    <3> TAKE i \in next_paused + 1 .. Len(paused_curr_nodes)
    <3>1. i \in 1 .. Len(paused_curr_nodes)
      BY <1>2
    <3> QED
      BY <3>1, <1>2, ElementOfSeq
  <2>2. next_paused + 1 \in Int /\ Len(paused_curr_nodes) \in Int
    BY <1>2
  <2>3. /\ paused_curr_nodes' \in Seq([node : Local \ Leaves, active : SUBSET Buckets])
        /\ Len(paused_curr_nodes') = IF next_paused + 1 <= Len(paused_curr_nodes)
                                     THEN Len(paused_curr_nodes) - (next_paused + 1) + 1 ELSE 0
        /\ \A i \in 1 .. Len(paused_curr_nodes) - (next_paused + 1) + 1 :
             paused_curr_nodes'[i] = paused_curr_nodes[(next_paused + 1) + i - 1]
    BY <1>1, <2>1, <2>2, SubSeqProperties
  <2>4. Len(paused_curr_nodes') = Len(paused_curr_nodes) - next_paused
    <3>1. CASE next_paused + 1 <= Len(paused_curr_nodes)
      BY <1>2, <2>3, <3>1
    <3>2. CASE ~ (next_paused + 1 <= Len(paused_curr_nodes))
      <4>1. Len(paused_curr_nodes') = 0
        BY <2>3, <3>2
      <4>2. next_paused = Len(paused_curr_nodes)
        <5>1. /\ next_paused \in Int /\ Len(paused_curr_nodes) \in Int
              /\ next_paused <= Len(paused_curr_nodes)
          BY <1>2
        <5> QED
          BY <3>2, <5>1
      <4>3. Len(paused_curr_nodes) - next_paused = 0
        BY <1>2, <4>2
      <4> QED
        BY <4>1, <4>3
    <3> QED
      BY <3>1, <3>2
  <2>5. \A i \in 1 .. Len(paused_curr_nodes) - next_paused :
           paused_curr_nodes'[i] = paused_curr_nodes[i + next_paused]
    <3> TAKE i \in 1 .. Len(paused_curr_nodes) - next_paused
    <3>1. i \in 1 .. Len(paused_curr_nodes) - (next_paused + 1) + 1
          /\ (next_paused + 1) + i - 1 = i + next_paused
      BY <1>2
    <3> QED
      BY <2>3, <3>1
  <2> QED
    BY <2>3, <2>4, <2>5, LenProperties
<1>4. /\ \A i \in DOMAIN paused_curr_nodes' :
           /\ i > 0 /\ i + next_paused \in DOMAIN paused_curr_nodes /\ i + next_paused > next_paused
           /\ paused_curr_nodes'[i] = paused_curr_nodes[i + next_paused]
      /\ \A i \in DOMAIN paused_curr_nodes : i > next_paused =>
           /\ i - next_paused \in DOMAIN paused_curr_nodes' /\ i - next_paused > 0
           /\ paused_curr_nodes'[i - next_paused] = paused_curr_nodes[i]
      /\ \A i, j \in DOMAIN paused_curr_nodes' : i # j => i + next_paused # j + next_paused
  BY <1>2, <1>3
<1>5. /\ \A n : Arrived(n)' = Arrived(n) /\ Reach(n)' = Reach(n) /\ Fresh(n)' = Fresh(n)
      /\ \A n : WaitsAt(n)' = WaitsAt(n) /\ Here(n)' = Here(n) /\ OnStack(n)' = OnStack(n)
  BY <1>1 DEF Arrived, Reach, WaitsAt, Fresh, Here, OnStack
<1>6. \A n \in Nodes : PutAside(n)' <=> PutAside(n)
  BY <1>1, <1>4 DEF PutAside
<1>7. StackInv'
  BY <1>1 DEF StackInv, NoneTwice
<1>8. CurrInv'
  BY <1>1, <1>5, <1>6 DEF CurrInv, PlaceInv
<1>9. AsideInv'
  <2>1. ASSUME NEW i \in DOMAIN paused_curr_nodes'
        PROVE  /\ paused_curr_nodes'[i].active = opened'[paused_curr_nodes'[i].node]
               /\ paused_curr_nodes'[i].active # {}
               /\ \A n \in Nodes : Parent(n) = paused_curr_nodes'[i].node => Fresh(n)'
    <3>1. /\ i + next_paused \in DOMAIN paused_curr_nodes /\ i + next_paused > next_paused
          /\ paused_curr_nodes'[i] = paused_curr_nodes[i + next_paused]
      BY <1>4
    <3>2. PICK p : p = paused_curr_nodes[i + next_paused]
      OBVIOUS
    <3>3. /\ p.active = opened[p.node] /\ p.active # {}
          /\ \A n \in Nodes : Parent(n) = p.node => Fresh(n)
      BY <3>1, <3>2 DEF PlaceInv, AsideInv
    <3> QED
      BY <3>1, <3>2, <3>3, <1>1, <1>5
  <2>2. ASSUME NEW i \in DOMAIN paused_curr_nodes', NEW j \in DOMAIN paused_curr_nodes', i # j
        PROVE  paused_curr_nodes'[i].node # paused_curr_nodes'[j].node
    <3>1. /\ i + next_paused \in DOMAIN paused_curr_nodes /\ i + next_paused > next_paused
          /\ j + next_paused \in DOMAIN paused_curr_nodes /\ j + next_paused > next_paused
          /\ i + next_paused # j + next_paused
          /\ paused_curr_nodes'[i] = paused_curr_nodes[i + next_paused]
          /\ paused_curr_nodes'[j] = paused_curr_nodes[j + next_paused]
      BY <2>2, <1>4
    <3> QED
      BY <3>1 DEF PlaceInv, AsideInv
  <2> QED
    BY <2>1, <2>2 DEF AsideInv
<1>10. OpenedInv' /\ VisitInv'
  BY <1>1, <1>5, <1>6 DEF OpenedInv, VisitInv, PlaceInv, Behind
<1>11. QED
  BY <1>7, <1>8, <1>9, <1>10 DEF PlaceInv

LEMMA PlacesKept ==
  ASSUME TypeOK, PlaceInv, WaitInv, EntryInv, [Next]_vars
  PROVE  PlaceInv'
<1>1. CASE UNCHANGED vars
  BY <1>1, PlacesStay DEF vars, walkVars, cacheVars, pauseVars, resumeVars, history
<1>2. CASE Start
  BY <1>2, StartPlaces
<1>3. CASE EndStart
  BY <1>3, PlacesStay DEF EndStart, walkVars, cacheVars, pauseVars, resumeVars, history
<1>4. CASE VisitLeaf
  BY <1>4, LeafPlaces
<1>5. CASE Miss
  BY <1>5, MissPlaces
<1>6. CASE Park
  BY <1>6, PlacesStay DEF Park, walkVars, cacheVars, pauseVars, resumeVars, history
<1>7. ASSUME NEW O \in SUBSET Active, Open(O) PROVE PlaceInv'
  BY <1>7, OpenPlaces
<1>8. ASSUME NEW n \in wakes, Process(n) PROVE PlaceInv'
  BY <1>8, PlacesStay DEF Process, walkVars, cacheVars, pauseVars, resumeVars, history
<1>9. CASE GoDown
  BY <1>9, PlacesStay DEF GoDown, walkVars, cacheVars, pauseVars, history
<1>10. CASE NextResume
  BY <1>10, ResumePlaces
<1>11. CASE FinishResume
  BY <1>11, FinishPlaces
<1>12. CASE EndGoDown
  BY <1>12, PlacesStay DEF EndGoDown, walkVars, cacheVars, pauseVars, resumeVars, history
<1>13. CASE ResumeAfterPause
  <2>1. next_paused' = next_paused
    BY <1>13 DEF ResumeAfterPause, EntryInv
  <2> QED
    BY <1>13, <2>1, PlacesStay DEF ResumeAfterPause, walkVars, cacheVars, resumeVars, history
<1>14. CASE NextPaused
  BY <1>14, PausedPlaces
<1>15. CASE EndResumeAfterPause
  BY <1>15, EndPausePlaces
<1>16. ASSUME NEW n \in Nodes \ {1}, RequestElsewhere(n) PROVE PlaceInv'
  BY <1>16, PlacesStay DEF RequestElsewhere, walkVars, pauseVars, resumeVars, history
<1>17. ASSUME NEW n \in requested, Install(n) PROVE PlaceInv'
  BY <1>17, PlacesStay DEF Install, walkVars, pauseVars, resumeVars, history
<1>18. QED
  BY <1>1, <1>2, <1>3, <1>4, <1>5, <1>6, <1>7, <1>8, <1>9, <1>10, <1>11, <1>12, <1>13, <1>14, <1>15,
     <1>16, <1>17 DEF Next, Owner

-----------------------------------------------------------------------------
(* Types.                                                                  *)

LEMMA TypeKept ==
  ASSUME TypeOK, PlaceInv, EntryInv, [Next]_vars
  PROVE  TypeOK'
<1> USE DEF TypeOK
<1>1. CASE UNCHANGED vars
  BY <1>1 DEF vars, cacheVars, pauseVars, resumeVars, messageVars, history
<1>2. CASE Start
  <2>1. [node |-> 1, active |-> Buckets] \in Work
    BY TreeFacts DEF Work
  <2>2. stack' \in Seq(Work)
    BY <1>2, <2>1 DEF Start
  <2> QED
    BY <1>2, <2>2 DEF Start, cacheVars, pauseVars, resumeVars, messageVars, history
<1>3. CASE EndStart
  BY <1>3 DEF EndStart, cacheVars, pauseVars, resumeVars, messageVars, history
<1>4. CASE VisitLeaf
  <2>1. Node \in Nodes /\ Popped(Tail(stack), stack)
    BY <1>4, NodeFacts DEF VisitLeaf, Visiting, PlaceInv
  <2>2. visits' \in [Nodes -> [Buckets -> Nat]]
    BY <1>4, <2>1 DEF VisitLeaf, Visited
  <2>3. stack' \in Seq(Work)
    BY <1>4, <2>1 DEF VisitLeaf, Popped
  <2> QED
    BY <1>4, <2>2, <2>3 DEF VisitLeaf, cacheVars, pauseVars, resumeVars, messageVars
<1>5. CASE Miss
  <2>1. Node \in Nodes /\ Popped(Tail(stack), stack) /\ Active \subseteq Buckets
    BY <1>5, NodeFacts DEF Miss, Visiting, PlaceInv
  <2>2. Node \in Canopies \cup Remote
    BY <1>5, <2>1 DEF Miss, Here, Nodes
  <2>3. stack' \in Seq(Work)
    BY <1>5, <2>1 DEF Miss, Popped
  <2>4. curr_nodes' \in [Nodes -> SUBSET Buckets]
    BY <1>5, <2>1 DEF Miss
  <2>5. num_requested' \in Nat /\ requested' \subseteq Canopies \cup Remote /\ parking' \in Nodes
    BY <1>5, <2>1, <2>2 DEF Miss
  <2> QED
    BY <1>5, <2>3, <2>4, <2>5 DEF Miss, resumeVars, messageVars, history
<1>6. CASE Park
  BY <1>6 DEF Park, cacheVars, pauseVars, resumeVars, messageVars, history
<1>7. ASSUME NEW O \in SUBSET Active, Open(O) PROVE TypeOK'
  <2>1. PICK K : Opened(O, K)
    BY <1>7, OpenCases
  <2>2. Node \in Nodes \ Leaves /\ Active \subseteq Buckets
    BY <1>7, NodeFacts DEF Open, Visiting, PlaceInv
  <2>3. stack' \in Seq(Work) /\ next_paused' = next_paused
    BY <2>1 DEF Opened
  <2>4. opened' \in [Nodes -> SUBSET Buckets] /\ visits' \in [Nodes -> [Buckets -> Nat]]
    BY <2>1, <2>2 DEF Opened, Visited
  <2>5. /\ paused_curr_nodes' \in Seq([node : Local \ Leaves, active : SUBSET Buckets])
        /\ next_paused \in 0 .. Len(paused_curr_nodes')
    <3>1. CASE paused_curr_nodes' = paused_curr_nodes
      BY <3>1
    <3>2. CASE /\ paused_curr_nodes' = Append(paused_curr_nodes, [node |-> Node, active |-> O])
               /\ O # {} /\ Node \in Local
      <4>1. [node |-> Node, active |-> O] \in [node : Local \ Leaves, active : SUBSET Buckets]
        BY <2>2, <3>2
      <4>2. Len(paused_curr_nodes') = Len(paused_curr_nodes) + 1
        BY <3>2, <4>1, AppendProperties
      <4>3. Len(paused_curr_nodes) \in Nat /\ next_paused \in 0 .. Len(paused_curr_nodes)
        BY LenProperties
      <4>4. next_paused \in 0 .. Len(paused_curr_nodes) + 1
        BY <4>3
      <4> QED
        BY <3>2, <4>1, <4>2, <4>4, AppendProperties
    <3> QED
      BY <2>1, <3>1, <3>2 DEF Opened
  <2>6. handle_count' \in Nat
    BY <1>7 DEF Open
  <2> QED
    BY <1>7, <2>3, <2>4, <2>5, <2>6 DEF Open, cacheVars, resumeVars, messageVars
<1>8. ASSUME NEW n \in wakes, Process(n) PROVE TypeOK'
  <2>1. n \in Nodes
    OBVIOUS
  <2>2. resume_nodes' \in Seq(Nodes)
    BY <1>8, <2>1, AppendProperties DEF Process
  <2> QED
    BY <1>8, <2>2 DEF Process, cacheVars, pauseVars, resumeVars, messageVars, history
<1>9. CASE GoDown
  BY <1>9 DEF GoDown, cacheVars, pauseVars, messageVars, history
<1>10. CASE NextResume
  <2>1. Head(resume_nodes) \in Nodes /\ resume_nodes' \in Seq(Nodes)
    BY <1>10, HeadTailProperties DEF NextResume
  <2>2. PICK n \in Nodes : n = Head(resume_nodes)
    BY <2>1
  <2>3. stack' \in Seq(Work) /\ resuming' \in Nodes \cup {0} /\ processed_keys' \subseteq Nodes
    <3>1. CASE stack' = <<[node |-> n, active |-> curr_nodes[n]]>> /\ resuming' = n /\ UNCHANGED processed_keys
      <4>1. [node |-> n, active |-> curr_nodes[n]] \in Work
        BY DEF Work
      <4> QED
        BY <3>1, <4>1
    <3>2. CASE processed_keys' = processed_keys \cup {n} /\ UNCHANGED <<stack, resuming>>
      BY <3>2
    <3> QED
      BY <1>10, <2>2, <3>1, <3>2 DEF NextResume
  <2> QED
    BY <1>10, <2>1, <2>3 DEF NextResume, cacheVars, pauseVars, messageVars, history
<1>11. CASE FinishResume
  BY <1>11 DEF FinishResume, cacheVars, pauseVars, messageVars, history
<1>12. CASE EndGoDown
  BY <1>12 DEF EndGoDown, cacheVars, pauseVars, resumeVars, messageVars, history
<1>13. CASE ResumeAfterPause
  <2>1. 0 \in 0 .. Len(paused_curr_nodes)
    BY LenProperties
  <2> QED
    BY <1>13, <2>1 DEF ResumeAfterPause, HandledAnew, cacheVars, resumeVars, messageVars, history
<1>14. CASE NextPaused
  <2>1. paused_curr_nodes \in Seq([node : Local \ Leaves, active : SUBSET Buckets])
        /\ Len(paused_curr_nodes) \in Nat /\ DOMAIN paused_curr_nodes = 1 .. Len(paused_curr_nodes)
    BY LenProperties
  <2>2. next_paused + 1 \in 1 .. Len(paused_curr_nodes)
    BY <1>14, <2>1 DEF NextPaused, MorePaused
  <2>3. paused_curr_nodes[next_paused + 1] \in [node : Local \ Leaves, active : SUBSET Buckets]
    BY <2>1, <2>2, ElementOfSeq
  <2>4. PICK h \in Nodes \ Leaves, O \in SUBSET Buckets :
          h = paused_curr_nodes[next_paused + 1].node /\ O = paused_curr_nodes[next_paused + 1].active
    BY <2>3 DEF Nodes
  <2>5. stack' = Children(h, O)
    BY <1>14, <2>4 DEF NextPaused, Children
  <2>7. Children(h, O) \in Seq(Work)
    BY ChildrenTyped
  <2>8. next_paused' \in 0 .. Len(paused_curr_nodes)
    BY <1>14, <2>1, <2>2 DEF NextPaused
  <2> QED
    BY <1>14, <2>5, <2>7, <2>8 DEF NextPaused, cacheVars, resumeVars, messageVars, history
<1>15. CASE EndResumeAfterPause
  <2>1. paused_curr_nodes' \in Seq([node : Local \ Leaves, active : SUBSET Buckets])
    <3>1. /\ paused_curr_nodes \in Seq([node : Local \ Leaves, active : SUBSET Buckets])
          /\ next_paused \in 0 .. Len(paused_curr_nodes) /\ Len(paused_curr_nodes) \in Nat
      BY LenProperties
    <3>2. \A i \in next_paused + 1 .. Len(paused_curr_nodes) :
            paused_curr_nodes[i] \in [node : Local \ Leaves, active : SUBSET Buckets]
      <4> TAKE i \in next_paused + 1 .. Len(paused_curr_nodes)
      <4>1. i \in 1 .. Len(paused_curr_nodes)
        BY <3>1
      <4> QED
        BY <4>1, <3>1, ElementOfSeq
    <3>3. next_paused + 1 \in Int /\ Len(paused_curr_nodes) \in Int
      BY <3>1
    <3> QED
      BY <1>15, <3>2, <3>3, SubSeqProperties DEF EndResumeAfterPause, Taken
  <2>2. 0 \in 0 .. Len(paused_curr_nodes')
    BY <2>1, LenProperties
  <2> QED
    BY <1>15, <2>1, <2>2 DEF EndResumeAfterPause, cacheVars, resumeVars, messageVars, history
<1>16. ASSUME NEW n \in Nodes \ {1}, RequestElsewhere(n) PROVE TypeOK'
  BY <1>16 DEF RequestElsewhere, Here, Nodes, pauseVars, resumeVars, messageVars, history
<1>17. ASSUME NEW n \in requested, Install(n) PROVE TypeOK'
  BY <1>17 DEF Install, Reply, pauseVars, resumeVars, messageVars, history
<1>18. QED
  BY <1>1, <1>2, <1>3, <1>4, <1>5, <1>6, <1>7, <1>8, <1>9, <1>10, <1>11, <1>12, <1>13, <1>14, <1>15,
     <1>16, <1>17 DEF Next, Owner

-----------------------------------------------------------------------------
(* Entry methods and messages.                                             *)

LEMMA EntriesKept ==
  ASSUME TypeOK, EntryInv, WaitInv, [Next]_vars
  PROVE  EntryInv'
<1> USE DEF EntryInv, WaitInv
<1>1. CASE UNCHANGED vars
  BY <1>1 DEF vars, pauseVars, resumeVars, messageVars
<1>2. CASE Start
  BY <1>2 DEF Start, pauseVars, resumeVars, messageVars
<1>3. CASE EndStart
  BY <1>3 DEF EndStart, Returned, pauseVars, resumeVars
<1>4. CASE VisitLeaf
  BY <1>4 DEF VisitLeaf, Visiting, pauseVars, resumeVars, messageVars
<1>5. CASE Miss
  BY <1>5 DEF Miss, Visiting, pauseVars, resumeVars, messageVars
<1>6. CASE Park
  BY <1>6 DEF Park, pauseVars, resumeVars
<1>7. ASSUME NEW O \in SUBSET Active, Open(O) PROVE EntryInv'
  BY <1>7 DEF Open, Visiting, resumeVars, messageVars
<1>8. ASSUME NEW n \in wakes, Process(n) PROVE EntryInv'
  <2>1. resume_nodes' # << >>
    BY <1>8, AppendProperties DEF Process, TypeOK
  <2> QED
    BY <1>8, <2>1 DEF Process, ShouldResume, pauseVars, resumeVars
<1>9. CASE GoDown
  BY <1>9 DEF GoDown, pauseVars
<1>10. CASE NextResume
  BY <1>10 DEF NextResume, Returned, pauseVars
<1>11. CASE FinishResume
  BY <1>11 DEF FinishResume, pauseVars, messageVars
<1>12. CASE EndGoDown
  BY <1>12 DEF EndGoDown, Returned, pauseVars, resumeVars, messageVars
<1>13. CASE ResumeAfterPause
  BY <1>13 DEF ResumeAfterPause, resumeVars
<1>14. CASE NextPaused
  BY <1>14 DEF NextPaused, resumeVars, messageVars
<1>15. CASE EndResumeAfterPause
  BY <1>15 DEF EndResumeAfterPause, Returned, resumeVars
<1>16. ASSUME NEW n \in Nodes \ {1}, RequestElsewhere(n) PROVE EntryInv'
  BY <1>16 DEF RequestElsewhere, pauseVars, resumeVars, messageVars
<1>17. ASSUME NEW n \in requested, Install(n) PROVE EntryInv'
  BY <1>17 DEF Install, pauseVars, resumeVars
<1>18. QED
  BY <1>1, <1>2, <1>3, <1>4, <1>5, <1>6, <1>7, <1>8, <1>9, <1>10, <1>11, <1>12, <1>13, <1>14, <1>15,
     <1>16, <1>17 DEF Next, Owner

-----------------------------------------------------------------------------
(* Replies.                                                                *)

\* Induction over the naturals: a set that has 0 and the successor of each of its
\* numbers has all.
LEMMA SetInduction ==
  ASSUME NEW S, 0 \in S, \A n \in Nat : n \in S => n + 1 \in S
  PROVE  Nat \subseteq S
<1>1. SUFFICES ASSUME Nat \ S # {} PROVE FALSE
  OBVIOUS
<1> DEFINE R == OpToRel(<, Nat)
<1>2. IsWellFoundedOn(R, Nat)
  BY NatLessThanWellFounded
<1>3. \A x, y \in Nat : <<y, x>> \in R <=> y < x
  BY DEF OpToRel
<1> HIDE DEF R
<1>4. PICK x \in Nat \ S : \A y \in Nat \ S : ~ (<<y, x>> \in R)
  BY <1>1, <1>2, WFMin
<1>5. \A y \in Nat \ S : ~ (y < x)
  BY <1>3, <1>4
<1>6. x - 1 \in Nat /\ x - 1 \in S
  BY <1>5
<1>7. QED
  BY <1>6

\* Below a piece's node that is not in the cache nothing is, and nothing is asked for.
LEMMA NothingBelow ==
  ASSUME CacheInv, NEW n \in Remote, n \notin installed, NEW d \in Nat, NEW m, LevelsBelow(m, n, d)
  PROVE  m \notin installed /\ (m # n => m \notin requested)
<1>1. PICK way \in [0 .. d -> Remote] :
        way[0] = n /\ way[d] = m /\ \A i \in 1 .. d : Parent(way[i]) = way[i - 1]
  BY DEF LevelsBelow
<1> DEFINE S == {i \in Nat : i <= d => way[i] \notin installed /\ (i > 0 => way[i] \notin requested)}
<1>2. 0 \in S
  BY <1>1
<1>3. ASSUME NEW i \in Nat, i \in S PROVE i + 1 \in S
  <2>1. SUFFICES ASSUME i + 1 <= d PROVE way[i + 1] \notin installed /\ way[i + 1] \notin requested
    OBVIOUS
  <2>2. way[i] \in Remote /\ way[i] \notin installed
    BY <1>1, <1>3, <2>1
  <2>3. i + 1 \in 1 .. d /\ (i + 1) - 1 = i
    BY <2>1
  <2>4. Parent(way[i + 1]) = way[i]
    BY <1>1, <2>3
  <2> QED
    BY <2>2, <2>4 DEF CacheInv
<1>4. Nat \subseteq S
  <2> HIDE DEF S
  <2> QED
    BY <1>2, <1>3, SetInduction
<1>5. d \in S
  BY <1>4
<1>6. d = 0 => m = n
  BY <1>1
<1>7. QED
  BY <1>1, <1>5, <1>6

\* A reply brings the node that was asked for, and of what was in nobody's way.
LEMMA ReplyFacts ==
  ASSUME TypeOK, CacheInv, NEW n \in requested, n \notin installed
  PROVE  /\ n \in Reply(n) /\ Reply(n) \subseteq Canopies \cup Remote
         /\ \A m \in Reply(n) : m # n => m \notin requested /\ m \in Remote
         /\ \A m \in Reply(n) : Parent(m) \in Remote => Parent(m) \in installed \cup Reply(n)
<1>1. n \in Canopies \cup Remote
  BY DEF TypeOK
<1>2. CASE n \in Canopies
  <2>1. Reply(n) = {n}
    BY <1>2 DEF Reply
  <2> QED
    BY <1>1, <2>1 DEF CacheInv
<1>3. CASE n \notin Canopies
  <2>1. n \in Remote /\ ShareDepth \in Nat \ {0}
    BY <1>1, <1>3, WalkAssumption
  <2>2. Reply(n) = {m \in Remote : \E d \in 0 .. ShareDepth - 1 : LevelsBelow(m, n, d)}
    BY <1>3 DEF Reply
  <2>3. n \in Reply(n)
    <3> DEFINE way == [i \in 0 .. 0 |-> n]
    <3>1. way \in [0 .. 0 -> Remote] /\ way[0] = n /\ \A i \in 1 .. 0 : Parent(way[i]) = way[i - 1]
      BY <2>1
    <3> HIDE DEF way
    <3>2. LevelsBelow(n, n, 0)
      BY <3>1 DEF LevelsBelow
    <3>3. 0 \in 0 .. ShareDepth - 1
      BY <2>1
    <3> QED
      BY <2>1, <2>2, <3>2, <3>3
  <2>4. ASSUME NEW m \in Reply(n), m # n PROVE m \notin requested /\ m \in Remote
    BY <2>1, <2>2, <2>4, NothingBelow
  <2>5. ASSUME NEW m \in Reply(n), Parent(m) \in Remote PROVE Parent(m) \in installed \cup Reply(n)
    <3>1. PICK d \in 0 .. ShareDepth - 1 : LevelsBelow(m, n, d)
      BY <2>2
    <3>2. CASE d = 0
      <4>1. m = n
        BY <3>1, <3>2 DEF LevelsBelow
      <4> QED
        BY <4>1, <2>5 DEF CacheInv
    <3>3. CASE d # 0
      <4>1. d \in Nat \ {0} /\ d - 1 \in 0 .. ShareDepth - 1 /\ d \in 1 .. d /\ d - 1 \in 0 .. d
        BY <2>1, <3>1, <3>3
      <4>2. PICK way \in [0 .. d -> Remote] :
              way[0] = n /\ way[d] = m /\ \A i \in 1 .. d : Parent(way[i]) = way[i - 1]
        BY <3>1 DEF LevelsBelow
      <4> DEFINE short == [i \in 0 .. d - 1 |-> way[i]]
      <4>3. short \in [0 .. d - 1 -> Remote]
        BY <4>1, <4>2
      <4>4. short[0] = n /\ short[d - 1] = way[d - 1]
            /\ \A i \in 1 .. d - 1 : Parent(short[i]) = short[i - 1]
        BY <4>1, <4>2
      <4> HIDE DEF short
      <4>5. Parent(m) = way[d - 1] /\ way[d - 1] \in Remote
        BY <4>1, <4>2
      <4>6. LevelsBelow(way[d - 1], n, d - 1)
        BY <4>3, <4>4 DEF LevelsBelow
      <4> QED
        BY <2>2, <4>1, <4>5, <4>6
    <3> QED
      BY <3>2, <3>3
  <2> QED
    BY <2>2, <2>3, <2>4, <2>5
<1>4. QED
  BY <1>2, <1>3

\* A node that the walk meets, or another PE asks for, has its parent in the cache.
LEMMA CacheKept ==
  ASSUME TypeOK, PlaceInv, CacheInv, [Next]_vars
  PROVE  CacheInv'
<1>1. CASE UNCHANGED cacheVars
  BY <1>1 DEF CacheInv, cacheVars
<1>2. CASE Miss
  <2>1. Node \in Nodes /\ Arrived(Node)
    BY <1>2, NodeFacts DEF Miss, Visiting, PlaceInv
  <2>2. PICK h \in Nodes : h = Node
    BY <2>1
  <2>3. Parent(h) \in Remote => Parent(h) \in installed
    <3>1. SUFFICES ASSUME Parent(h) \in Remote PROVE Parent(h) \in installed
      OBVIOUS
    <3>2. Parent(h) \in Nodes /\ h # 1
      BY <3>1, ChildrenHaveParent DEF Nodes
    <3>3. Here(Parent(h))
      BY <2>1, <2>2, <3>2 DEF Arrived, PlaceInv, OpenedInv
    <3> QED
      BY <3>1, <3>3, WalkAssumption DEF Here
  <2>4. installed' = installed /\ requested' = requested \cup {h}
    BY <1>2, <2>2 DEF Miss
  <2> QED
    BY <2>3, <2>4 DEF CacheInv
<1>3. ASSUME NEW n \in Nodes \ {1}, RequestElsewhere(n) PROVE CacheInv'
  BY <1>3 DEF RequestElsewhere, CacheInv
<1>4. ASSUME NEW n \in requested, Install(n) PROVE CacheInv'
  <2>1. installed' = installed \cup Reply(n) /\ requested' = requested /\ n \notin installed
    BY <1>4 DEF Install
  <2>2. \A m \in Reply(n) : Parent(m) \in Remote => Parent(m) \in installed \cup Reply(n)
    BY <2>1, ReplyFacts
  <2>3. PICK R : R = Reply(n)
    OBVIOUS
  <2> QED
    BY <2>1, <2>2, <2>3 DEF CacheInv
<1>5. QED
  BY <1>1, <1>2, <1>3, <1>4 DEF Next, Owner, vars, Start, EndStart, VisitLeaf, Park, Open, Process, GoDown,
     NextResume, FinishResume, EndGoDown, ResumeAfterPause, NextPaused, EndResumeAfterPause

LEMMA WaitKept ==
  ASSUME TypeOK, PlaceInv, WaitInv, EntryInv, CacheInv, [Next]_vars
  PROVE  WaitInv'
<1> USE DEF WaitInv
<1> DEFINE Queued(n) == \E i \in DOMAIN resume_nodes : resume_nodes[i] = n
<1>1. CASE UNCHANGED vars
  BY <1>1 DEF vars, cacheVars, resumeVars, messageVars, WaitsAt
<1>2. CASE Start
  BY <1>2 DEF Start, cacheVars, resumeVars, messageVars, WaitsAt
<1>3. CASE EndStart
  BY <1>3 DEF EndStart, cacheVars, resumeVars, WaitsAt
<1>4. CASE VisitLeaf
  BY <1>4 DEF VisitLeaf, cacheVars, resumeVars, messageVars, WaitsAt
<1>5. CASE Miss
  <2>1. Node \in Nodes /\ ~ Here(Node)
    BY <1>5, NodeFacts DEF Miss, Visiting, PlaceInv
  <2>2. PICK h \in Nodes : h = Node
    BY <2>1
  <2>3. h \notin installed
    BY <2>1, <2>2 DEF Here
  <2>4. /\ UNCHANGED <<installed, resuming, processed_keys, parked, wakes, resume_nodes>>
        /\ requested' = requested \cup {h} /\ parking = 0 /\ parking' = h
        /\ \A n \in Nodes : n # h => curr_nodes'[n] = curr_nodes[n]
    BY <1>5, <2>2 DEF Miss, Visiting, resumeVars, messageVars, TypeOK
  <2>5. \A n \in installed : n \in Nodes /\ n # h
    BY <2>3 DEF TypeOK, Nodes
  <2>6. \A n \in Nodes : WaitsAt(n)' => n = h \/ WaitsAt(n)
    BY <2>4 DEF WaitsAt
  <2>7. ASSUME NEW n \in Nodes, WaitsAt(n)'
        PROVE  n = parking' \/ n \in (parked \cup wakes)' \/ \E i \in DOMAIN resume_nodes' : resume_nodes'[i] = n
    BY <2>4, <2>6, <2>7, ChildrenHaveParent
  <2>8. \A n \in processed_keys : curr_nodes'[n] = {}
    BY <2>4, <2>5
  <2>9. resuming # 0 => resuming \in installed /\ curr_nodes'[resuming] # {}
    BY <2>4, <2>5
  <2> QED
    BY <2>4, <2>7, <2>8, <2>9
<1>6. CASE Park
  <2>1. /\ UNCHANGED <<installed, requested, resuming, processed_keys, curr_nodes, resume_nodes>>
        /\ parking # 0 /\ parking \in requested /\ parking' = 0
        /\ parked \cup wakes \cup {parking} = parked' \cup wakes'
        /\ parked' \subseteq requested \ installed /\ wakes' \subseteq requested \cap installed
    BY <1>6 DEF Park, cacheVars, resumeVars
  <2>2. \A n : WaitsAt(n)' = WaitsAt(n)
    BY <2>1 DEF WaitsAt
  <2>3. ASSUME NEW n \in Nodes, WaitsAt(n)'
        PROVE  n \in parked' \cup wakes' \/ Queued(n)
    BY <2>1, <2>2, <2>3
  <2> QED
    BY <2>1, <2>3
<1>7. ASSUME NEW O \in SUBSET Active, Open(O) PROVE WaitInv'
  BY <1>7 DEF Open, cacheVars, resumeVars, messageVars, WaitsAt
<1>8. ASSUME NEW n \in wakes, Process(n) PROVE WaitInv'
  <2>1. n \in Nodes /\ resume_nodes \in Seq(Nodes) /\ resume_nodes' = Append(resume_nodes, n)
    BY <1>8 DEF TypeOK, Process
  <2>2. /\ DOMAIN resume_nodes = 1 .. Len(resume_nodes) /\ Len(resume_nodes) \in Nat
        /\ DOMAIN resume_nodes' = 1 .. Len(resume_nodes) + 1
        /\ \A i \in 1 .. Len(resume_nodes) : resume_nodes'[i] = resume_nodes[i]
        /\ resume_nodes'[Len(resume_nodes) + 1] = n
    BY <2>1, AppendProperties, LenProperties
  <2>3. \A m : Queued(m) \/ m = n => \E i \in DOMAIN resume_nodes' : resume_nodes'[i] = m
    BY <2>2
  <2>4. \A i \in DOMAIN resume_nodes' :
          \/ resume_nodes'[i] = n
          \/ i \in DOMAIN resume_nodes /\ resume_nodes'[i] = resume_nodes[i]
    <3> TAKE i \in DOMAIN resume_nodes'
    <3>1. i = Len(resume_nodes) + 1 \/ i \in 1 .. Len(resume_nodes)
      BY <2>2
    <3> QED
      BY <3>1, <2>2
  <2>5. /\ UNCHANGED <<installed, requested, resuming, processed_keys, curr_nodes, parking, parked>>
        /\ wakes' = wakes \ {n}
    BY <1>8 DEF Process, cacheVars, resumeVars
  <2>6. \A m : WaitsAt(m)' = WaitsAt(m)
    BY <2>5 DEF WaitsAt
  <2>7. \A i \in DOMAIN resume_nodes' : resume_nodes'[i] \in installed \cap requested
    BY <2>4
  <2>8. ASSUME NEW m \in Nodes, WaitsAt(m)'
        PROVE  m = parking' \/ m \in parked' \cup wakes' \/ \E i \in DOMAIN resume_nodes' : resume_nodes'[i] = m
    BY <2>3, <2>5, <2>6, <2>8
  <2> QED
    BY <2>5, <2>7, <2>8
<1>9. CASE GoDown
  BY <1>9 DEF GoDown, cacheVars, WaitsAt
<1>10. CASE NextResume
  <2>1. PICK h \in Nodes : h = Head(resume_nodes)
    BY <1>10, HeadTailProperties DEF NextResume, TypeOK
  <2>2. /\ resume_nodes \in Seq(Nodes) /\ resume_nodes # << >> /\ resume_nodes' = Tail(resume_nodes)
        /\ UNCHANGED <<installed, requested, curr_nodes, parking, parked, wakes>>
        /\ resuming = 0
        /\ \/ curr_nodes[h] # {} /\ resuming' = h /\ UNCHANGED processed_keys
           \/ /\ h \in processed_keys \/ curr_nodes[h] = {}
              /\ processed_keys' = processed_keys \cup {h} /\ UNCHANGED resuming
    BY <1>10, <2>1 DEF NextResume, TypeOK, cacheVars
  <2>3. /\ Len(resume_nodes) \in Nat /\ DOMAIN resume_nodes = 1 .. Len(resume_nodes)
        /\ Len(resume_nodes) # 0
        /\ DOMAIN resume_nodes' = 1 .. Len(resume_nodes) - 1
        /\ \A i \in 1 .. Len(resume_nodes) - 1 : resume_nodes'[i] = resume_nodes[i + 1]
        /\ resume_nodes[1] = h
    BY <2>1, <2>2, HeadTailProperties, LenProperties, EmptySeq
  <2>4. \A i \in DOMAIN resume_nodes' : i + 1 \in DOMAIN resume_nodes /\ resume_nodes'[i] = resume_nodes[i + 1]
    BY <2>3
  <2>5. \A i \in DOMAIN resume_nodes : i # 1 => i - 1 \in DOMAIN resume_nodes' /\ resume_nodes'[i - 1] = resume_nodes[i]
    <3> TAKE i \in DOMAIN resume_nodes
    <3> HAVE i # 1
    <3>1. i - 1 \in 1 .. Len(resume_nodes) - 1 /\ (i - 1) + 1 = i
      BY <2>3
    <3> QED
      BY <2>3, <3>1
  <2>6. /\ h \in installed
        /\ curr_nodes[h] = {} \/ curr_nodes[h] # {}
    BY <2>3
  <2>7. \A n : Queued(n) => n = h \/ \E i \in DOMAIN resume_nodes' : resume_nodes'[i] = n
    BY <2>3, <2>5
  <2>8. \A i \in DOMAIN resume_nodes' : resume_nodes'[i] \in installed \cap requested
    BY <2>4
  <2>9. ASSUME NEW n \in Nodes, WaitsAt(n)' PROVE WaitsAt(n) /\ n # h
    <3>1. n # 0
      BY ChildrenHaveParent
    <3>2. curr_nodes[n] # {} /\ n # resuming'
      BY <2>2, <2>9 DEF WaitsAt
    <3>3. h \in processed_keys => curr_nodes[h] = {}
      OBVIOUS
    <3> QED
      BY <2>2, <3>1, <3>2, <3>3 DEF WaitsAt
  <2>10. ASSUME NEW n \in Nodes, WaitsAt(n)'
         PROVE  n = parking' \/ n \in parked' \cup wakes' \/ \E i \in DOMAIN resume_nodes' : resume_nodes'[i] = n
    <3>1. WaitsAt(n) /\ n # h
      BY <2>9, <2>10
    <3>2. n = parking \/ n \in parked \cup wakes \/ Queued(n)
      BY <3>1
    <3> QED
      BY <3>1, <3>2, <2>2, <2>7
  <2>11. /\ processed_keys' \subseteq installed
         /\ \A n \in processed_keys' : curr_nodes[n] = {}
         /\ resuming' # 0 => resuming' \in installed /\ curr_nodes[resuming'] # {}
    BY <2>2, <2>6
  <2> QED
    BY <2>2, <2>8, <2>10, <2>11
<1>11. CASE FinishResume
  <2>1. PICK h \in Nodes : h = resuming
    BY <1>11 DEF FinishResume, TypeOK
  <2>2. /\ UNCHANGED <<installed, requested, parking, parked, wakes, resume_nodes>>
        /\ resuming' = 0 /\ curr_nodes'[h] = {} /\ h \in installed
        /\ \A n \in Nodes : n # h => curr_nodes'[n] = curr_nodes[n]
        /\ processed_keys' = processed_keys \cup {h}
    BY <1>11, <2>1, ChildrenHaveParent DEF FinishResume, TypeOK, cacheVars, messageVars
  <2>3. \A n \in Nodes : WaitsAt(n)' => WaitsAt(n)
    BY <2>1, <2>2 DEF WaitsAt
  <2>4. \A n \in processed_keys' : curr_nodes'[n] = {}
    BY <2>2 DEF TypeOK
  <2>5. ASSUME NEW n \in Nodes, WaitsAt(n)'
        PROVE  n = parking \/ n \in parked \cup wakes \/ Queued(n)
    BY <2>3, <2>5
  <2> QED
    BY <2>2, <2>4, <2>5
<1>12. CASE EndGoDown
  BY <1>12 DEF EndGoDown, cacheVars, resumeVars, messageVars, WaitsAt
<1>13. CASE ResumeAfterPause
  BY <1>13 DEF ResumeAfterPause, cacheVars, resumeVars, WaitsAt
<1>14. CASE NextPaused
  BY <1>14 DEF NextPaused, cacheVars, resumeVars, messageVars, WaitsAt
<1>15. CASE EndResumeAfterPause
  BY <1>15 DEF EndResumeAfterPause, cacheVars, resumeVars, WaitsAt
<1>16. ASSUME NEW n \in Nodes \ {1}, RequestElsewhere(n) PROVE WaitInv'
  <2>1. /\ UNCHANGED <<installed, resuming, processed_keys, curr_nodes, parking, parked, wakes, resume_nodes>>
        /\ requested' = requested \cup {n}
    BY <1>16 DEF RequestElsewhere, resumeVars, messageVars
  <2> QED
    BY <2>1 DEF WaitsAt
<1>17. ASSUME NEW n \in requested, Install(n) PROVE WaitInv'
  <2>1. /\ UNCHANGED <<requested, resuming, processed_keys, curr_nodes, parking, resume_nodes>>
        /\ n \notin installed /\ installed' = installed \cup Reply(n)
        /\ parked' = parked \ {n} /\ wakes' = wakes \cup (parked \cap {n})
    BY <1>17 DEF Install, resumeVars
  <2>2. n \in Reply(n) /\ \A m \in Reply(n) : m # n => m \notin requested
    BY <2>1, ReplyFacts
  <2>3. PICK R : R = Reply(n)
    OBVIOUS
  <2>4. \A m : WaitsAt(m)' = WaitsAt(m)
    BY <2>1 DEF WaitsAt
  <2>5. parked' \subseteq requested \ installed' /\ wakes' \subseteq installed' \cap requested
    BY <2>1, <2>2, <2>3
  <2>6. ASSUME NEW m \in Nodes, WaitsAt(m)'
        PROVE  m = parking \/ m \in parked' \cup wakes' \/ Queued(m)
    BY <2>1, <2>4, <2>6
  <2> QED
    BY <2>1, <2>3, <2>5, <2>6
<1>18. QED
  BY <1>1, <1>2, <1>3, <1>4, <1>5, <1>6, <1>7, <1>8, <1>9, <1>10, <1>11, <1>12, <1>13, <1>14, <1>15,
     <1>16, <1>17 DEF Next, Owner

\* The start or a message of the owner's comes back to what is put aside.
LEMMA PauseKept ==
  ASSUME TypeOK, PlaceInv, WaitInv, EntryInv, PauseInv, [Next]_vars
  PROVE  PauseInv'
<1> USE DEF PauseInv
<1>1. CASE UNCHANGED vars
  BY <1>1 DEF vars, cacheVars, pauseVars, messageVars, WantsPause
<1>2. ASSUME NEW n \in Nodes, ~ Here(n) PROVE n \in Remote
  BY <1>2 DEF Here, Nodes
<1>3. CASE Start
  BY <1>3 DEF Start, cacheVars, pauseVars, EntryInv
<1>4. CASE EndStart
  <2>1. /\ entry' = "none" /\ UNCHANGED <<installed, requested, paused_curr_nodes>>
        /\ entry = "start" /\ resumes' = IF WantsPause(handle_count, num_requested) THEN resumes + 1 ELSE resumes
    BY <1>4 DEF EndStart, ScheduledByStart, cacheVars, pauseVars
  <2>2. resumes \in Nat
    BY DEF TypeOK
  <2> QED
    BY <2>1, <2>2
<1>5. CASE VisitLeaf
  <2>1. Popped(Tail(stack), stack)
    BY <1>5, NodeFacts DEF VisitLeaf, Visiting, PlaceInv
  <2>2. /\ stack' = Tail(stack)
        /\ UNCHANGED <<installed, requested, entry, paused_curr_nodes, handle_count, num_requested, resumes>>
    BY <1>5 DEF VisitLeaf, cacheVars, pauseVars, messageVars
  <2> QED
    BY <2>1, <2>2 DEF Popped, WantsPause
<1>6. CASE Miss
  <2>1. Popped(Tail(stack), stack) /\ Node \in Nodes /\ ~ Here(Node)
    BY <1>6, NodeFacts DEF Miss, Visiting, PlaceInv
  <2>2. PICK h \in Remote : h = Node
    BY <1>2, <2>1
  <2>3. /\ stack' = Tail(stack) /\ requested' = requested \cup {h}
        /\ UNCHANGED <<installed, entry, paused_curr_nodes, handle_count, resumes>>
        /\ num_requested' \in {num_requested, num_requested + 1}
    BY <1>6, <2>2 DEF Miss, messageVars
  <2>4. WantsPause(handle_count, num_requested) => WantsPause(handle_count', num_requested')
    BY <2>3, WalkAssumption DEF WantsPause, TypeOK
  <2>5. entry' = "goDown" => \A i \in DOMAIN stack' : stack'[i].node \in Remote
    BY <2>1, <2>3 DEF Popped
  <2> QED
    BY <2>3, <2>4, <2>5
<1>7. CASE Park
  BY <1>7 DEF Park, cacheVars, pauseVars, WantsPause
<1>8. ASSUME NEW O \in SUBSET Active, Open(O) PROVE PauseInv'
  <2>1. PICK K : Opened(O, K)
    BY <1>8, OpenCases
  <2>2. Node \in Nodes /\ Head(stack) = stack[1] /\ 1 \in DOMAIN stack /\ entry # "none"
    BY <1>8, NodeFacts DEF Open, Visiting, PlaceInv, Popped, EntryInv
  <2>3. PICK h \in Nodes : h = Node
    BY <2>2
  <2>4. entry = "goDown" => h \in Remote /\ h \notin Local
    BY <2>2, <2>3, WalkAssumption DEF Node
  <2>5. /\ UNCHANGED <<installed, requested, entry, num_requested, resumes>>
        /\ handle_count' \in {handle_count, handle_count + 1}
        /\ \/ UNCHANGED paused_curr_nodes
           \/ h \in Local /\ WantsPause(handle_count', num_requested)
    BY <1>8, <2>3 DEF Open, cacheVars, messageVars
  <2>6. WantsPause(handle_count, num_requested) => WantsPause(handle_count', num_requested')
    BY <2>5, WalkAssumption DEF WantsPause, TypeOK
  <2>7. ASSUME entry = "goDown", NEW i \in DOMAIN stack' PROVE stack'[i].node \in Remote
    <3>1. CASE \E j \in DOMAIN stack : stack'[i] = stack[j]
      BY <2>7, <3>1
    <3>2. CASE stack'[i].node \in K
      <4>1. PICK c \in Nodes : c = stack'[i].node /\ Parent(c) = h
        BY <3>2, <2>1, <2>3 DEF Opened
      <4> QED
        BY <4>1, <2>4, <2>7, WalkAssumption
    <3> QED
      BY <2>1, <3>1, <3>2 DEF Opened
  <2> QED
    BY <2>2, <2>4, <2>5, <2>6, <2>7
<1>9. ASSUME NEW n \in wakes, Process(n) PROVE PauseInv'
  BY <1>9 DEF Process, cacheVars, pauseVars, WantsPause
<1>10. CASE GoDown
  <2>1. stack = << >> /\ entry = "none"
    BY <1>10 DEF GoDown, EntryInv
  <2> QED
    BY <1>10, <2>1 DEF GoDown, cacheVars, pauseVars
<1>11. CASE NextResume
  <2>1. PICK h \in Remote : h = Head(resume_nodes)
    <3>1. resume_nodes \in Seq(Nodes) /\ resume_nodes # << >>
      BY <1>11 DEF NextResume, TypeOK
    <3>2. Head(resume_nodes) = resume_nodes[1] /\ 1 \in DOMAIN resume_nodes
      BY <3>1, HeadTailProperties, LenProperties, EmptySeq
    <3> QED
      BY <3>2 DEF WaitInv
  <2>2. stack' = <<[node |-> h, active |-> curr_nodes[h]]>> \/ UNCHANGED stack
    BY <1>11, <2>1 DEF NextResume
  <2>3. UNCHANGED <<installed, requested, entry, paused_curr_nodes, handle_count, num_requested, resumes>>
        /\ entry = "goDown"
    BY <1>11 DEF NextResume, cacheVars, pauseVars
  <2>4. \A i \in DOMAIN stack' : stack'[i].node \in Remote
    BY <2>2, <2>3
  <2> QED
    BY <2>3, <2>4
<1>12. CASE FinishResume
  BY <1>12 DEF FinishResume, cacheVars, pauseVars, messageVars
<1>13. CASE EndGoDown
  BY <1>13 DEF EndGoDown, cacheVars, pauseVars, messageVars
<1>14. CASE ResumeAfterPause
  BY <1>14 DEF ResumeAfterPause, cacheVars
<1>15. CASE NextPaused
  BY <1>15 DEF NextPaused, cacheVars
<1>16. CASE EndResumeAfterPause
  <2>1. /\ paused_curr_nodes' = SubSeq(paused_curr_nodes, next_paused + 1, Len(paused_curr_nodes))
        /\ entry' = "none" /\ UNCHANGED <<installed, requested>>
        /\ resumes' = IF WantsPause(handle_count, num_requested) THEN resumes + 1 ELSE resumes
        /\ ~ MorePaused
    BY <1>16 DEF EndResumeAfterPause, Taken, cacheVars
  <2>2. paused_curr_nodes \in Seq([node : Local \ Leaves, active : SUBSET Buckets])
        /\ Len(paused_curr_nodes) \in Nat /\ next_paused \in 0 .. Len(paused_curr_nodes) /\ resumes \in Nat
    BY LenProperties DEF TypeOK
  <2>3. ~ WantsPause(handle_count, num_requested) => paused_curr_nodes' = << >>
    <3>1. SUFFICES ASSUME ~ WantsPause(handle_count, num_requested) PROVE paused_curr_nodes' = << >>
      OBVIOUS
    <3>2. next_paused = Len(paused_curr_nodes)
      BY <2>1, <2>2, <3>1 DEF MorePaused
    <3>3. next_paused + 1 > Len(paused_curr_nodes)
      BY <3>2, <2>2
    <3> QED
      BY <2>1, <2>2, <3>3, SubSeqProperties, EmptySeq
  <2> QED
    BY <2>1, <2>2, <2>3
<1>17. ASSUME NEW n \in Nodes \ {1}, RequestElsewhere(n) PROVE PauseInv'
  BY <1>2, <1>17 DEF RequestElsewhere, pauseVars, messageVars
<1>18. ASSUME NEW n \in requested, Install(n) PROVE PauseInv'
  <2>1. /\ installed \subseteq installed'
        /\ UNCHANGED <<requested, entry, stack, paused_curr_nodes, handle_count, num_requested, resumes>>
    BY <1>18 DEF Install, pauseVars
  <2> QED
    BY <2>1
<1>19. QED
  BY <1>1, <1>3, <1>4, <1>5, <1>6, <1>7, <1>8, <1>9, <1>10, <1>11, <1>12, <1>13, <1>14, <1>15, <1>16,
     <1>17, <1>18 DEF Next, Owner

-----------------------------------------------------------------------------
(* The invariant.                                                          *)

LEMMA IInvKept ==
  ASSUME IInv, [Next]_vars
  PROVE  IInv'
<1>1. TypeOK' /\ PlaceInv'
  BY TypeKept, PlacesKept DEF IInv
<1>2. WaitInv' /\ EntryInv' /\ CacheInv'
  BY WaitKept, EntriesKept, CacheKept DEF IInv
<1>3. WholePacks => PauseInv'
  BY PauseKept DEF IInv
<1>4. WholePacks' = WholePacks
  BY DEF WholePacks
<1>5. QED
  BY <1>1, <1>2, <1>3, <1>4 DEF IInv

LEMMA InitIInv ==
  ASSUME Init
  PROVE  IInv
<1> USE DEF Init
<1>1. TypeOK
  <2>1. installed \subseteq Canopies
    BY WalkAssumption
  <2>2. stack \in Seq(Work) /\ resume_nodes \in Seq(Nodes)
        /\ paused_curr_nodes \in Seq([node : Local \ Leaves, active : SUBSET Buckets])
        /\ Len(paused_curr_nodes) = 0
    OBVIOUS
  <2>3. curr_nodes \in [Nodes -> SUBSET Buckets] /\ opened \in [Nodes -> SUBSET Buckets]
    OBVIOUS
  <2>4. visits \in [Nodes -> [Buckets -> Nat]]
    OBVIOUS
  <2>5. next_paused \in 0 .. Len(paused_curr_nodes)
    BY <2>2
  <2>6. installed \subseteq Canopies \cup Remote
    BY <2>1
  <2> QED
    BY <2>2, <2>3, <2>4, <2>5, <2>6 DEF TypeOK
<1>2. \A n \in Nodes : ~ Arrived(n) /\ Fresh(n) /\ opened[n] = {} /\ curr_nodes[n] = {} /\ \A b \in Buckets : visits[n][b] = 0
  BY DEF Arrived, Fresh
<1>3. PlaceInv
  <2>1. StackInv /\ AsideInv
    BY DEF StackInv, NoneTwice, AsideInv
  <2>2. CurrInv /\ OpenedInv
    BY <1>2 DEF CurrInv, OpenedInv
  <2>3. VisitInv
    BY <1>2 DEF VisitInv
  <2> QED
    BY <2>1, <2>2, <2>3 DEF PlaceInv
<1>4. WaitInv
  BY <1>2 DEF WaitInv, WaitsAt
<1>5. EntryInv
  BY DEF EntryInv
<1>6. CacheInv
  <2>1. ASSUME NEW n \in Canopies PROVE Parent(n) \notin Remote
    <3>1. Parent(n) \in Remote => n \in Remote
      BY WalkAssumption DEF Nodes
    <3> QED
      BY <3>1, WalkAssumption
  <2> QED
    BY <2>1, WalkAssumption DEF CacheInv
<1>7. WholePacks => PauseInv
  BY DEF WholePacks, PauseInv
<1>8. QED
  BY <1>1, <1>3, <1>4, <1>5, <1>6, <1>7 DEF IInv

\* What the invariant says when all is quiet.
LEMMA NothingWaits ==
  ASSUME IInv, Quiescent
  PROVE  /\ \A n \in Nodes : ~ OnStack(n) /\ ~ WaitsAt(n)
         /\ WholePacks => paused_curr_nodes = << >>
<1>1. stack = << >> /\ parking = 0 /\ resume_nodes = << >> /\ wakes = {}
  BY DEF IInv, EntryInv, Quiescent
<1>2. parked = {}
  BY DEF IInv, WaitInv, Quiescent
<1>3. \A n \in Nodes : ~ OnStack(n)
  BY <1>1 DEF OnStack, OnIt
<1>4. \A n \in Nodes : ~ WaitsAt(n)
  BY <1>1, <1>2, ChildrenHaveParent DEF IInv, WaitInv
<1>5. WholePacks => paused_curr_nodes = << >>
  BY DEF IInv, PauseInv, Quiescent
<1>6. QED
  BY <1>3, <1>4, <1>5

LEMMA NothingLost ==
  ASSUME IInv
  PROVE  LosesNothing
<1> SUFFICES ASSUME Quiescent, NEW n \in Nodes, NEW b \in Buckets, Due(n, b), ~ PutAside(n)
             PROVE  visits[n][b] = 1
  BY DEF LosesNothing
<1>1. Behind(n)
  BY NothingWaits DEF Behind
<1>2. b \in Reach(n) /\ Arrived(n) /\ (n # b \/ CallSelfLeaf)
  BY DEF Due, Reach, Arrived, Quiescent
<1>3. QED
  BY <1>1, <1>2 DEF IInv, PlaceInv, VisitInv

LEMMA InvComplete ==
  ASSUME IInv, WholePacks
  PROVE  Complete
<1>1. TypeOK /\ \A n \in Nodes : \A b \in Buckets : visits[n][b] <= 1
  BY DEF IInv, PlaceInv, VisitInv
<1>2. ASSUME Quiescent, NEW n \in Nodes, NEW b \in Buckets, Due(n, b) PROVE visits[n][b] = 1
  <2>1. ~ PutAside(n)
    BY <1>2, NothingWaits DEF PutAside
  <2> QED
    BY <1>2, <2>1, NothingLost DEF LosesNothing
<1>3. QED
  BY <1>1, <1>2 DEF Complete

-----------------------------------------------------------------------------
(* The theorems.                                                           *)

\* The steps of a transposed walk are the walk's own; a walk stays of its kind.
WalkInv == kind = "transposed" => IInv

LEMMA WalkInvHolds ==
  WalksSpec => []WalkInv
<1>1. WalksInit => WalkInv
  BY InitIInv DEF WalksInit, WalkInv
<1>2. WalkInv /\ [WalksNext]_WalksVars => WalkInv'
  <2> SUFFICES ASSUME WalkInv, [WalksNext]_WalksVars, kind' = "transposed" PROVE IInv'
    BY DEF WalkInv
  <2>1. kind = "transposed" /\ [Next]_vars
    BY DEF WalksNext, WalksVars, Transposed, ByBucket, ByPair
  <2> QED
    BY <2>1, IInvKept DEF WalkInv
<1>3. QED
  BY <1>1, <1>2, PTL DEF WalksSpec

\* A transposed walk (src/Traverser.h, startDown, goDown and resumeAfterPause)
\* visits no node twice for a bucket, and when all is quiet it has visited every
\* node that a bucket has to visit, or has put it aside: a fetch, a wake-up and a
\* pause lose nothing, whichever canopies are in the cache when it starts.
THEOREM WalkLosesNothing ==
  WalksSpec => [](kind = "transposed" =>
    /\ TypeOK
    /\ \A n \in Nodes : \A b \in Buckets : visits[n][b] <= 1
    /\ LosesNothing)
<1>1. WalkInv => (kind = "transposed" =>
        /\ TypeOK
        /\ \A n \in Nodes : \A b \in Buckets : visits[n][b] <= 1
        /\ LosesNothing)
  BY NothingLost DEF WalkInv, IInv, PlaceInv, VisitInv
<1>2. QED
  BY <1>1, WalkInvHolds, PTL

\* With all the canopies in the starter pack (src/CacheManager.h, startParentPrefetch)
\* a walk is complete: it ends with every due visit made, and nothing put aside.
THEOREM WalkComplete ==
  ASSUME WholePacks
  PROVE  WalksSpec => []TransposedComplete
<1>1. WalkInv => TransposedComplete
  BY InvComplete DEF WalkInv, TransposedComplete
<1>2. QED
  BY <1>1, WalkInvHolds, PTL

-----------------------------------------------------------------------------
(* The walks that take one bucket at a time.                               *)

\* A pointer that names no data is to a node that this process may ask for.
SoundPointers == {p \in Bucket!Pointers : p.live \/ p.node \in BucketCanopies \cup BucketRemote}

PointersSound ==
  /\ resume_nodes \in Seq(SoundPointers) /\ nodes \in Seq(SoundPointers)
  /\ from \in SoundPointers \cup {Bucket!NoNode}
  /\ new_nodes \subseteq SoundPointers /\ IsFiniteSet(new_nodes)
  /\ nodes # << >> => bucket \in Bucket!BucketIds

\* A goDown is under way exactly when a node is queued and nobody is at the queue.
GoDownInv ==
  /\ goDowns = (IF entry \in {"new", "start", "goDown"} \/ resume_nodes = << >> THEN 0 ELSE 1)
  /\ from # Bucket!NoNode => entry = "goDown" \/ (~ Bucket!Basic /\ entry = "start")
  /\ Bucket!Basic /\ entry \in {"new", "start"} => resume_nodes = << >>

BucketInv == Bucket!TypeOK /\ PointersSound /\ GoDownInv

-----------------------------------------------------------------------------
\* The tree.
LEMMA BucketTree ==
  /\ BranchFactor \in Nat \ {0, 1}
  /\ Bucket!Nodes \subseteq Nat \ {0} /\ 1 \in Bucket!Nodes
  /\ BucketLeaf \in [Bucket!BucketIds -> Bucket!Nodes] /\ Bucket!BucketIds = 1 .. Len(BucketLeaf)
  /\ Len(BucketLeaf) \in Nat
  /\ \A n \in Bucket!Nodes \ {1} : Bucket!Parent(n) \in Bucket!Nodes \ BucketLeaves
  /\ \A n \in Bucket!Nodes \ BucketLeaves : Bucket!ChildrenOf(n) \in [1 .. BranchFactor -> Bucket!Nodes]
  /\ BucketPacks \subseteq SUBSET BucketCanopies
  /\ BucketSettings \subseteq [kind : {"basic", "upnd"}, request : Nat, iter : Nat,
                               content : SUBSET (Bucket!Nodes \X Bucket!BucketIds)]
<1>1. Bucket!BucketWalkAssumption
  BY BucketTreeAssumption
<1>2. BucketLeaf \in Seq(BucketLocal \cap BucketLeaves)
  BY <1>1 DEF Bucket!BucketWalkAssumption
<1>3. Bucket!BucketIds = 1 .. Len(BucketLeaf) /\ Len(BucketLeaf) \in Nat
      /\ BucketLeaf \in [1 .. Len(BucketLeaf) -> BucketLocal \cap BucketLeaves]
  BY <1>2, LenProperties DEF Bucket!BucketIds
<1>4. BucketLocal \cap BucketLeaves \subseteq Bucket!Nodes
  BY DEF Bucket!Nodes
<1>5. \A n \in Bucket!Nodes \ BucketLeaves : \A i \in 1 .. BranchFactor :
         n * BranchFactor + i - 1 \in Bucket!Nodes
  BY <1>1 DEF Bucket!BucketWalkAssumption
<1>6. \A n \in Bucket!Nodes \ BucketLeaves : Bucket!ChildrenOf(n) \in [1 .. BranchFactor -> Bucket!Nodes]
  BY <1>5 DEF Bucket!ChildrenOf
<1>7. BucketLeaf \in [Bucket!BucketIds -> Bucket!Nodes]
  BY <1>3, <1>4
<1>8. 1 \in Bucket!Nodes /\ BranchFactor \in Nat \ {0, 1} /\ Bucket!Nodes \subseteq Nat \ {0}
  BY <1>1 DEF Bucket!BucketWalkAssumption, Bucket!Nodes
<1>9. \A n \in Bucket!Nodes \ {1} : Bucket!Parent(n) \in Bucket!Nodes \ BucketLeaves
  BY <1>1 DEF Bucket!BucketWalkAssumption
<1>10. BucketPacks \subseteq SUBSET BucketCanopies
       /\ BucketSettings \subseteq [kind : {"basic", "upnd"}, request : Nat, iter : Nat,
                               content : SUBSET (Bucket!Nodes \X Bucket!BucketIds)]
  BY <1>1 DEF Bucket!BucketWalkAssumption
<1> QED
  BY <1>3, <1>6, <1>7, <1>8, <1>9, <1>10

LEMMA PointerSound ==
  ASSUME NEW n \in Bucket!Nodes
  PROVE  Bucket!Pointer(n) \in SoundPointers
<1>1. Bucket!Pointer(n) = [node |-> n, live |-> Bucket!Here(n)] /\ Bucket!Here(n) \in BOOLEAN
  BY DEF Bucket!Pointer, Bucket!Here
<1>2. Bucket!Here(n) \/ n \in BucketCanopies \cup BucketRemote
  BY DEF Bucket!Here, Bucket!Nodes
<1>3. Bucket!Pointer(n).node = n /\ Bucket!Pointer(n).live = Bucket!Here(n)
      /\ Bucket!Pointer(n) \in Bucket!Pointers
  BY <1>1 DEF Bucket!Pointers
<1> QED
  BY <1>2, <1>3 DEF SoundPointers

LEMMA SoundIsPointer ==
  /\ \A p \in SoundPointers : p \in Bucket!Pointers /\ p.node \in Bucket!Nodes /\ p.live \in BOOLEAN
  /\ \A p \in SoundPointers : p # Bucket!NoNode
  /\ Seq(SoundPointers) \subseteq Seq(Bucket!Pointers)
<1>1. SoundPointers \subseteq Bucket!Pointers
  BY DEF SoundPointers
<1>2. \A p \in Bucket!Pointers : p.node \in Bucket!Nodes /\ p.live \in BOOLEAN
  BY DEF Bucket!Pointers
<1>3. 0 \notin Bucket!Nodes
  BY BucketTree
<1>4. Bucket!NoNode.node = 0
  BY DEF Bucket!NoNode
<1> QED
  BY <1>1, <1>2, <1>3, <1>4

\* An image of a finite set is finite.
LEMMA ImageFinite ==
  ASSUME NEW S, IsFiniteSet(S), NEW f
  PROVE  IsFiniteSet({f[x] : x \in S})
<1> DEFINE T == {f[x] : x \in S}
           g == [x \in S |-> f[x]]
<1>1. g \in Surjection(S, T)
  BY DEF Surjection
<1> QED
  BY <1>1, FS_Surjection

LEMMA PointersFinite ==
  ASSUME NEW S, IsFiniteSet(S)
  PROVE  IsFiniteSet({Bucket!Pointer(n) : n \in S})
<1> DEFINE f == [n \in S |-> Bucket!Pointer(n)]
<1>1. IsFiniteSet({f[n] : n \in S})
  <2> HIDE DEF f
  <2> QED
    BY ImageFinite
<1>2. {f[n] : n \in S} = {Bucket!Pointer(n) : n \in S}
  OBVIOUS
<1> QED
  BY <1>1, <1>2

\* A queue of sound pointers.
LEMMA QueueFacts ==
  ASSUME NEW S, NEW s \in Seq(S), s # << >>
  PROVE  Head(s) \in S /\ Tail(s) \in Seq(S)
BY HeadTailProperties

\* What a step leaves alone.
LEMMA BucketStutters ==
  ASSUME BucketInv, UNCHANGED Bucket!vars
  PROVE  BucketInv'
BY DEF BucketInv, PointersSound, GoDownInv, Bucket!TypeOK, Bucket!Basic, Bucket!vars, Bucket!cacheVars,
  Bucket!messageVars, Bucket!descentVars, Bucket!basicVars, Bucket!upVars

LEMMA BucketStarts ==
  ASSUME Bucket!Init
  PROVE  BucketInv
<1> USE DEF Bucket!Init
<1>1. setting \in BucketSettings /\ setting.iter \in Nat /\ Bucket!StopInterval \in Nat
  BY BucketTree DEF Bucket!StopInterval
<1>2. installed \subseteq BucketCanopies
  BY BucketTree
<1>3. << >> \in Seq(SoundPointers) /\ << >> \in Seq(Bucket!BucketIds) /\ << >> \in Seq(Bucket!Pointers)
  OBVIOUS
<1>4. curr_nodes \in [Bucket!Nodes -> Seq(Bucket!BucketIds)]
  <2>1. ASSUME NEW n \in Bucket!Nodes, n \in Bucket!ToSet(BucketLeaf)
        PROVE  <<CHOOSE b \in Bucket!BucketIds : BucketLeaf[b] = n>> \in Seq(Bucket!BucketIds)
    <3>1. \E b \in Bucket!BucketIds : BucketLeaf[b] = n
      BY <2>1 DEF Bucket!ToSet, Bucket!BucketIds
    <3>2. (CHOOSE b \in Bucket!BucketIds : BucketLeaf[b] = n) \in Bucket!BucketIds
      BY <3>1
    <3> QED
      BY <3>2
  <2> QED
    BY <2>1, <1>3
<1>5. num_waiting \in [Bucket!BucketIds -> Int] /\ trav_tops \in [Bucket!BucketIds -> Bucket!Nodes]
      /\ visits \in [Bucket!Nodes -> [Bucket!BucketIds -> Nat]]
      /\ insertions \in [Bucket!Nodes -> Seq(Bucket!BucketIds)]
      /\ wakes \in [Bucket!Nodes -> Nat]
  BY BucketTree, <1>3 DEF Bucket!NoInsertions
<1>6. 0 \in 0 .. Len(BucketLeaf)
  BY BucketTree
<1>7. Bucket!TypeOK
  BY <1>1, <1>2, <1>3, <1>4, <1>5, <1>6 DEF Bucket!TypeOK
<1>8. PointersSound /\ GoDownInv
  BY <1>3, FS_EmptySet DEF PointersSound, GoDownInv
<1> QED
  BY <1>7, <1>8 DEF BucketInv

\* The node that a bucket visits.
LEMMA VisitFacts ==
  ASSUME BucketInv, Bucket!Visiting
  PROVE  /\ Head(nodes) \in SoundPointers /\ Tail(nodes) \in Seq(SoundPointers)
         /\ Bucket!Node \in Bucket!Nodes
         /\ ~ Head(nodes).live => Bucket!Node \in BucketCanopies \cup BucketRemote
         /\ bucket \in Bucket!BucketIds
         /\ Bucket!Visited \in [Bucket!Nodes -> [Bucket!BucketIds -> Nat]]
<1>1. nodes \in Seq(SoundPointers) /\ nodes # << >>
  BY DEF BucketInv, PointersSound, Bucket!Visiting
<1>2. Head(nodes) \in SoundPointers /\ Tail(nodes) \in Seq(SoundPointers)
  BY <1>1, QueueFacts
<1>3. Bucket!Node \in Bucket!Nodes
  BY <1>2, SoundIsPointer DEF Bucket!Node
<1>4. ~ Head(nodes).live => Bucket!Node \in BucketCanopies \cup BucketRemote
  BY <1>2 DEF Bucket!Node, SoundPointers
<1>5. bucket \in Bucket!BucketIds /\ visits \in [Bucket!Nodes -> [Bucket!BucketIds -> Nat]]
  BY <1>1 DEF BucketInv, Bucket!TypeOK, PointersSound
<1>6. [visits[Bucket!Node] EXCEPT ![bucket] = @ + 1] \in [Bucket!BucketIds -> Nat]
  BY <1>3, <1>5
<1>7. Bucket!Visited \in [Bucket!Nodes -> [Bucket!BucketIds -> Nat]]
  BY <1>3, <1>5, <1>6 DEF Bucket!Visited
<1> QED
  BY <1>2, <1>3, <1>4, <1>5, <1>7

\* A step that leaves the queues and the pointers of the walk alone but for nodes.
LEMMA VisitsKept ==
  ASSUME BucketInv, Bucket!VisitLeaf \/ Bucket!VisitInternal \/ Bucket!Miss \/ Bucket!Park
  PROVE  BucketInv'
<1> USE DEF Bucket!cacheVars, Bucket!messageVars, Bucket!basicVars, Bucket!upVars
<1>1. CASE Bucket!VisitLeaf
  <2>1. nodes' \in Seq(SoundPointers) /\ nodes' \in Seq(Bucket!Pointers)
        /\ visits' \in [Bucket!Nodes -> [Bucket!BucketIds -> Nat]]
    BY <1>1, VisitFacts, SoundIsPointer DEF Bucket!VisitLeaf, BucketInv, Bucket!TypeOK
  <2>2. bucket \in Bucket!BucketIds /\ bucket' = bucket
    BY <1>1, VisitFacts DEF Bucket!VisitLeaf
  <2>3. Bucket!TypeOK'
    BY <1>1, <2>1 DEF Bucket!VisitLeaf, BucketInv, Bucket!TypeOK
  <2>4. PointersSound' /\ GoDownInv'
    BY <1>1, <2>1, <2>2 DEF Bucket!VisitLeaf, BucketInv, PointersSound, GoDownInv, Bucket!Basic
  <2> QED
    BY <2>3, <2>4 DEF BucketInv
<1>2. CASE Bucket!VisitInternal
  <2> DEFINE children == [i \in 1 .. BranchFactor |-> Bucket!Pointer(Bucket!ChildrenOf(Bucket!Node)[i])]
  <2>1. Bucket!Node \in Bucket!Nodes \ BucketLeaves /\ Tail(nodes) \in Seq(SoundPointers)
    BY <1>2, VisitFacts DEF Bucket!VisitInternal
  <2>2. BranchFactor \in Nat /\ \A i \in 1 .. BranchFactor :
          Bucket!ChildrenOf(Bucket!Node)[i] \in Bucket!Nodes
    BY <2>1, BucketTree
  <2>3. \A i \in 1 .. BranchFactor : Bucket!Pointer(Bucket!ChildrenOf(Bucket!Node)[i]) \in SoundPointers
    BY <2>2, PointerSound
  <2>4. children \in Seq(SoundPointers)
    BY <2>2, <2>3, IsASeq
  <2>5. /\ nodes' = IF <<Bucket!Node, bucket>> \in setting.content THEN Tail(nodes)
                     ELSE IF Bucket!Basic THEN Tail(nodes) \o children ELSE children \o Tail(nodes)
        /\ visits' = Bucket!Visited
    BY <1>2 DEF Bucket!VisitInternal
  <2> HIDE DEF children
  <2>6. Tail(nodes) \o children \in Seq(SoundPointers) /\ children \o Tail(nodes) \in Seq(SoundPointers)
    BY <2>1, <2>4, ConcatProperties
  <2>7. nodes' \in Seq(SoundPointers)
    BY <2>1, <2>5, <2>6
  <2>8. nodes' \in Seq(Bucket!Pointers) /\ visits' \in [Bucket!Nodes -> [Bucket!BucketIds -> Nat]]
    BY <1>2, <2>5, <2>7, VisitFacts, SoundIsPointer DEF Bucket!VisitInternal
  <2>9. bucket \in Bucket!BucketIds /\ bucket' = bucket
    BY <1>2, VisitFacts DEF Bucket!VisitInternal
  <2>10. Bucket!TypeOK'
    BY <1>2, <2>8 DEF Bucket!VisitInternal, BucketInv, Bucket!TypeOK
  <2>11. PointersSound' /\ GoDownInv'
    BY <1>2, <2>7, <2>9 DEF Bucket!VisitInternal, BucketInv, PointersSound, GoDownInv, Bucket!Basic
  <2> QED
    BY <2>10, <2>11 DEF BucketInv
<1>3. CASE Bucket!Miss
  <2>1. Bucket!Node \in Bucket!Nodes /\ Tail(nodes) \in Seq(SoundPointers)
        /\ Bucket!Node \in BucketCanopies \cup BucketRemote /\ bucket \in Bucket!BucketIds
    BY <1>3, VisitFacts DEF Bucket!Miss
  <2>2. nodes' \in Seq(SoundPointers) /\ nodes' \in Seq(Bucket!Pointers) /\ parking' \in Bucket!Nodes
        /\ bucket' = bucket
    BY <1>3, <2>1, SoundIsPointer DEF Bucket!Miss
  <2>3. requested' \subseteq BucketCanopies \cup BucketRemote
    BY <1>3, <2>1 DEF Bucket!Miss, BucketInv, Bucket!TypeOK
  <2>4. \A f \in [Bucket!Nodes -> Seq(Bucket!BucketIds)] :
          [f EXCEPT ![Bucket!Node] = Append(@, bucket)] \in [Bucket!Nodes -> Seq(Bucket!BucketIds)]
    <3> SUFFICES ASSUME NEW f \in [Bucket!Nodes -> Seq(Bucket!BucketIds)]
                 PROVE  [f EXCEPT ![Bucket!Node] = Append(@, bucket)] \in [Bucket!Nodes -> Seq(Bucket!BucketIds)]
      OBVIOUS
    <3>1. Append(f[Bucket!Node], bucket) \in Seq(Bucket!BucketIds)
      BY <2>1, AppendProperties
    <3> QED
      BY <2>1, <3>1
  <2>5. /\ curr_nodes \in [Bucket!Nodes -> Seq(Bucket!BucketIds)] /\ num_requested \in Nat
        /\ insertions \in [Bucket!Nodes -> Seq(Bucket!BucketIds)]
    BY DEF BucketInv, Bucket!TypeOK
  <2>6. /\ curr_nodes' \in [Bucket!Nodes -> Seq(Bucket!BucketIds)] /\ num_requested' \in Nat
        /\ insertions' \in [Bucket!Nodes -> Seq(Bucket!BucketIds)]
    <3>1. CASE Bucket!Basic
      <4>1. /\ curr_nodes' = [curr_nodes EXCEPT ![Bucket!Node] = Append(@, bucket)]
            /\ num_requested' = IF Bucket!Node \in requested THEN num_requested ELSE num_requested + 1
            /\ insertions' = insertions
        BY <1>3, <3>1 DEF Bucket!Miss
      <4>2. curr_nodes' \in [Bucket!Nodes -> Seq(Bucket!BucketIds)]
        BY <4>1, <2>4, <2>5
      <4> QED
        BY <4>1, <4>2, <2>5
    <3>2. CASE ~ Bucket!Basic
      <4>1. /\ insertions' = [insertions EXCEPT ![Bucket!Node] = Append(@, bucket)]
            /\ curr_nodes' = curr_nodes /\ num_requested' = num_requested
        BY <1>3, <3>2 DEF Bucket!Miss
      <4>2. insertions' \in [Bucket!Nodes -> Seq(Bucket!BucketIds)]
        BY <4>1, <2>4, <2>5
      <4> QED
        BY <4>1, <4>2, <2>5
    <3> QED
      BY <3>1, <3>2
  <2>7. Bucket!TypeOK'
    BY <1>3, <2>2, <2>3, <2>6 DEF Bucket!Miss, BucketInv, Bucket!TypeOK
  <2>8. PointersSound' /\ GoDownInv'
    BY <1>3, <2>2 DEF Bucket!Miss, BucketInv, PointersSound, GoDownInv, Bucket!Basic
  <2> QED
    BY <2>7, <2>8 DEF BucketInv
<1>4. CASE Bucket!Park
  <2>1. parking \in Bucket!Nodes /\ wakes \in [Bucket!Nodes -> Nat] /\ parked \subseteq Bucket!Nodes
    BY <1>4 DEF Bucket!Park, BucketInv, Bucket!TypeOK
  <2>2. wakes' \in [Bucket!Nodes -> Nat] /\ parked' \subseteq Bucket!Nodes
    BY <1>4, <2>1 DEF Bucket!Park
  <2>3. parking' = 0
    BY <1>4 DEF Bucket!Park
  <2> QED
    BY <1>4, <2>2, <2>3 DEF Bucket!Park, BucketInv, PointersSound, GoDownInv, Bucket!TypeOK, Bucket!Basic
<1> QED
  BY <1>1, <1>2, <1>3, <1>4

\* Messages, requests and installs.
LEMMA MessagesKept ==
  ASSUME BucketInv,
         \/ \E n \in Bucket!Nodes : Bucket!Process(n)
         \/ \E n \in Bucket!Nodes \ {1} : Bucket!RequestElsewhere(n)
         \/ \E n \in requested : Bucket!Install(n)
  PROVE  BucketInv'
<1> USE DEF Bucket!cacheVars, Bucket!descentVars, Bucket!basicVars, Bucket!upVars
<1>1. ASSUME NEW n \in Bucket!Nodes, Bucket!Process(n) PROVE BucketInv'
  <2>1. resume_nodes \in Seq(SoundPointers) /\ wakes \in [Bucket!Nodes -> Nat] /\ wakes[n] > 0
        /\ goDowns \in Nat
    BY <1>1 DEF Bucket!Process, BucketInv, PointersSound, Bucket!TypeOK
  <2>2. [node |-> n, live |-> TRUE] \in SoundPointers
    BY DEF SoundPointers, Bucket!Pointers
  <2>3. resume_nodes' \in Seq(SoundPointers) /\ resume_nodes' # << >>
    BY <1>1, <2>1, <2>2, AppendProperties DEF Bucket!Process
  <2>4. resume_nodes' \in Seq(Bucket!Pointers)
    BY <2>3, SoundIsPointer
  <2>5. wakes' \in [Bucket!Nodes -> Nat]
    BY <1>1, <2>1 DEF Bucket!Process
  <2>6. goDowns' = 1 /\ entry = "none"
    BY <1>1, <2>1 DEF Bucket!Process, Bucket!ShouldResume, BucketInv, GoDownInv
  <2>7. Bucket!TypeOK'
    <3>1. /\ goDowns' \in Nat
          /\ UNCHANGED <<setting, installed, requested, parked, resumes, entry, curr_nodes, from, now_ready,
                         bucket, nodes, parking>>
          /\ UNCHANGED <<saved_start_idx, num_requested, next_stop_index, num_waiting, trav_tops,
                         tops_started, insertions, new_nodes, visits>>
      BY <1>1, <2>6 DEF Bucket!Process
    <3> QED
      BY <2>4, <2>5, <3>1 DEF BucketInv, Bucket!TypeOK
  <2>8. PointersSound' /\ GoDownInv'
    BY <1>1, <2>3, <2>6 DEF Bucket!Process, BucketInv, PointersSound, GoDownInv, Bucket!Basic
  <2> QED
    BY <2>7, <2>8 DEF BucketInv
<1>2. ASSUME NEW n \in Bucket!Nodes \ {1}, Bucket!RequestElsewhere(n) PROVE BucketInv'
  <2>1. n \in BucketCanopies \cup BucketRemote
    BY <1>2 DEF Bucket!RequestElsewhere, Bucket!Here, Bucket!Nodes
  <2> QED
    BY <1>2, <2>1 DEF Bucket!RequestElsewhere, BucketInv, PointersSound, GoDownInv, Bucket!TypeOK,
      Bucket!Basic, Bucket!messageVars
<1>3. ASSUME NEW n \in requested, Bucket!Install(n) PROVE BucketInv'
  <2>1. n \in Bucket!Nodes /\ wakes \in [Bucket!Nodes -> Nat]
    BY DEF BucketInv, Bucket!TypeOK, Bucket!Nodes
  <2>2. wakes' \in [Bucket!Nodes -> Nat]
    BY <1>3, <2>1 DEF Bucket!Install
  <2>3. Bucket!Reply(n) \subseteq BucketCanopies \cup BucketRemote
    BY DEF Bucket!Reply
  <2>4. Bucket!TypeOK'
    BY <1>3, <2>2, <2>3 DEF Bucket!Install, BucketInv, Bucket!TypeOK
  <2>5. PointersSound' /\ GoDownInv'
    BY <1>3 DEF Bucket!Install, BucketInv, PointersSound, GoDownInv, Bucket!Basic
  <2> QED
    BY <2>4, <2>5 DEF BucketInv
<1> QED
  BY <1>1, <1>2, <1>3

\* The entry methods of a basic walk begin and end, and those of both begin.
LEMMA EntriesBegin ==
  ASSUME BucketInv,
         \/ Bucket!Start \/ Bucket!NextBucket \/ Bucket!EndStartTrav \/ Bucket!ResumeAfterPause
         \/ Bucket!GoDown \/ Bucket!EndResumeTrav
  PROVE  BucketInv'
<1> USE DEF Bucket!cacheVars, Bucket!messageVars, Bucket!descentVars, Bucket!basicVars, Bucket!upVars
<1>1. CASE Bucket!Start
  BY <1>1 DEF Bucket!Start, BucketInv, PointersSound, GoDownInv, Bucket!TypeOK, Bucket!Basic
<1>2. CASE Bucket!NextBucket
  <2>1. saved_start_idx \in 0 .. Len(BucketLeaf) /\ saved_start_idx < Len(BucketLeaf)
    BY <1>2 DEF Bucket!NextBucket, BucketInv, Bucket!TypeOK
  <2>2. bucket' \in Bucket!BucketIds /\ saved_start_idx' \in 0 .. Len(BucketLeaf)
    BY <1>2, <2>1, BucketTree DEF Bucket!NextBucket
  <2>3. nodes' \in Seq(SoundPointers) /\ nodes' \in Seq(Bucket!Pointers)
    <3>1. Bucket!Pointer(1) \in SoundPointers /\ nodes' = <<Bucket!Pointer(1)>>
      BY <1>2, BucketTree, PointerSound DEF Bucket!NextBucket
    <3>2. nodes' \in Seq(SoundPointers)
      BY <3>1
    <3> QED
      BY <3>2, SoundIsPointer
  <2>4. Bucket!TypeOK'
    BY <1>2, <2>2, <2>3 DEF Bucket!NextBucket, BucketInv, Bucket!TypeOK
  <2>5. PointersSound' /\ GoDownInv'
    BY <1>2, <2>2, <2>3 DEF Bucket!NextBucket, BucketInv, PointersSound, GoDownInv, Bucket!Basic
  <2> QED
    BY <2>4, <2>5 DEF BucketInv
<1>3. CASE Bucket!EndStartTrav
  <2>1. resumes' \in Nat /\ entry' = "none" /\ from = Bucket!NoNode /\ Bucket!Basic
        /\ entry \in {"start", "resumeAfterPause"}
    BY <1>3 DEF Bucket!EndStartTrav, Bucket!InStartTrav, Bucket!Between, BucketInv, Bucket!TypeOK
  <2>2. GoDownInv'
    BY <1>3, <2>1 DEF Bucket!EndStartTrav, BucketInv, GoDownInv, Bucket!Basic
  <2> QED
    BY <1>3, <2>1, <2>2 DEF Bucket!EndStartTrav, BucketInv, PointersSound, Bucket!TypeOK
<1>4. CASE Bucket!ResumeAfterPause
  <2>1. setting \in BucketSettings /\ setting.iter \in Nat /\ next_stop_index \in Nat /\ resumes \in Nat
        /\ resumes > 0
    BY <1>4, BucketTree DEF Bucket!ResumeAfterPause, BucketInv, Bucket!TypeOK
  <2>2. next_stop_index' \in Nat /\ resumes' \in Nat
    BY <1>4, <2>1, BucketTree DEF Bucket!ResumeAfterPause, Bucket!NextStop, Bucket!StopInterval
  <2>3. GoDownInv'
    BY <1>4 DEF Bucket!ResumeAfterPause, BucketInv, GoDownInv, Bucket!Basic
  <2> QED
    BY <1>4, <2>2, <2>3 DEF Bucket!ResumeAfterPause, BucketInv, PointersSound, Bucket!TypeOK
<1>5. CASE Bucket!GoDown
  <2>1. entry = "none" /\ goDowns = 1 /\ goDowns' = 0 /\ entry' = "goDown"
    BY <1>5 DEF Bucket!GoDown, BucketInv, GoDownInv
  <2>2. GoDownInv'
    BY <1>5, <2>1 DEF Bucket!GoDown, BucketInv, GoDownInv, Bucket!Basic
  <2> QED
    BY <1>5, <2>1, <2>2 DEF Bucket!GoDown, BucketInv, PointersSound, Bucket!TypeOK
<1>6. CASE Bucket!EndResumeTrav
  <2>1. GoDownInv'
    BY <1>6 DEF Bucket!EndResumeTrav, Bucket!InResumeTrav, Bucket!Between, BucketInv, GoDownInv,
      Bucket!Basic
  <2> QED
    BY <1>6, <2>1 DEF Bucket!EndResumeTrav, BucketInv, PointersSound, Bucket!TypeOK
<1> QED
  BY <1>1, <1>2, <1>3, <1>4, <1>5, <1>6

\* resumeTrav and traverse.
LEMMA QueueKept ==
  ASSUME BucketInv,
         Bucket!NextTop \/ Bucket!NextResume \/ Bucket!TakeReady \/ Bucket!EndBucket \/ Bucket!EndReady
  PROVE  BucketInv'
<1> USE DEF Bucket!cacheVars, Bucket!messageVars, Bucket!descentVars, Bucket!basicVars, Bucket!upVars
<1>1. CASE Bucket!NextTop
  <2>1. tops_started \in 0 .. Len(BucketLeaf) /\ tops_started < Len(BucketLeaf)
        /\ trav_tops \in [Bucket!BucketIds -> Bucket!Nodes]
        /\ curr_nodes \in [Bucket!Nodes -> Seq(Bucket!BucketIds)]
    BY <1>1 DEF Bucket!NextTop, Bucket!TopsLeft, BucketInv, Bucket!TypeOK
  <2>2. tops_started' \in 0 .. Len(BucketLeaf) /\ tops_started + 1 \in Bucket!BucketIds
    BY <1>1, <2>1, BucketTree DEF Bucket!NextTop
  <2>3. trav_tops[tops_started + 1] \in Bucket!Nodes
    BY <2>1, <2>2
  <2>4. from' \in SoundPointers /\ from' \in Bucket!Pointers /\ now_ready' \in Seq(Bucket!BucketIds)
    BY <1>1, <2>1, <2>3, PointerSound, SoundIsPointer DEF Bucket!NextTop
  <2>5. Bucket!TypeOK'
    BY <1>1, <2>2, <2>4 DEF Bucket!NextTop, BucketInv, Bucket!TypeOK
  <2>6. PointersSound' /\ GoDownInv'
    BY <1>1, <2>4 DEF Bucket!NextTop, Bucket!TopsLeft, BucketInv, PointersSound, GoDownInv, Bucket!Basic
  <2> QED
    BY <2>5, <2>6 DEF BucketInv
<1>2. CASE Bucket!NextResume
  <2>1. resume_nodes \in Seq(SoundPointers) /\ resume_nodes # << >>
        /\ curr_nodes \in [Bucket!Nodes -> Seq(Bucket!BucketIds)]
    BY <1>2 DEF Bucket!NextResume, BucketInv, PointersSound, Bucket!TypeOK
  <2>2. Head(resume_nodes) \in SoundPointers /\ Tail(resume_nodes) \in Seq(SoundPointers)
    BY <2>1, QueueFacts
  <2>3. from' \in SoundPointers /\ from' \in Bucket!Pointers /\ now_ready' \in Seq(Bucket!BucketIds)
        /\ resume_nodes' \in Seq(SoundPointers) /\ resume_nodes' \in Seq(Bucket!Pointers)
    BY <1>2, <2>1, <2>2, SoundIsPointer DEF Bucket!NextResume
  <2>4. Bucket!TypeOK'
    BY <1>2, <2>3 DEF Bucket!NextResume, BucketInv, Bucket!TypeOK
  <2>5. entry = "goDown" \/ (~ Bucket!Basic /\ entry = "start")
    BY <1>2 DEF Bucket!NextResume, Bucket!InResumeTrav
  <2>6. PointersSound' /\ GoDownInv'
    BY <1>2, <2>3, <2>5 DEF Bucket!NextResume, BucketInv, PointersSound, GoDownInv, Bucket!Basic
  <2> QED
    BY <2>4, <2>6 DEF BucketInv
<1>3. CASE Bucket!TakeReady
  <2>1. now_ready \in Seq(Bucket!BucketIds) /\ now_ready # << >> /\ from \in SoundPointers
        /\ num_waiting \in [Bucket!BucketIds -> Int]
    BY <1>3 DEF Bucket!TakeReady, BucketInv, PointersSound, Bucket!TypeOK
  <2>2. Head(now_ready) \in Bucket!BucketIds /\ Tail(now_ready) \in Seq(Bucket!BucketIds)
    BY <2>1, QueueFacts
  <2>3. nodes' \in Seq(SoundPointers) /\ bucket' \in Bucket!BucketIds
        /\ now_ready' \in Seq(Bucket!BucketIds) /\ num_waiting' \in [Bucket!BucketIds -> Int]
    BY <1>3, <2>1, <2>2 DEF Bucket!TakeReady
  <2>4. Bucket!TypeOK'
    BY <1>3, <2>3, SoundIsPointer DEF Bucket!TakeReady, BucketInv, Bucket!TypeOK
  <2>5. PointersSound' /\ GoDownInv'
    BY <1>3, <2>3 DEF Bucket!TakeReady, BucketInv, PointersSound, GoDownInv, Bucket!Basic
  <2> QED
    BY <2>4, <2>5 DEF BucketInv
<1>4. CASE Bucket!EndBucket
  <2> DEFINE top == trav_tops[bucket]
             siblings == Bucket!ToSet(Bucket!ChildrenOf(Bucket!Parent(top))) \ {top}
  <2>1. bucket \in Bucket!BucketIds /\ bucket' = 0 /\ nodes = << >> /\ nodes' = << >>
        /\ trav_tops \in [Bucket!BucketIds -> Bucket!Nodes] /\ top \in Bucket!Nodes
        /\ num_waiting \in [Bucket!BucketIds -> Int]
        /\ insertions \in [Bucket!Nodes -> Seq(Bucket!BucketIds)]
        /\ new_nodes \subseteq SoundPointers /\ IsFiniteSet(new_nodes)
    BY <1>4 DEF Bucket!EndBucket, Bucket!Descended, BucketInv, PointersSound, Bucket!TypeOK
  <2>2. \/ /\ top # 1
           /\ insertions' = [n \in Bucket!Nodes |-> IF n \in siblings THEN Append(insertions[n], bucket)
                                                    ELSE insertions[n]]
           /\ num_waiting' = [num_waiting EXCEPT ![bucket] = @ + BranchFactor - 1]
           /\ new_nodes' = new_nodes \cup {Bucket!Pointer(n) : n \in siblings}
           /\ trav_tops' = [trav_tops EXCEPT ![bucket] = Bucket!Parent(top)]
        \/ UNCHANGED <<insertions, num_waiting, new_nodes, trav_tops>>
    BY <1>4 DEF Bucket!EndBucket
  <2>3. top # 1 => /\ Bucket!Parent(top) \in Bucket!Nodes \ BucketLeaves
                   /\ siblings \subseteq Bucket!Nodes /\ IsFiniteSet(siblings)
    <3> SUFFICES ASSUME top # 1
                 PROVE  /\ Bucket!Parent(top) \in Bucket!Nodes \ BucketLeaves
                        /\ siblings \subseteq Bucket!Nodes /\ IsFiniteSet(siblings)
      OBVIOUS
    <3>1. Bucket!Parent(top) \in Bucket!Nodes \ BucketLeaves
      BY <2>1, BucketTree
    <3> DEFINE c == Bucket!ChildrenOf(Bucket!Parent(top))
    <3>2. c \in [1 .. BranchFactor -> Bucket!Nodes] /\ BranchFactor \in Nat
      BY <3>1, BucketTree
    <3>3. Bucket!ToSet(c) = {c[i] : i \in 1 .. BranchFactor}
      BY <3>2 DEF Bucket!ToSet
    <3> HIDE DEF c
    <3>4. IsFiniteSet(1 .. BranchFactor)
      BY <3>2, FS_Interval
    <3>5. IsFiniteSet({c[i] : i \in 1 .. BranchFactor})
      BY <3>4, ImageFinite
    <3>6. Bucket!ToSet(c) \subseteq Bucket!Nodes /\ IsFiniteSet(Bucket!ToSet(c))
      BY <3>2, <3>3, <3>5
    <3>7. Bucket!ToSet(c) \ {top} \subseteq Bucket!ToSet(c)
      OBVIOUS
    <3>8. IsFiniteSet(Bucket!ToSet(c) \ {top})
      BY <3>6, <3>7, FS_Subset
    <3> QED
      BY <3>1, <3>6, <3>7, <3>8 DEF c
  <2> HIDE DEF siblings
  <2>4. /\ insertions' \in [Bucket!Nodes -> Seq(Bucket!BucketIds)]
        /\ num_waiting' \in [Bucket!BucketIds -> Int]
        /\ trav_tops' \in [Bucket!BucketIds -> Bucket!Nodes]
        /\ new_nodes' \subseteq SoundPointers /\ IsFiniteSet(new_nodes')
    <3>1. CASE UNCHANGED <<insertions, num_waiting, new_nodes, trav_tops>>
      BY <2>1, <3>1
    <3>2. CASE ~ UNCHANGED <<insertions, num_waiting, new_nodes, trav_tops>>
      <4>1. \A n \in Bucket!Nodes : Append(insertions[n], bucket) \in Seq(Bucket!BucketIds)
        BY <2>1, AppendProperties
      <4>2. insertions' \in [Bucket!Nodes -> Seq(Bucket!BucketIds)]
        BY <2>1, <2>2, <3>2, <4>1
      <4>3. num_waiting' \in [Bucket!BucketIds -> Int]
        BY <2>1, <2>2, <3>2, BucketTree
      <4>4. trav_tops' \in [Bucket!BucketIds -> Bucket!Nodes]
        BY <2>1, <2>2, <2>3, <3>2
      <4>5. {Bucket!Pointer(n) : n \in siblings} \subseteq SoundPointers
        BY <2>2, <2>3, <3>2, PointerSound
      <4>6. IsFiniteSet({Bucket!Pointer(n) : n \in siblings})
        <5>1. IsFiniteSet(siblings)
          BY <2>2, <2>3, <3>2
        <5> QED
          BY <5>1, PointersFinite
      <4>7. IsFiniteSet(new_nodes \cup {Bucket!Pointer(n) : n \in siblings})
        BY <2>1, <4>6, FS_Union
      <4> QED
        BY <2>1, <2>2, <3>2, <4>2, <4>3, <4>4, <4>5, <4>7
    <3> QED
      BY <3>1, <3>2
  <2>5. new_nodes' \subseteq Bucket!Pointers
    BY <2>4, SoundIsPointer
  <2>6. Bucket!TypeOK'
    BY <1>4, <2>1, <2>4, <2>5 DEF Bucket!EndBucket, BucketInv, Bucket!TypeOK
  <2>7. PointersSound' /\ GoDownInv'
    BY <1>4, <2>1, <2>4 DEF Bucket!EndBucket, BucketInv, PointersSound, GoDownInv, Bucket!Basic
  <2> QED
    BY <2>6, <2>7 DEF BucketInv
<1>5. CASE Bucket!EndReady
  <2>1. bucket = 0 /\ from # Bucket!NoNode /\ from' = Bucket!NoNode /\ new_nodes' = {}
        /\ insertions' = Bucket!NoInsertions /\ nodes' = nodes /\ bucket' = bucket
    BY <1>5 DEF Bucket!EndReady
  <2>2. resume_nodes \in Seq(SoundPointers) /\ new_nodes \subseteq SoundPointers /\ IsFiniteSet(new_nodes)
    BY DEF BucketInv, PointersSound
  <2>3. PICK order \in Bucket!SetToSeqs(new_nodes) : resume_nodes' = resume_nodes \o order
    BY <1>5 DEF Bucket!EndReady
  <2>4. order \in [1 .. Bucket!Cardinality(new_nodes) -> new_nodes]
    BY <2>3 DEF Bucket!SetToSeqs
  <2>5. Bucket!Cardinality(new_nodes) = Cardinality(new_nodes)
    BY DEF Bucket!Cardinality, Cardinality
  <2>6. Cardinality(new_nodes) \in Nat
    BY <2>2, FS_CardinalityType
  <2>7. order \in Seq(SoundPointers)
    BY <2>2, <2>4, <2>5, <2>6
  <2>8. resume_nodes' \in Seq(SoundPointers) /\ resume_nodes' \in Seq(Bucket!Pointers)
    BY <2>2, <2>3, <2>7, ConcatProperties, SoundIsPointer
  <2>9. insertions' \in [Bucket!Nodes -> Seq(Bucket!BucketIds)]
    BY <2>1 DEF Bucket!NoInsertions
  <2>10. curr_nodes' \in [Bucket!Nodes -> Seq(Bucket!BucketIds)]
    <3>1. \A n \in Bucket!Nodes : curr_nodes[n] \in Seq(Bucket!BucketIds)
            /\ insertions[n] \in Seq(Bucket!BucketIds)
      BY DEF BucketInv, Bucket!TypeOK
    <3>2. \A n \in Bucket!Nodes :
            (IF n = from.node THEN << >> ELSE curr_nodes[n]) \o insertions[n] \in Seq(Bucket!BucketIds)
      <4> SUFFICES ASSUME NEW n \in Bucket!Nodes
                   PROVE (IF n = from.node THEN << >> ELSE curr_nodes[n]) \o insertions[n]
                            \in Seq(Bucket!BucketIds)
        OBVIOUS
      <4>1. (IF n = from.node THEN << >> ELSE curr_nodes[n]) \in Seq(Bucket!BucketIds)
        BY <3>1
      <4> QED
        BY <3>1, <4>1, ConcatProperties
    <3> QED
      BY <1>5, <3>2 DEF Bucket!EndReady
  <2>11. entry = "goDown" \/ (~ Bucket!Basic /\ entry = "start")
    BY <2>1 DEF BucketInv, GoDownInv
  <2>12. Bucket!TypeOK'
    BY <1>5, <2>1, <2>8, <2>9, <2>10 DEF Bucket!EndReady, BucketInv, Bucket!TypeOK
  <2>13. PointersSound'
    BY <1>5, <2>1, <2>8, FS_EmptySet DEF Bucket!EndReady, BucketInv, PointersSound
  <2>14. GoDownInv'
    BY <1>5, <2>1, <2>11 DEF Bucket!EndReady, BucketInv, GoDownInv, Bucket!Basic
  <2> QED
    BY <2>12, <2>13, <2>14 DEF BucketInv
<1> QED
  BY <1>1, <1>2, <1>3, <1>4, <1>5

LEMMA BucketKept ==
  ASSUME BucketInv, [Bucket!Next]_(Bucket!vars)
  PROVE  BucketInv'
<1>1. CASE UNCHANGED Bucket!vars
  BY <1>1, BucketStutters
<1>2. CASE Bucket!Owner
  BY <1>2, VisitsKept, MessagesKept, EntriesBegin, QueueKept DEF Bucket!Owner
<1>3. CASE (\E n \in Bucket!Nodes \ {1} : Bucket!RequestElsewhere(n)) \/ (\E n \in requested : Bucket!Install(n))
  BY <1>3, MessagesKept
<1> QED
  BY <1>1, <1>2, <1>3 DEF Bucket!Next

\* resumeTrav is called when a node is queued, and only then (src/Resumer.h, process;
\* src/Partition.h, goDown): whatever a walk fetches, whenever it pauses and wherever
\* it climbs to, a queued node has one goDown coming, and a goDown finds a node.
THEOREM ResumesFindWork == WalksSpec => []ResumeFindsWork
<1> DEFINE Inv == kind = "bucket" => BucketInv
<1>1. WalksInit => Inv
  BY BucketStarts DEF WalksInit
<1>2. Inv /\ [WalksNext]_WalksVars => Inv'
  <2> SUFFICES ASSUME Inv, [WalksNext]_WalksVars, kind' = "bucket" PROVE BucketInv'
    OBVIOUS
  <2>1. kind = "bucket" /\ [Bucket!Next]_(Bucket!vars)
    BY DEF WalksNext, WalksVars, Transposed, ByBucket, ByPair, Bucket!vars, bucketOnly, vars, cacheVars,
      pauseVars, resumeVars, messageVars, history, Bucket!cacheVars, Bucket!messageVars,
      Bucket!descentVars, Bucket!basicVars, Bucket!upVars
  <2> QED
    BY <2>1, BucketKept
<1>3. Inv => ResumeFindsWork
  BY DEF BucketInv, GoDownInv, ResumeFindsWork, Bucket!ResumeFindsWork
<1> QED
  BY <1>1, <1>2, <1>3, PTL DEF WalksSpec
=============================================================================
