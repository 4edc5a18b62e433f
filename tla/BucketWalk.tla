------------------------------ MODULE BucketWalk ------------------------------
(***************************************************************************)
(* The walks that take one bucket at a time (src/Traverser.h:              *)
(* BasicDownTraverser, UpnDTraverser, handleRemoteNode; src/Partition.h:   *)
(* startBasicDown, startUpAndDown, startNewTraverser, resumeAfterPause,    *)
(* goDown; src/Resumer.h: process).                                        *)
(*                                                                         *)
(* A basic walk takes each bucket from the root down, and pauses between   *)
(* two buckets when it has taken or asked for enough.  An up-and-down walk *)
(* takes each bucket from its own leaf, and goes to the siblings of the    *)
(* node it has come up to when num_waiting is zero.  A bucket that meets a *)
(* placeholder is listed in curr_nodes under its key, until the install    *)
(* wakes the owner.                                                        *)
(*                                                                         *)
(* One action is one visit of a node; other PEs of the process request and *)
(* install nodes between two visits.  A pointer that was read before an    *)
(* install still names the placeholder after it.  Which nodes a bucket     *)
(* opens is the visitor's, and fixed for the walk.                         *)
(***************************************************************************)
EXTENDS Integers, Sequences, SequencesExt

CONSTANTS
  BranchFactor,
  Canopies,       \* keys above the tree pieces
  Local,          \* keys of this process's tree pieces
  Remote,         \* keys of the other processes' tree pieces
  Leaves,
  BucketLeaf,     \* the tree leaf of each bucket
  Packs,          \* canopies the starter pack may have brought
  ShareDepth,     \* cache_share_depth
  Settings        \* [kind, request, iter, content]: the walk,
                  \* request_pause_interval, iter_pause_interval and the
                  \* nodes that buckets do not open

Nodes == Canopies \cup Local \cup Remote
BucketIds == DOMAIN BucketLeaf

Parent(n) == n \div BranchFactor

BucketWalkAssumption ==
  /\ BranchFactor \in Nat \ {0, 1}
  /\ Nodes \subseteq Nat \ {0} /\ 1 \in Canopies
  /\ Leaves \subseteq Local \cup Remote
  /\ BucketLeaf \in Seq(Local \cap Leaves) /\ IsInjective(BucketLeaf)
  /\ \A n \in Nodes \ {1} : Parent(n) \in Nodes \ Leaves
  \* a node that is no leaf has all its children
  /\ \A n \in Nodes \ Leaves : \A i \in 1 .. BranchFactor : n * BranchFactor + i - 1 \in Nodes
  /\ Packs \subseteq SUBSET Canopies
  /\ ShareDepth \in Nat \ {0}
  /\ Settings \subseteq [kind : {"basic", "upnd"}, request : Nat, iter : Nat,
                  content : SUBSET (Nodes \X BucketIds)]

VARIABLES
  setting,
  \* the process's cache
  installed,     \* keys whose data is in the cache
  requested,     \* keys asked for
  \* the resumer and the messages
  parked,        \* keys this walk is parked on
  wakes,         \* per key: process messages under way
  resume_nodes,  \* pointers: [node, live]
  goDowns,       \* goDown messages under way
  resumes,       \* resumeAfterPause messages under way
  \* the traverser
  entry,         \* entry method running on the owner's PE
  curr_nodes,    \* per key: the buckets that wait there
  from,          \* where resumeTrav or traverse goes on, or NoNode
  now_ready,     \* the buckets to take from there
  bucket,        \* the bucket that descends, or 0
  nodes,         \* pointers it has yet to visit
  parking,       \* node handled and not yet parked on, or 0
  \* a basic walk
  saved_start_idx, num_requested, next_stop_index,
  \* an up-and-down walk
  num_waiting, trav_tops,
  tops_started,  \* trav_tops that start has traversed
  insertions,    \* curr_nodes_insertions, by key
  new_nodes,
  \* history
  visits         \* per node and bucket: how often it was visited

cacheVars == <<installed, requested>>
messageVars == <<parked, wakes, resume_nodes, goDowns, resumes>>
descentVars == <<from, now_ready, bucket, nodes, parking>>
basicVars == <<saved_start_idx, num_requested, next_stop_index>>
upVars == <<num_waiting, trav_tops, tops_started, insertions, new_nodes>>
vars == <<setting, cacheVars, messageVars, entry, curr_nodes, descentVars, basicVars, upVars, visits>>

Basic == setting.kind = "basic"
Here(n) == n \in Local \cup installed
Pointer(n) == [node |-> n, live |-> Here(n)]
NoNode == [node |-> 0, live |-> FALSE]
ChildrenOf(n) == [i \in 1 .. BranchFactor |-> n * BranchFactor + i - 1]

NoInsertions == [n \in Nodes |-> << >>]

\* 0 stands for no iter_pause_interval.
StopInterval == IF setting.iter > 0 THEN setting.iter ELSE Len(BucketLeaf)

\* The up-and-down walk climbs through nodes that the whole pack has linked.
Init ==
  /\ setting \in Settings
  /\ installed \in IF Basic THEN Packs ELSE {Canopies}
  /\ requested = {}
  /\ parked = {}
  /\ wakes = [n \in Nodes |-> 0]
  /\ resume_nodes = << >>
  /\ goDowns = 0
  /\ resumes = 0
  /\ entry = "new"
  /\ curr_nodes = [n \in Nodes |->
                     IF Basic \/ n \notin ToSet(BucketLeaf) THEN << >>
                     ELSE <<CHOOSE b \in BucketIds : BucketLeaf[b] = n>>]
  /\ from = NoNode
  /\ now_ready = << >>
  /\ bucket = 0
  /\ nodes = << >>
  /\ parking = 0
  /\ saved_start_idx = 0
  /\ num_requested = 0
  /\ next_stop_index = StopInterval
  /\ num_waiting = [b \in BucketIds |-> 1]
  /\ trav_tops = BucketLeaf
  /\ tops_started = 0
  /\ insertions = NoInsertions
  /\ new_nodes = {}
  /\ visits = [n \in Nodes |-> [b \in BucketIds |-> 0]]

-----------------------------------------------------------------------------
(* One bucket visits one node.                                             *)

Visiting == nodes # << >> /\ parking = 0
Node == Head(nodes).node
Visited == [visits EXCEPT ![Node][bucket] = @ + 1]

\* A basic walk leaves out the bucket itself (CallSelfLeaf is false).
Interacts == ~ Basic \/ BucketLeaf[bucket] # Node

VisitLeaf ==
  /\ Visiting
  /\ Head(nodes).live /\ Node \in Leaves
  /\ visits' = IF Interacts THEN Visited ELSE visits
  /\ nodes' = Tail(nodes)
  /\ UNCHANGED <<setting, cacheVars, messageVars, entry, curr_nodes, from, now_ready, bucket,
                 parking, basicVars, upVars>>

\* The queue of a basic walk, the stack of an up-and-down walk.
VisitInternal ==
  LET open == <<Node, bucket>> \notin setting.content
      children == [i \in 1 .. BranchFactor |-> Pointer(ChildrenOf(Node)[i])] IN
  /\ Visiting
  /\ Head(nodes).live /\ Node \notin Leaves
  /\ visits' = Visited
  /\ nodes' = IF ~ open THEN Tail(nodes)
              ELSE IF Basic THEN Tail(nodes) \o children ELSE children \o Tail(nodes)
  /\ UNCHANGED <<setting, cacheVars, messageVars, entry, curr_nodes, from, now_ready, bucket,
                 parking, basicVars, upVars>>

\* handleRemoteNode: the first of the process to meet a placeholder asks.
Miss ==
  /\ Visiting
  /\ ~ Head(nodes).live
  /\ requested' = requested \cup {Node}
  /\ parking' = Node
  /\ nodes' = Tail(nodes)
  /\ IF Basic
       THEN /\ curr_nodes' = [curr_nodes EXCEPT ![Node] = Append(@, bucket)]
            /\ num_requested' = IF Node \in requested THEN num_requested ELSE num_requested + 1
            /\ UNCHANGED insertions
       ELSE /\ insertions' = [insertions EXCEPT ![Node] = Append(@, bucket)]
            /\ UNCHANGED <<curr_nodes, num_requested>>
  /\ UNCHANGED <<setting, installed, messageVars, entry, from, now_ready, bucket, saved_start_idx,
                 next_stop_index, num_waiting, trav_tops, tops_started, new_nodes, visits>>

Closed(n) == n \in installed

\* park: the install may have come first, and then the walk wakes itself.
Park ==
  /\ parking # 0
  /\ parking' = 0
  /\ IF Closed(parking)
       THEN wakes' = [wakes EXCEPT ![parking] = @ + 1] /\ UNCHANGED parked
       ELSE parked' = parked \cup {parking} /\ UNCHANGED wakes
  /\ UNCHANGED <<setting, cacheVars, resume_nodes, goDowns, resumes, entry, curr_nodes, from,
                 now_ready, bucket, nodes, basicVars, upVars, visits>>

-----------------------------------------------------------------------------
(* The process around the walk.                                            *)

\* Another PE's walk asks first.
RequestElsewhere(n) ==
  /\ ~ Here(n) /\ n \notin requested
  /\ Parent(n) \in installed
  /\ requested' = requested \cup {n}
  /\ UNCHANGED <<setting, installed, messageVars, entry, curr_nodes, descentVars, basicVars, upVars,
                 visits>>

\* A canopy answers with itself, a piece with cache_share_depth levels.
Reply(n) ==
  IF n \in Canopies THEN {n}
  ELSE {m \in Remote : \E d \in 0 .. ShareDepth - 1 : m \div BranchFactor ^ d = n}

\* addCache or restoreData: the lane's waiters are woken by one message.
Install(n) ==
  /\ n \in requested \ installed
  /\ installed' = installed \cup Reply(n)
  /\ parked' = parked \ {n}
  /\ wakes' = IF n \in parked THEN [wakes EXCEPT ![n] = @ + 1] ELSE wakes
  /\ UNCHANGED <<setting, requested, resume_nodes, goDowns, resumes, entry, curr_nodes, descentVars,
                 basicVars, upVars, visits>>

\* Variant: a goDown for every node.
ResumesAlways == TRUE
ShouldResume == resume_nodes = << >>

\* Resumer::process.
Process(n) ==
  /\ entry = "none" /\ wakes[n] > 0
  /\ wakes' = [wakes EXCEPT ![n] = @ - 1]
  /\ resume_nodes' = Append(resume_nodes, [node |-> n, live |-> TRUE])
  /\ goDowns' = IF ShouldResume THEN goDowns + 1 ELSE goDowns
  /\ UNCHANGED <<setting, cacheVars, parked, resumes, entry, curr_nodes, descentVars, basicVars,
                 upVars, visits>>

-----------------------------------------------------------------------------
(* The entry methods.                                                      *)

\* Nothing is descended.
Between == bucket = 0 /\ from = NoNode

Start ==
  /\ entry = "new"
  /\ entry' = "start"
  /\ UNCHANGED <<setting, cacheVars, messageVars, curr_nodes, descentVars, basicVars, upVars, visits>>

WantsPause == saved_start_idx > next_stop_index \/ num_requested > setting.request

InStartTrav == Basic /\ entry \in {"start", "resumeAfterPause"} /\ Between

\* startTrav takes the next bucket from the root.
NextBucket ==
  /\ InStartTrav
  /\ saved_start_idx < Len(BucketLeaf) /\ ~ WantsPause
  /\ saved_start_idx' = saved_start_idx + 1
  /\ bucket' = saved_start_idx + 1
  /\ nodes' = <<Pointer(1)>>
  /\ UNCHANGED <<setting, cacheVars, messageVars, entry, curr_nodes, from, now_ready, parking,
                 num_requested, next_stop_index, upVars, visits>>

\* startNewTraverser and resumeAfterPause send the walk a message if it paused.
EndStartTrav ==
  /\ InStartTrav
  /\ saved_start_idx = Len(BucketLeaf) \/ WantsPause
  /\ entry' = "none"
  /\ resumes' = IF WantsPause THEN resumes + 1 ELSE resumes
  /\ UNCHANGED <<setting, cacheVars, parked, wakes, resume_nodes, goDowns, curr_nodes, descentVars,
                 basicVars, upVars, visits>>

NextStop == next_stop_index + StopInterval

ResumeAfterPause ==
  /\ entry = "none" /\ resumes > 0
  /\ entry' = "resumeAfterPause"
  /\ resumes' = resumes - 1
  /\ num_requested' = 0
  /\ next_stop_index' = NextStop
  /\ UNCHANGED <<setting, cacheVars, parked, wakes, resume_nodes, goDowns, curr_nodes, descentVars,
                 saved_start_idx, upVars, visits>>

GoDown ==
  /\ entry = "none" /\ goDowns > 0
  /\ entry' = "goDown"
  /\ goDowns' = goDowns - 1
  /\ UNCHANGED <<setting, cacheVars, parked, wakes, resume_nodes, resumes, curr_nodes, descentVars,
                 basicVars, upVars, visits>>

\* The up-and-down walk's start traverses the leaves before the queue.
TopsLeft == entry = "start" /\ tops_started < Len(BucketLeaf)

NextTop ==
  /\ ~ Basic /\ TopsLeft /\ Between
  /\ tops_started' = tops_started + 1
  /\ from' = Pointer(trav_tops[tops_started + 1])
  /\ now_ready' = curr_nodes[trav_tops[tops_started + 1]]
  /\ UNCHANGED <<setting, cacheVars, messageVars, entry, curr_nodes, bucket, nodes, parking,
                 basicVars, num_waiting, trav_tops, insertions, new_nodes, visits>>

InResumeTrav == entry = "goDown" \/ (~ Basic /\ entry = "start" /\ ~ TopsLeft)

\* resumeTrav takes the front of its queue.
NextResume ==
  /\ InResumeTrav /\ Between
  /\ resume_nodes # << >>
  /\ resume_nodes' = Tail(resume_nodes)
  /\ from' = Head(resume_nodes)
  /\ now_ready' = curr_nodes[Head(resume_nodes).node]
  /\ UNCHANGED <<setting, cacheVars, parked, wakes, goDowns, resumes, entry, curr_nodes, bucket,
                 nodes, parking, basicVars, upVars, visits>>

EndResumeTrav ==
  /\ InResumeTrav /\ Between
  /\ resume_nodes = << >>
  /\ entry' = "none"
  /\ UNCHANGED <<setting, cacheVars, messageVars, curr_nodes, descentVars, basicVars, upVars, visits>>

TakeReady ==
  /\ bucket = 0 /\ from # NoNode /\ now_ready # << >>
  /\ bucket' = Head(now_ready)
  /\ now_ready' = Tail(now_ready)
  /\ nodes' = <<from>>
  /\ num_waiting' = IF Basic THEN num_waiting ELSE [num_waiting EXCEPT ![Head(now_ready)] = @ - 1]
  /\ UNCHANGED <<setting, cacheVars, messageVars, entry, curr_nodes, from, parking, basicVars,
                 trav_tops, tops_started, insertions, new_nodes, visits>>

Descended == bucket # 0 /\ nodes = << >> /\ parking = 0

\* Nothing is waited for, as far as the count goes, and there is a parent.
Climbs == num_waiting[bucket] = 0

\* The bucket is through; an up-and-down walk goes up one level.
EndBucket ==
  LET top == trav_tops[bucket]
      siblings == ToSet(ChildrenOf(Parent(top))) \ {top} IN
  /\ Descended
  /\ bucket' = 0
  /\ IF ~ Basic /\ Climbs /\ top # 1
       THEN /\ insertions' = [n \in Nodes |-> IF n \in siblings THEN Append(insertions[n], bucket)
                                              ELSE insertions[n]]
            /\ num_waiting' = [num_waiting EXCEPT ![bucket] = @ + BranchFactor - 1]
            /\ new_nodes' = new_nodes \cup {Pointer(n) : n \in siblings}
            /\ trav_tops' = [trav_tops EXCEPT ![bucket] = Parent(top)]
       ELSE UNCHANGED <<insertions, num_waiting, new_nodes, trav_tops>>
  /\ UNCHANGED <<setting, cacheVars, messageVars, entry, curr_nodes, from, now_ready, nodes, parking,
                 basicVars, tops_started, visits>>

\* The key is erased, then what came up on the way is recorded; new nodes are
\* queued in the order of their addresses.
EndReady ==
  /\ bucket = 0 /\ from # NoNode /\ now_ready = << >>
  /\ from' = NoNode
  /\ insertions' = NoInsertions
  /\ new_nodes' = {}
  /\ curr_nodes' = [n \in Nodes |->
                      (IF n = from.node THEN << >> ELSE curr_nodes[n]) \o insertions[n]]
  /\ \E order \in SetToSeqs(new_nodes) : resume_nodes' = resume_nodes \o order
  /\ UNCHANGED <<setting, cacheVars, parked, wakes, goDowns, resumes, entry, now_ready, bucket, nodes,
                 parking, basicVars, num_waiting, trav_tops, tops_started, visits>>

Owner ==
  \/ VisitLeaf \/ VisitInternal \/ Miss \/ Park
  \/ \E n \in Nodes : Process(n)
  \/ Start \/ NextBucket \/ EndStartTrav \/ ResumeAfterPause
  \/ GoDown \/ NextTop \/ NextResume \/ EndResumeTrav
  \/ TakeReady \/ EndBucket \/ EndReady

Next ==
  \/ Owner
  \/ \E n \in Nodes \ {1} : RequestElsewhere(n)
  \/ \E n \in requested : Install(n)

-----------------------------------------------------------------------------
(* Properties.                                                             *)

Pointers == [node : Nodes, live : BOOLEAN]

TypeOK ==
  /\ setting \in Settings
  /\ installed \subseteq Canopies \cup Remote /\ requested \subseteq Canopies \cup Remote
  /\ parked \subseteq Nodes /\ wakes \in [Nodes -> Nat]
  /\ resume_nodes \in Seq(Pointers)
  /\ goDowns \in Nat /\ resumes \in Nat
  /\ entry \in {"new", "none", "start", "goDown", "resumeAfterPause"}
  /\ curr_nodes \in [Nodes -> Seq(BucketIds)]
  /\ from \in Pointers \cup {NoNode} /\ now_ready \in Seq(BucketIds)
  /\ bucket \in BucketIds \cup {0} /\ nodes \in Seq(Pointers) /\ parking \in Nodes \cup {0}
  /\ saved_start_idx \in 0 .. Len(BucketLeaf) /\ num_requested \in Nat /\ next_stop_index \in Nat
  /\ num_waiting \in [BucketIds -> Int] /\ trav_tops \in [BucketIds -> Nodes]
  /\ tops_started \in 0 .. Len(BucketLeaf)
  /\ insertions \in [Nodes -> Seq(BucketIds)] /\ new_nodes \subseteq Pointers
  /\ visits \in [Nodes -> [BucketIds -> Nat]]

Quiescent ==
  /\ entry = "none"
  /\ goDowns = 0 /\ resumes = 0 /\ \A n \in Nodes : wakes[n] = 0
  /\ requested \subseteq installed

\* The keys on the way from leaf n to the root.
PathOf(n) == {m \in Nodes : \E d \in 0 .. n : m = n \div BranchFactor ^ d}

\* What a bucket has to visit: where its walk begins or climbs to, and the
\* children of what it opened.
Due(n, b) ==
  LET self == BucketLeaf[b] IN
  \/ Basic /\ n = 1
  \/ ~ Basic /\ n = self
  \/ ~ Basic /\ n \notin PathOf(self) /\ Parent(n) \in PathOf(self)
  \/ /\ n # 1 /\ visits[Parent(n)][b] > 0 /\ <<Parent(n), b>> \notin setting.content
     /\ ~ Basic \/ n # self

\* A bucket visits a node at most once, and when all is quiet it has visited
\* what it had to and waits nowhere.
EachNodeOnce ==
  /\ \A n \in Nodes : \A b \in BucketIds : visits[n][b] <= (IF Due(n, b) THEN 1 ELSE 0)
  /\ Quiescent => \A n \in Nodes :
       curr_nodes[n] = << >> /\ \A b \in BucketIds : Due(n, b) => visits[n][b] = 1

\* The variables keep their types, a goDown finds a node to go on from (what
\* resumeTrav asserts), and a node that is queued has a goDown coming.
ResumeFindsWork ==
  /\ TypeOK
  /\ entry = "none" => goDowns = (IF resume_nodes = << >> THEN 0 ELSE 1)
=============================================================================
