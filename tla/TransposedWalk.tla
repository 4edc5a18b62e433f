--------------------------- MODULE TransposedWalk ---------------------------
(***************************************************************************)
(* One transposed walk of the tree, with its fetches and its pauses        *)
(* (src/Traverser.h: TransposedDownTraverser, handleRemoteNode;            *)
(* src/Partition.h and src/TreePiece.h: startDown, goDown,                 *)
(* resumeAfterPause; src/Resumer.h: process).                              *)
(*                                                                         *)
(* The walk carries a set of target leaves, its buckets, down the tree: at *)
(* a node it asks every bucket whether to open it, and goes on with the    *)
(* buckets that do.  A node that is not in the cache is remembered in      *)
(* curr_nodes until the install of its data wakes the owner, whose goDown  *)
(* continues there.  Once the walk has opened too many nodes or asked for  *)
(* too many it puts local nodes aside instead of descending, and the owner *)
(* sends itself resumeAfterPause.                                          *)
(*                                                                         *)
(* One action is one visit of a node: other PEs of the process request and *)
(* install nodes between two visits, and between a visit and its park.     *)
(* Which buckets open a node is left to the visitor.                       *)
(***************************************************************************)
EXTENDS Integers, Sequences, FiniteSets

CONSTANTS
  BranchFactor,
  Canopies,       \* keys above the tree pieces
  Local,          \* keys of this process's tree pieces
  Remote,         \* keys of the other processes' tree pieces
  Leaves,
  Buckets,        \* target leaves
  Packs,          \* canopies the starter pack may have brought
  ShareDepth,     \* cache_share_depth
  RequestPause,   \* request_pause_interval
  IterPause,      \* iter_pause_interval
  CallSelfLeaf

Nodes == Canopies \cup Local \cup Remote

Parent(n) == n \div BranchFactor

ASSUME WalkAssumption ==
  /\ BranchFactor \in Nat \ {0, 1}
  /\ Nodes \subseteq Nat \ {0} /\ 1 \in Canopies
  /\ Leaves \subseteq Local \cup Remote
  /\ Buckets \subseteq Local \cap Leaves
  /\ Canopies \cap (Local \cup Remote) = {} /\ Local \cap Remote = {}
  /\ \A n \in Nodes \ {1} : Parent(n) \in Nodes \ Leaves
  \* a node that is no leaf has all its children, and a piece has its subtree
  /\ \A n \in Nodes \ Leaves : \A i \in 1 .. BranchFactor : n * BranchFactor + i - 1 \in Nodes
  /\ \A n \in Nodes : /\ Parent(n) \in Local => n \in Local
                      /\ Parent(n) \in Remote => n \in Remote
  /\ Packs \subseteq SUBSET Canopies
  /\ ShareDepth \in Nat \ {0}
  /\ RequestPause \in Nat /\ IterPause \in Nat
  /\ CallSelfLeaf \in BOOLEAN

VARIABLES
  \* the process's cache
  installed,     \* keys whose data is in the cache
  requested,     \* keys asked for
  \* the traverser
  started,
  entry,         \* entry method running on the owner's PE
  stack,         \* the recursion: [node, active], the next to visit first
  parking,       \* node handled and not yet parked on, or 0
  curr_nodes,    \* per key: the buckets that wait there, or {}
  paused_curr_nodes,
  next_paused,   \* resumeAfterPause: how many of them have been taken
  num_requested,
  handle_count,
  processed_keys,
  resuming,      \* key that goDown is continuing at, or 0
  \* the resumer and the messages
  parked,        \* keys this walk is parked on
  wakes,         \* keys of process messages under way
  resume_nodes,
  goDowns,       \* goDown messages under way
  resumes,       \* resumeAfterPause messages under way
  \* history
  opened,        \* per node: buckets that opened it
  visits         \* per node and bucket: how often it was visited

cacheVars == <<installed, requested>>
pauseVars == <<paused_curr_nodes, next_paused, num_requested, handle_count>>
resumeVars == <<processed_keys, resuming>>
messageVars == <<parked, wakes, resume_nodes, goDowns, resumes>>
history == <<opened, visits>>
vars == <<cacheVars, started, entry, stack, parking, curr_nodes, pauseVars, resumeVars,
          messageVars, history>>

Init ==
  /\ installed \in Packs
  /\ requested = {}
  /\ started = FALSE
  /\ entry = "none"
  /\ stack = << >>
  /\ parking = 0
  /\ curr_nodes = [n \in Nodes |-> {}]
  /\ paused_curr_nodes = << >>
  /\ next_paused = 0
  /\ num_requested = 0
  /\ handle_count = 0
  /\ processed_keys = {}
  /\ resuming = 0
  /\ parked = {}
  /\ wakes = {}
  /\ resume_nodes = << >>
  /\ goDowns = 0
  /\ resumes = 0
  /\ opened = [n \in Nodes |-> {}]
  /\ visits = [n \in Nodes |-> [b \in Buckets |-> 0]]

ChildrenOf(n) == [i \in 1 .. BranchFactor |-> n * BranchFactor + i - 1]

Here(n) == n \in Local \cup installed

WantsPause(handled, asked) == handled > IterPause \/ asked > RequestPause

-----------------------------------------------------------------------------
(* Visiting a node.                                                        *)

Visiting == stack # << >> /\ parking = 0

Node == Head(stack).node
Active == Head(stack).active

Visited(B) == [visits EXCEPT ![Node] = [b \in Buckets |-> IF b \in B THEN @[b] + 1 ELSE @[b]]]

VisitLeaf ==
  /\ Visiting
  /\ Node \in Leaves /\ Here(Node)
  /\ visits' = Visited({b \in Active : CallSelfLeaf \/ b # Node})
  /\ stack' = Tail(stack)
  /\ UNCHANGED <<cacheVars, started, entry, parking, curr_nodes, pauseVars, resumeVars,
                 messageVars, opened>>

\* The buckets in O open the node; the others are content with its data.
Open(O) ==
  LET handled == IF O = {} THEN handle_count ELSE handle_count + 1
      pause == Node \in Local /\ WantsPause(handled, num_requested) IN
  /\ Visiting
  /\ Node \notin Leaves /\ Here(Node)
  /\ visits' = Visited(Active)
  /\ opened' = [opened EXCEPT ![Node] = @ \cup O]
  /\ handle_count' = handled
  /\ paused_curr_nodes' = IF O # {} /\ pause
                            THEN Append(paused_curr_nodes, [node |-> Node, active |-> O])
                            ELSE paused_curr_nodes
  /\ stack' = IF O = {} \/ pause THEN Tail(stack)
              ELSE [i \in DOMAIN ChildrenOf(Node) |->
                      [node |-> ChildrenOf(Node)[i], active |-> O]] \o Tail(stack)
  /\ UNCHANGED <<cacheVars, started, entry, parking, curr_nodes, next_paused, num_requested,
                 resumeVars, messageVars>>

\* A placeholder: the first of the process to meet it sends the request.
Miss ==
  /\ Visiting
  /\ ~ Here(Node)
  /\ curr_nodes' = [curr_nodes EXCEPT ![Node] = Active]
  /\ requested' = requested \cup {Node}
  /\ num_requested' = IF Node \in requested THEN num_requested ELSE num_requested + 1
  /\ parking' = Node
  /\ stack' = Tail(stack)
  /\ UNCHANGED <<installed, started, entry, paused_curr_nodes, next_paused, handle_count,
                 resumeVars, messageVars, history>>

\* park: the install may have come first, and then the walk wakes itself.
Park ==
  /\ parking # 0
  /\ parking' = 0
  /\ IF parking \in installed
       THEN wakes' = wakes \cup {parking} /\ UNCHANGED parked
       ELSE parked' = parked \cup {parking} /\ UNCHANGED wakes
  /\ UNCHANGED <<cacheVars, started, entry, stack, curr_nodes, pauseVars, resumeVars,
                 resume_nodes, goDowns, resumes, history>>

-----------------------------------------------------------------------------
(* The process around the walk.                                            *)

\* Another PE's walk asks first.
RequestElsewhere(n) ==
  /\ ~ Here(n) /\ n \notin requested
  /\ Parent(n) \in installed
  /\ requested' = requested \cup {n}
  /\ UNCHANGED <<installed, started, entry, stack, parking, curr_nodes, pauseVars, resumeVars,
                 messageVars, history>>

\* Node m is d levels below n, in one piece.
LevelsBelow(m, n, d) ==
  \E way \in [0 .. d -> Remote] :
    way[0] = n /\ way[d] = m /\ \A i \in 1 .. d : Parent(way[i]) = way[i - 1]

\* A canopy answers with itself, a piece with cache_share_depth levels.
Reply(n) ==
  IF n \in Canopies THEN {n}
  ELSE {m \in Remote : \E d \in 0 .. ShareDepth - 1 : LevelsBelow(m, n, d)}

\* addCache or restoreData, and the wake-up of who is parked.
Install(n) ==
  /\ n \in requested \ installed
  /\ installed' = installed \cup Reply(n)
  /\ parked' = parked \ {n}
  /\ wakes' = wakes \cup (parked \cap {n})
  /\ UNCHANGED <<requested, started, entry, stack, parking, curr_nodes, pauseVars, resumeVars,
                 resume_nodes, goDowns, resumes, history>>

ShouldResume == resume_nodes = << >>

\* Resumer::process.
Process(n) ==
  /\ entry = "none"
  /\ n \in wakes
  /\ wakes' = wakes \ {n}
  /\ resume_nodes' = Append(resume_nodes, n)
  /\ goDowns' = IF ShouldResume THEN goDowns + 1 ELSE goDowns
  /\ UNCHANGED <<cacheVars, started, entry, stack, parking, curr_nodes, pauseVars, resumeVars,
                 parked, resumes, history>>

-----------------------------------------------------------------------------
(* The owner's entry methods.                                              *)

Returned == stack = << >> /\ parking = 0

Start ==
  /\ ~ started
  /\ started' = TRUE
  /\ entry' = "start"
  /\ stack' = <<[node |-> 1, active |-> Buckets]>>
  /\ UNCHANGED <<cacheVars, parking, curr_nodes, pauseVars, resumeVars, messageVars, history>>

\* Variant: nobody resumes what the start put aside.
Unscheduled == FALSE

\* startNewTraverser.
ScheduledByStart == WantsPause(handle_count, num_requested)

EndStart ==
  /\ entry = "start" /\ Returned
  /\ entry' = "none"
  /\ resumes' = IF ScheduledByStart THEN resumes + 1 ELSE resumes
  /\ UNCHANGED <<cacheVars, started, stack, parking, curr_nodes, pauseVars, resumeVars,
                 parked, wakes, resume_nodes, goDowns, history>>

GoDown ==
  /\ entry = "none" /\ goDowns > 0
  /\ entry' = "goDown"
  /\ goDowns' = goDowns - 1
  /\ processed_keys' = {}
  /\ UNCHANGED <<cacheVars, started, stack, parking, curr_nodes, pauseVars, resuming,
                 parked, wakes, resume_nodes, resumes, history>>

\* resumeTrav takes a node: it continues where buckets wait.
NextResume ==
  LET n == Head(resume_nodes) IN
  /\ entry = "goDown" /\ Returned /\ resuming = 0
  /\ resume_nodes # << >>
  /\ resume_nodes' = Tail(resume_nodes)
  /\ \/ /\ n \notin processed_keys /\ curr_nodes[n] # {}
        /\ stack' = <<[node |-> n, active |-> curr_nodes[n]]>>
        /\ resuming' = n
        /\ UNCHANGED processed_keys
     \/ /\ n \in processed_keys \/ curr_nodes[n] = {}
        /\ processed_keys' = processed_keys \cup {n}
        /\ UNCHANGED <<stack, resuming>>
  /\ UNCHANGED <<cacheVars, started, entry, parking, curr_nodes, pauseVars,
                 parked, wakes, goDowns, resumes, history>>

FinishResume ==
  /\ entry = "goDown" /\ Returned /\ resuming # 0
  /\ curr_nodes' = [curr_nodes EXCEPT ![resuming] = {}]
  /\ processed_keys' = processed_keys \cup {resuming}
  /\ resuming' = 0
  /\ UNCHANGED <<cacheVars, started, entry, stack, parking, pauseVars, messageVars, history>>

\* goDown returns, whether the walk wants a pause or not.
EndGoDown ==
  /\ entry = "goDown" /\ Returned /\ resuming = 0
  /\ resume_nodes = << >>
  /\ entry' = "none"
  /\ UNCHANGED <<cacheVars, started, stack, parking, curr_nodes, pauseVars, resumeVars,
                 messageVars, history>>

\* Variant: the count of opened nodes goes on.
HandledOn == handle_count

HandledAnew == 0

ResumeAfterPause ==
  /\ entry = "none" /\ resumes > 0
  /\ entry' = "resumeAfterPause"
  /\ resumes' = resumes - 1
  /\ num_requested' = 0
  /\ handle_count' = HandledAnew
  /\ next_paused' = 0
  /\ UNCHANGED <<cacheVars, started, stack, parking, curr_nodes, paused_curr_nodes, resumeVars,
                 parked, wakes, resume_nodes, goDowns, history>>

MorePaused ==
  next_paused < Len(paused_curr_nodes) /\ ~ WantsPause(handle_count, num_requested)

NextPaused ==
  LET p == paused_curr_nodes[next_paused + 1] IN
  /\ entry = "resumeAfterPause" /\ Returned
  /\ MorePaused
  /\ next_paused' = next_paused + 1
  /\ stack' = [i \in DOMAIN ChildrenOf(p.node) |->
                 [node |-> ChildrenOf(p.node)[i], active |-> p.active]]
  /\ UNCHANGED <<cacheVars, started, entry, parking, curr_nodes, paused_curr_nodes,
                 num_requested, handle_count, resumeVars, messageVars, history>>

Taken == next_paused

\* resumeAfterPause erases what it took, and goes on later with the rest.
EndResumeAfterPause ==
  /\ entry = "resumeAfterPause" /\ Returned
  /\ ~ MorePaused
  /\ paused_curr_nodes' = SubSeq(paused_curr_nodes, Taken + 1, Len(paused_curr_nodes))
  /\ resumes' = IF WantsPause(handle_count, num_requested) THEN resumes + 1 ELSE resumes
  /\ next_paused' = 0
  /\ entry' = "none"
  /\ UNCHANGED <<cacheVars, started, stack, parking, curr_nodes, num_requested, handle_count,
                 resumeVars, parked, wakes, resume_nodes, goDowns, history>>

Owner ==
  \/ Start \/ EndStart
  \/ VisitLeaf \/ Miss \/ Park
  \/ Visiting /\ \E O \in SUBSET Active : Open(O)
  \/ \E n \in wakes : Process(n)
  \/ GoDown \/ NextResume \/ FinishResume \/ EndGoDown
  \/ ResumeAfterPause \/ NextPaused \/ EndResumeAfterPause

Next ==
  \/ Owner
  \/ \E n \in Nodes \ {1} : RequestElsewhere(n)
  \/ \E n \in requested : Install(n)

Spec == Init /\ [][Next]_vars

-----------------------------------------------------------------------------
(* Properties.                                                             *)

Work == [node : Nodes, active : SUBSET Buckets]

TypeOK ==
  /\ installed \subseteq Canopies \cup Remote
  /\ requested \subseteq Canopies \cup Remote
  /\ started \in BOOLEAN
  /\ entry \in {"none", "start", "goDown", "resumeAfterPause"}
  /\ stack \in Seq(Work)
  /\ parking \in Nodes \cup {0} /\ resuming \in Nodes \cup {0}
  /\ curr_nodes \in [Nodes -> SUBSET Buckets]
  /\ paused_curr_nodes \in Seq([node : Local \ Leaves, active : SUBSET Buckets])
  /\ next_paused \in 0 .. Len(paused_curr_nodes)
  /\ num_requested \in Nat /\ handle_count \in Nat
  /\ processed_keys \subseteq Nodes
  /\ parked \subseteq Nodes /\ wakes \subseteq Nodes
  /\ resume_nodes \in Seq(Nodes)
  /\ goDowns \in Nat /\ resumes \in Nat
  /\ opened \in [Nodes -> SUBSET Buckets]
  /\ visits \in [Nodes -> [Buckets -> Nat]]

Quiescent ==
  /\ started /\ entry = "none"
  /\ wakes = {} /\ goDowns = 0 /\ resumes = 0
  /\ requested \subseteq installed

\* What a bucket has to visit: the root, and the children of what it opened.
Due(n, b) ==
  /\ n = 1 \/ b \in opened[Parent(n)]
  /\ n # b \/ CallSelfLeaf

\* The variables keep their types; every bucket visits a node at most once,
\* whatever is fetched, woken twice or put aside, and when all is quiet it has
\* visited every node that it had to.
Complete ==
  /\ TypeOK
  /\ \A n \in Nodes : \A b \in Buckets : visits[n][b] <= 1
  /\ Quiescent => \A n \in Nodes : \A b \in Buckets : Due(n, b) => visits[n][b] = 1

\* When all is quiet nothing is left that the walk put aside.
NotAbandoned == Quiescent => paused_curr_nodes = << >>
=============================================================================
