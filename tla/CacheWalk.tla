------------------------------ MODULE CacheWalk ------------------------------
(***************************************************************************)
(* A distributed dual-tree walk over the per-process tree caches, with the *)
(* credit counter that ends it (src/Traverser.h: handleRemoteNode and      *)
(* DualTraverser, src/CacheManager.h: addCache, restoreData, process and   *)
(* the walk credits, src/Resumer.h: process, src/TreePiece.h: startDual    *)
(* and goDown).                                                            *)
(*                                                                         *)
(* A walk element works on pairs of a source key and a target payload.  A  *)
(* pair whose source is not in the cache of the element's process is       *)
(* recorded in curr_nodes, its node requested once per process and the     *)
(* element parked; the reply is installed, the parked elements are woken   *)
(* lane by lane, and each goes down from where it stopped.  Whatever stays *)
(* outstanding holds a credit of the process: the counter reaches zero     *)
(* once, when the process is out of work.                                  *)
(*                                                                         *)
(* park and the drain of an install are single steps here; ParkInstall is  *)
(* their detail.  A lane runs one handler at a time; installs run on any   *)
(* lane of the process and are not tied to one.                            *)
(***************************************************************************)
EXTENDS Integers, Sequences, FiniteSets

CONSTANTS
  Processes,
  Lanes,         \* processing elements
  Elements,      \* the tree pieces that drive the walk
  Keys,          \* keys of the nodes that are remote to somebody
  Payloads,      \* target nodes
  Layouts        \* laneOf:    the lane of an element
                 \* processOf: the process of a lane
                 \* kids:      the remote nodes below a node
                 \* shipped:   the nodes a reply brings, the requested one included
                 \* seeds:     the pairs an element's descent of the local tree ends at

Pairs == Keys \X Payloads

\* The remote nodes are those of trees, and a reply brings the top of a subtree: two
\* replies overlap only if one brings the other's root.
Rooted(y) ==
  /\ \A i, j \in Keys : y.kids[i] \cap y.kids[j] # {} => i = j
  /\ \A e \in Elements : \A pr \in y.seeds[e] : \A k \in Keys : pr[1] \notin y.kids[k]
  /\ \A j \in Keys : /\ j \in y.shipped[j]
                     /\ \A k \in y.shipped[j] \ {j} : \E i \in y.shipped[j] : k \in y.kids[i]
  /\ \A i, j \in Keys :
       y.shipped[i] \cap y.shipped[j] # {} => i \in y.shipped[j] \/ j \in y.shipped[i]

ASSUME WalkAssumption ==
  /\ IsFiniteSet(Lanes) /\ IsFiniteSet(Keys)
  /\ IsFiniteSet(Elements) /\ Elements # {}
  /\ \A y \in Layouts :
       /\ y.laneOf \in [Elements -> Lanes]
       /\ y.processOf \in [Lanes -> Processes]
       /\ y.kids \in [Keys -> SUBSET Keys]
       /\ y.shipped \in [Keys -> SUBSET Keys]
       /\ y.seeds \in [Elements -> SUBSET Pairs]
       /\ Rooted(y)

Idle == [handler |-> "none", pc |-> "idle"]

VARIABLES
  layout,
  \* one per process
  credits,      \* walk_credits
  state,        \* walk_state: 0 idle, 1 armed, 2 fired
  reports,      \* how often fireWalkDone contributed
  installed,    \* keys whose node is in the cache
  closed,       \* keys whose placeholder no longer takes waiters
  latch,        \* keys with a bit in their placeholder's requested mask
  parked,       \* per key: elements parked on the placeholder
  ipc,          \* per key: where the install of its reply is
  toWake,       \* per key: drained elements the install has not woken yet
  lane,         \* per lane: the handler it runs, for which element, where the
                \* handler is, and the key handleRemoteNode was called for
  \* one per element
  stack,        \* pairs doTrav still has to visit
  held,         \* curr_nodes
  fresh,        \* curr_nodes_insertions
  queue,        \* all_resume_nodes of the element
  goDowns,      \* goDown messages on their way
  visited,      \* pairs the walk has worked on (history)
  \* messages and the driver
  requests,     \* per process and key
  replies,      \* per process and key
  resumes,      \* Resumer::process messages
  walking,      \* the driver has broadcast startDual
  seeded,       \* elements that contributed after their seeding descent
  released,     \* processes that ran releaseOpenCredit
  finished      \* the done callback has run

creditVars == <<credits, state, reports>>
cacheVars == <<installed, closed, latch, parked>>
installVars == <<ipc, toWake>>
elemVars == <<stack, held, fresh, queue, goDowns, visited>>
messageVars == <<requests, replies, resumes>>
driverVars == <<layout, walking, seeded, released, finished>>
vars == <<creditVars, cacheVars, installVars, lane, elemVars, messageVars, driverVars>>

LaneOf == layout.laneOf
ProcessOf == layout.processOf
Kids == layout.kids
Shipped == layout.shipped
Seeds == layout.seeds

Home(e) == ProcessOf[LaneOf[e]]

Init ==
  /\ layout \in Layouts
  /\ credits = [p \in Processes |-> 0]
  /\ state = [p \in Processes |-> 0]
  /\ reports = [p \in Processes |-> 0]
  /\ installed = [p \in Processes |-> {}]
  /\ closed = [p \in Processes |-> {}]
  /\ latch = [p \in Processes |-> {}]
  /\ parked = [p \in Processes |-> [k \in Keys |-> {}]]
  /\ ipc = [p \in Processes |-> [k \in Keys |-> "none"]]
  /\ toWake = [p \in Processes |-> [k \in Keys |-> {}]]
  /\ lane = [l \in Lanes |-> Idle]
  /\ stack = [e \in Elements |-> {}]
  /\ held = [e \in Elements |-> {}]
  /\ fresh = [e \in Elements |-> {}]
  /\ queue = [e \in Elements |-> << >>]
  /\ goDowns = [e \in Elements |-> 0]
  /\ visited = [e \in Elements |-> {}]
  /\ requests = [p \in Processes |-> [k \in Keys |-> 0]]
  /\ replies = [p \in Processes |-> [k \in Keys |-> 0]]
  /\ resumes = {}
  /\ walking = FALSE
  /\ seeded = {}
  /\ released = {}
  /\ finished = FALSE

-----------------------------------------------------------------------------
(* The credits.                                                            *)

Armed(p) == state[p] = 1

\* walkCreditInc.
Credit(p, n) ==
  credits' = IF Armed(p) THEN [credits EXCEPT ![p] = @ + n] ELSE credits

\* walkCreditDec(1): the decrement that returns the last credit moves the
\* state from armed to fired and sends fireWalkDone.
Debit(p) ==
  IF Armed(p)
    THEN /\ credits' = [credits EXCEPT ![p] = @ - 1]
         /\ IF credits[p] = 1
              THEN /\ state' = [state EXCEPT ![p] = 2]
                   /\ reports' = [reports EXCEPT ![p] = @ + 1]
              ELSE UNCHANGED <<state, reports>>
    ELSE UNCHANGED creditVars

-----------------------------------------------------------------------------
(* The driver of the walk (FoFPhase3.h).                                   *)

\* armWalkCompletion.
Arm(p) ==
  /\ state[p] = 0
  /\ credits' = [credits EXCEPT ![p] = 1]
  /\ state' = [state EXCEPT ![p] = 1]
  /\ UNCHANGED <<reports, cacheVars, installVars, lane, elemVars, messageVars, driverVars>>

\* Variant: the walk is broadcast without waiting for every process's ack.
BroadcastEarly ==
  /\ \E p \in Processes : state[p] = 1
  /\ ~ walking
  /\ walking' = TRUE
  /\ UNCHANGED <<creditVars, cacheVars, installVars, lane, elemVars, messageVars,
                 layout, seeded, released, finished>>

\* The caller waits for every ack before it broadcasts startDual.
Broadcast ==
  /\ \A p \in Processes : state[p] = 1
  /\ ~ walking
  /\ walking' = TRUE
  /\ UNCHANGED <<creditVars, cacheVars, installVars, lane, elemVars, messageVars,
                 layout, seeded, released, finished>>

\* releaseOpenCredit, broadcast by the reduction over the seeded elements.
Release(p) ==
  /\ seeded = Elements
  /\ p \notin released
  /\ released' = released \cup {p}
  /\ Debit(p)
  /\ UNCHANGED <<cacheVars, installVars, lane, elemVars, messageVars, layout, walking, seeded, finished>>

\* The done reduction: every process's branch has contributed.
WalkDone ==
  /\ \A p \in Processes : reports[p] > 0
  /\ ~ finished
  /\ finished' = TRUE
  /\ UNCHANGED <<creditVars, cacheVars, installVars, lane, elemVars, messageVars,
                 layout, walking, seeded, released>>

-----------------------------------------------------------------------------
(* A lane: startDual, goDown and Resumer::process, one handler at a time.  *)

IdleLane(l) == lane[l] = Idle

\* The lane's handler goes on at label.
At(l, label) == lane' = [lane EXCEPT ![l].pc = label]

\* startDual: the traverser is created and its descent begins.
Start(e) ==
  /\ walking
  /\ e \notin seeded
  /\ IdleLane(LaneOf[e])
  /\ lane' = [lane EXCEPT ![LaneOf[e]] = [handler |-> "start", pc |-> "travel", elem |-> e]]
  /\ stack' = [stack EXCEPT ![e] = Seeds[e]]
  /\ UNCHANGED <<creditVars, cacheVars, installVars, held, fresh, queue, goDowns, visited,
                 messageVars, driverVars>>

\* What curr_nodes holds for the node at the front of the queue.
Front(e) == {pr \in held[e] : pr[1] = Head(queue[e])}

\* goDown: resumeTrav begins with the front of the queue.
GoDown(e) ==
  /\ goDowns[e] > 0
  /\ IdleLane(LaneOf[e])
  /\ goDowns' = [goDowns EXCEPT ![e] = @ - 1]
  /\ IF queue[e] = << >>
       THEN /\ lane' = [lane EXCEPT ![LaneOf[e]] = [handler |-> "goDown", pc |-> "debit", elem |-> e]]
            /\ UNCHANGED stack
       ELSE /\ lane' = [lane EXCEPT ![LaneOf[e]] = [handler |-> "goDown", pc |-> "travel", elem |-> e]]
            /\ stack' = [stack EXCEPT ![e] = Front(e)]
  /\ UNCHANGED <<creditVars, cacheVars, installVars, held, fresh, queue, visited,
                 messageVars, driverVars>>

\* One turn of doTrav's loop.  The pairs below an installed source go on the
\* stack; a placeholder is recorded and handed to handleRemoteNode.
Open(l, e, pr) ==
  /\ pr[1] \in installed[Home(e)]
  /\ stack' = [stack EXCEPT ![e] = (@ \ {pr}) \cup {<<k, pr[2]>> : k \in Kids[pr[1]]}]
  /\ visited' = [visited EXCEPT ![e] = @ \cup {pr}]
  /\ UNCHANGED <<lane, fresh>>

Miss(l, e, pr) ==
  /\ pr[1] \notin installed[Home(e)]
  /\ stack' = [stack EXCEPT ![e] = @ \ {pr}]
  /\ fresh' = [fresh EXCEPT ![e] = @ \cup {pr}]
  /\ lane' = [lane EXCEPT ![l] =
                [handler |-> @.handler, elem |-> e, pc |-> "latch", key |-> pr[1]]]
  /\ UNCHANGED visited

Visit(l) ==
  /\ lane[l].pc = "travel"
  /\ \E pr \in stack[lane[l].elem] : Open(l, lane[l].elem, pr) \/ Miss(l, lane[l].elem, pr)
  /\ UNCHANGED <<creditVars, cacheVars, installVars, held, queue, goDowns,
                 messageVars, driverVars>>

\* Variant: the request is sent whatever the mask held before.
LatchIgnored(l) ==
  /\ lane[l].pc = "latch"
  /\ latch' = [latch EXCEPT ![ProcessOf[l]] = @ \cup {lane[l].key}]
  /\ At(l, "ask")
  /\ UNCHANGED <<creditVars, installed, closed, parked, installVars, elemVars, messageVars, driverVars>>

\* handleRemoteNode: fetch_or on the mask; the first one asks for the node.
Latch(l) ==
  /\ lane[l].pc = "latch"
  /\ latch' = [latch EXCEPT ![ProcessOf[l]] = @ \cup {lane[l].key}]
  /\ At(l, IF lane[l].key \in latch[ProcessOf[l]] THEN "park" ELSE "ask")
  /\ UNCHANGED <<creditVars, installed, closed, parked, installVars, elemVars, messageVars, driverVars>>

\* The request's credit is taken before the request is sent.
AskCredit(l) ==
  /\ lane[l].pc = "ask"
  /\ Credit(ProcessOf[l], 1)
  /\ At(l, "send")
  /\ UNCHANGED <<state, reports, cacheVars, installVars, elemVars, messageVars, driverVars>>

AskSend(l) ==
  /\ lane[l].pc = "send"
  /\ requests' = [requests EXCEPT ![ProcessOf[l]][lane[l].key] = @ + 1]
  /\ At(l, "park")
  /\ UNCHANGED <<creditVars, cacheVars, installVars, elemVars, replies, resumes, driverVars>>

\* Back in doTrav's loop.
Travel(l) ==
  lane' = [lane EXCEPT ![l] = [handler |-> @.handler, elem |-> @.elem, pc |-> "travel"]]

\* Variant: a walker that finds the list closed asks and parks again.
ParkRetries(l) ==
  /\ lane[l].pc = "park"
  /\ IF lane[l].key \in closed[ProcessOf[l]]
       THEN At(l, "latch") /\ UNCHANGED parked
       ELSE /\ parked' = [parked EXCEPT ![ProcessOf[l]][lane[l].key] = @ \cup {lane[l].elem}]
            /\ Travel(l)
  /\ UNCHANGED <<creditVars, installed, closed, latch, installVars, elemVars, messageVars, driverVars>>

\* park: Parked, or AlreadyInstalled and the element wakes itself.
Park(l) ==
  /\ lane[l].pc = "park"
  /\ IF lane[l].key \in closed[ProcessOf[l]]
       THEN At(l, "wake") /\ UNCHANGED parked
       ELSE /\ parked' = [parked EXCEPT ![ProcessOf[l]][lane[l].key] = @ \cup {lane[l].elem}]
            /\ Travel(l)
  /\ UNCHANGED <<creditVars, installed, closed, latch, installVars, elemVars, messageVars, driverVars>>

WakeCredit(l) ==
  /\ lane[l].pc = "wake"
  /\ Credit(ProcessOf[l], 1)
  /\ At(l, "self")
  /\ UNCHANGED <<state, reports, cacheVars, installVars, elemVars, messageVars, driverVars>>

WakeSelf(l) ==
  /\ lane[l].pc = "self"
  /\ resumes' = resumes \cup {[to |-> l, key |-> lane[l].key, elems |-> {lane[l].elem}, by |-> "self"]}
  /\ Travel(l)
  /\ UNCHANGED <<creditVars, cacheVars, installVars, elemVars, requests, replies, driverVars>>

\* curr_nodes once doTrav has returned: what it started from is done with, what
\* it met on the way is recorded.
HeldAfter(e, done) == (held[e] \ done) \cup fresh[e]

\* Variant: startDual returns a credit as goDown does.
SeededDebits(l) ==
  LET e == lane[l].elem IN
  /\ lane[l].pc = "travel" /\ lane[l].handler = "start"
  /\ stack[e] = {}
  /\ held' = [held EXCEPT ![e] = HeldAfter(e, {})]
  /\ fresh' = [fresh EXCEPT ![e] = {}]
  /\ seeded' = IF Armed(ProcessOf[l]) THEN seeded \cup {e} ELSE seeded
  /\ At(l, "debit")
  /\ UNCHANGED <<creditVars, cacheVars, installVars, stack, queue, goDowns, visited,
                 messageVars, layout, walking, released, finished>>

\* startDual ends: the element contributes to the seeding reduction.
Seeded(l) ==
  LET e == lane[l].elem IN
  /\ lane[l].pc = "travel" /\ lane[l].handler = "start"
  /\ stack[e] = {}
  /\ held' = [held EXCEPT ![e] = HeldAfter(e, {})]
  /\ fresh' = [fresh EXCEPT ![e] = {}]
  /\ seeded' = IF Armed(ProcessOf[l]) THEN seeded \cup {e} ELSE seeded
  /\ lane' = [lane EXCEPT ![l] = Idle]
  /\ UNCHANGED <<creditVars, cacheVars, installVars, stack, queue, goDowns, visited,
                 messageVars, layout, walking, released, finished>>

\* Variant: the queue is taken to be one node long.
DescendedOnce(l) ==
  LET e == lane[l].elem IN
  /\ lane[l].pc = "travel" /\ lane[l].handler = "goDown"
  /\ stack[e] = {}
  /\ held' = [held EXCEPT ![e] = HeldAfter(e, Front(e))]
  /\ fresh' = [fresh EXCEPT ![e] = {}]
  /\ queue' = [queue EXCEPT ![e] = Tail(@)]
  /\ At(l, "debit")
  /\ UNCHANGED <<creditVars, cacheVars, installVars, stack, goDowns, visited, messageVars, driverVars>>

\* doTrav of the front of the queue returns: pop it and go on with the next.
Descended(l) ==
  LET e == lane[l].elem
      done == Front(e) IN
  /\ lane[l].pc = "travel" /\ lane[l].handler = "goDown"
  /\ stack[e] = {}
  /\ held' = [held EXCEPT ![e] = HeldAfter(e, done)]
  /\ fresh' = [fresh EXCEPT ![e] = {}]
  /\ queue' = [queue EXCEPT ![e] = Tail(@)]
  /\ IF Len(queue[e]) = 1
       THEN At(l, "debit") /\ UNCHANGED stack
       ELSE /\ stack' = [stack EXCEPT ![e] = {pr \in HeldAfter(e, done) : pr[1] = queue[e][2]}]
            /\ UNCHANGED lane
  /\ UNCHANGED <<creditVars, cacheVars, installVars, goDowns, visited, messageVars, driverVars>>

\* Variant: a credit for every element of the message, goDown or not.
ResumeCreditsAll(l) ==
  /\ IdleLane(l)
  /\ \E m \in resumes :
       LET idle == {e \in m.elems : queue[e] = << >>} IN
       /\ m.to = l
       /\ resumes' = resumes \ {m}
       /\ queue' = [e \in Elements |-> IF e \in m.elems THEN Append(queue[e], m.key) ELSE queue[e]]
       /\ goDowns' = [e \in Elements |-> IF e \in idle THEN goDowns[e] + 1 ELSE goDowns[e]]
       /\ Credit(ProcessOf[l], Cardinality(m.elems))
       /\ lane' = [lane EXCEPT ![l] = [handler |-> "process", pc |-> "debit"]]
  /\ UNCHANGED <<state, reports, cacheVars, installVars, stack, held, fresh, visited,
                 requests, replies, driverVars>>

\* Resumer::process: the node is queued for every element of the message; one
\* whose queue was empty is sent a goDown, which holds a credit of its own.
IdleOf(m) == {e \in m.elems : queue[e] = << >>}

Process(l, m) ==
  /\ m.to = l
  /\ resumes' = resumes \ {m}
  /\ queue' = [e \in Elements |-> IF e \in m.elems THEN Append(queue[e], m.key) ELSE queue[e]]
  /\ goDowns' = [e \in Elements |-> IF e \in IdleOf(m) THEN goDowns[e] + 1 ELSE goDowns[e]]
  /\ Credit(ProcessOf[l], Cardinality(IdleOf(m)))

Resume(l) ==
  /\ IdleLane(l)
  /\ \E m \in resumes : Process(l, m)
  /\ lane' = [lane EXCEPT ![l] = [handler |-> "process", pc |-> "debit"]]
  /\ UNCHANGED <<state, reports, cacheVars, installVars, stack, held, fresh, visited,
                 requests, replies, driverVars>>

\* goDown and process return the credit of the message they ran for.
Return(l) ==
  /\ lane[l].pc = "debit"
  /\ Debit(ProcessOf[l])
  /\ lane' = [lane EXCEPT ![l] = Idle]
  /\ UNCHANGED <<cacheVars, installVars, elemVars, messageVars, driverVars>>

-----------------------------------------------------------------------------
(* Requests and replies.                                                   *)

\* The owner answers: CacheManager::requestNodes below the tree pieces,
\* TreeCanopy::requestData for a canopy node, through TreePiece::requestNodes
\* for the root of a piece.  The tree it reads no longer changes.
Serve(p, k) ==
  /\ requests[p][k] > 0
  /\ requests' = [requests EXCEPT ![p][k] = @ - 1]
  /\ replies' = [replies EXCEPT ![p][k] = @ + 1]
  /\ UNCHANGED <<creditVars, cacheVars, installVars, lane, elemVars, resumes, driverVars>>

\* addCache and restoreData: the reply's nodes become visible at once.
Install(p, k) ==
  /\ replies[p][k] > 0
  /\ ipc[p][k] \in {"none", "done"}
  /\ replies' = [replies EXCEPT ![p][k] = @ - 1]
  /\ installed' = [installed EXCEPT ![p] = @ \cup Shipped[k]]
  /\ ipc' = [ipc EXCEPT ![p][k] = "drain"]
  /\ UNCHANGED <<creditVars, closed, latch, parked, toWake, lane, elemVars, requests, resumes, driverVars>>

\* drainParked closes the list and hands the waiters to the installer.
Drain(p, k) ==
  /\ ipc[p][k] = "drain"
  /\ closed' = [closed EXCEPT ![p] = @ \cup Shipped[k]]
  /\ toWake' = [toWake EXCEPT ![p][k] = parked[p][k]]
  /\ parked' = [parked EXCEPT ![p][k] = {}]
  /\ ipc' = [ipc EXCEPT ![p][k] = "wake"]
  /\ UNCHANGED <<creditVars, installed, latch, lane, elemVars, messageVars, driverVars>>

\* process: a credit for the next lane's message, then the message.
LaneCredit(p, k) ==
  /\ ipc[p][k] = "wake"
  /\ toWake[p][k] # {}
  /\ Credit(p, 1)
  /\ ipc' = [ipc EXCEPT ![p][k] = "send"]
  /\ UNCHANGED <<state, reports, cacheVars, toWake, lane, elemVars, messageVars, driverVars>>

WaitersOn(p, k, l) == {e \in toWake[p][k] : LaneOf[e] = l}

SendResume(p, k, l) ==
  /\ resumes' = resumes \cup {[to |-> l, key |-> k, elems |-> WaitersOn(p, k, l), by |-> "install"]}
  /\ toWake' = [toWake EXCEPT ![p][k] = @ \ WaitersOn(p, k, l)]

WakeLane(p, k) ==
  /\ ipc[p][k] = "send"
  /\ \E e \in toWake[p][k] : SendResume(p, k, LaneOf[e])
  /\ ipc' = [ipc EXCEPT ![p][k] = "wake"]
  /\ UNCHANGED <<creditVars, cacheVars, lane, elemVars, requests, replies, driverVars>>

\* The request's credit goes once every waiter's message has its own.
ReturnRequest(p, k) ==
  /\ ipc[p][k] = "wake"
  /\ toWake[p][k] = {}
  /\ Debit(p)
  /\ ipc' = [ipc EXCEPT ![p][k] = "done"]
  /\ UNCHANGED <<cacheVars, toWake, lane, elemVars, messageVars, driverVars>>

-----------------------------------------------------------------------------
ElementStep(e) == Start(e) \/ GoDown(e)

LaneStep(l) ==
  \/ Visit(l) \/ Latch(l) \/ AskCredit(l) \/ AskSend(l) \/ Park(l)
  \/ WakeCredit(l) \/ WakeSelf(l) \/ Seeded(l) \/ Descended(l)
  \/ Resume(l) \/ Return(l)

ReplyStep(p, k) ==
  \/ Serve(p, k) \/ Install(p, k) \/ Drain(p, k)
  \/ LaneCredit(p, k) \/ WakeLane(p, k) \/ ReturnRequest(p, k)

DriverStep ==
  \/ \E p \in Processes : Arm(p) \/ Release(p)
  \/ Broadcast
  \/ WalkDone

\* The driver goes on with its next phase.
Over == finished /\ UNCHANGED vars

Next ==
  \/ \E e \in Elements : ElementStep(e)
  \/ \E l \in Lanes : LaneStep(l)
  \/ \E p \in Processes, k \in Keys : ReplyStep(p, k)
  \/ DriverStep
  \/ Over

Spec == Init /\ [][Next]_vars

\* The scheduler runs some handler as long as there is a message to deliver; no
\* fairness between the lanes is needed.
FairSpec == Spec /\ WF_vars(Next)

-----------------------------------------------------------------------------
(* Properties.                                                             *)

Handlers ==
  {Idle, [handler |-> "process", pc |-> "debit"]}
    \cup [handler : {"goDown"}, pc : {"debit"}, elem : Elements]
    \cup [handler : {"start", "goDown"}, pc : {"travel"}, elem : Elements]
    \cup [handler : {"start", "goDown"}, pc : {"latch", "ask", "send", "park", "wake", "self"},
          elem : Elements, key : Keys]

TypeOK ==
  /\ layout \in Layouts
  /\ credits \in [Processes -> Nat]
  /\ state \in [Processes -> 0 .. 2]
  /\ reports \in [Processes -> Nat]
  /\ installed \in [Processes -> SUBSET Keys]
  /\ closed \in [Processes -> SUBSET Keys]
  /\ latch \in [Processes -> SUBSET Keys]
  /\ parked \in [Processes -> [Keys -> SUBSET Elements]]
  /\ ipc \in [Processes -> [Keys -> {"none", "drain", "wake", "send", "done"}]]
  /\ toWake \in [Processes -> [Keys -> SUBSET Elements]]
  /\ lane \in [Lanes -> Handlers]
  /\ stack \in [Elements -> SUBSET Pairs]
  /\ held \in [Elements -> SUBSET Pairs]
  /\ fresh \in [Elements -> SUBSET Pairs]
  /\ queue \in [Elements -> Seq(Keys)]
  /\ goDowns \in [Elements -> Nat]
  /\ visited \in [Elements -> SUBSET Pairs]
  /\ requests \in [Processes -> [Keys -> Nat]]
  /\ replies \in [Processes -> [Keys -> Nat]]
  /\ resumes \subseteq [to : Lanes, key : Keys, elems : SUBSET Elements, by : {"self", "install"}]
  /\ walking \in BOOLEAN
  /\ seeded \subseteq Elements
  /\ released \subseteq Processes
  /\ finished \in BOOLEAN

LanesOf(p) == {l \in Lanes : ProcessOf[l] = p}
ElementsOf(p) == {e \in Elements : Home(e) = p}

\* The request for k is somewhere between its credit and its debit.
Outstanding(p, k) ==
  \/ requests[p][k] > 0
  \/ replies[p][k] > 0
  \/ ipc[p][k] \in {"drain", "wake", "send"}
  \/ \E l \in LanesOf(p) : lane[l].pc = "send" /\ lane[l].key = k

\* The counter of an armed process is exactly the number of things that are
\* outstanding: the open credit, requests, resume messages (with the one an
\* installer or a walker is about to send), goDowns and running handlers.
CreditsCount ==
  \A p \in Processes : Armed(p) =>
    credits[p] =
        (IF p \in released THEN 0 ELSE 1)
      + Cardinality({k \in Keys : Outstanding(p, k)})
      + Cardinality({k \in Keys : ipc[p][k] = "send"})
      + Cardinality({m \in resumes : m.to \in LanesOf(p)})
      + Cardinality({l \in LanesOf(p) : lane[l].pc = "self"})
      + Cardinality({e \in ElementsOf(p) : goDowns[e] > 0})
      + Cardinality({l \in LanesOf(p) : lane[l].handler \in {"goDown", "process"}})

\* Work of the walk that process p still has.
Busy(p) ==
  \/ \E e \in ElementsOf(p) :
       \/ e \notin seeded
       \/ stack[e] \cup held[e] \cup fresh[e] # {}
       \/ queue[e] # << >>
       \/ goDowns[e] > 0
  \/ \E l \in LanesOf(p) : lane[l].pc \notin {"idle", "debit"}
  \/ \E k \in Keys : requests[p][k] + replies[p][k] > 0 \/ ipc[p][k] \in {"drain", "send"}
  \/ \E k \in Keys : parked[p][k] \cup toWake[p][k] # {}
  \/ \E m \in resumes : m.to \in LanesOf(p)

\* A node is asked for once per process: a second reply would find the node
\* in the slot, where installSubtree aborts.
OneRequestPerNode ==
  \A p \in Processes, k \in Keys :
    /\ requests[p][k] + replies[p][k] <= 1
    /\ requests[p][k] + replies[p][k] > 0 => k \notin installed[p]

\* When the done callback runs, every element has worked on every pair its
\* walk leads to.
WalkComplete ==
  finished => \A e \in Elements :
                /\ Seeds[e] \subseteq visited[e]
                /\ \A pr \in visited[e] : \A k \in Kids[pr[1]] : <<k, pr[2]>> \in visited[e]

\* A walk that was broadcast ends.
WalkEnds == walking ~> finished

\* The counters implement the contract of WalkTermination.
Termination == INSTANCE WalkTermination
                 WITH active <- {p \in Processes : Busy(p)},
                      reported <- {p \in Processes : reports[p] > 0}
ImplementsTermination == Termination!TerminationSpec
=============================================================================
