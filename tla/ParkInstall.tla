----------------------------- MODULE ParkInstall -----------------------------
(***************************************************************************)
(* The lock-free core of the tree cache, one atomic operation per step:    *)
(* walkers park on the placeholder that sits in one child slot of a        *)
(* published node while installers publish a node in its place             *)
(* (treecache/TreeCacheCore.h: park, swapIn, drainParked), with the lazy   *)
(* creation of the placeholder by whichever walker asks first              *)
(* (src/TreeCache.h: makeCanopyPlaceholder, src/Node.h: getChild) and the  *)
(* caller's half of the contract: the walker's record of what waits        *)
(* (curr_nodes), the self-sent wake-up of Traverser.h's handleRemoteNode   *)
(* and the wake-ups of CacheManager::process.                              *)
(*                                                                         *)
(* One slot is enough: slots share nothing but the allocator, and what the *)
(* allocator can do to a park is FreedReads below.  The root, which swapIn *)
(* replaces without an exchange, is only ever installed before a walk.     *)
(***************************************************************************)
EXTENDS Naturals, SequencesExt

CONSTANTS
  Walkers,       \* traversing elements; each is one opaque, on a lane of its own
  Installers,    \* threads that install a node into the slot
  Eager,         \* the placeholder an eager install puts in the slot
  Null,          \* the null child pointer of a lazy canopy slot
  FreedReads,    \* opaques that a read of a deleted ParkedEntry can return
  MaxTouches     \* bound: how often a walker comes across the slot

\* Placeholders are named by who made them, installed nodes by who installs them.
Placeholders == Walkers \cup {Eager}
Nodes == Placeholders \cup Installers

ASSUME NamesAssumption ==
  /\ Walkers \cap Installers = {}
  /\ Eager \notin Walkers \cup Installers
  /\ Null \notin Nodes
  /\ FreedReads \subseteq Walkers
  /\ MaxTouches \in Nat

VARIABLES
  slot,     \* the parent's child pointer
  closed,   \* nodes whose parked list holds the closed sentinel
  list,     \* parked entries of each node, the head of the list last; for a
            \* closed node, the entries its drainer has not deleted yet
  pc,       \* where a walker is inside getChild / handleRemoteNode / park
  node,     \* the node the walker is parking on
  seen,     \* the list as of the walker's last load of its head
  owed,     \* the walker's curr_nodes holds work for the slot's key
  touches,  \* how often the walker came across the slot
  wakes,    \* Resumer::process messages on their way to the walker's lane
  ipc,      \* where an installer is inside swapIn / process
  old,      \* the node the installer's exchange displaced
  out       \* the opaques the installer has collected ("parked")

walkerVars == <<pc, node, seen, owed, touches>>
installerVars == <<ipc, old, out>>
vars == <<slot, closed, list, wakes, walkerVars, installerVars>>

Init ==
  /\ slot \in {Null, Eager}
  /\ closed = Installers            \* closeParkedList: not a placeholder
  /\ list = [n \in Nodes |-> << >>]
  /\ pc = [w \in Walkers |-> "away"]
  /\ node = [w \in Walkers |-> Null]
  /\ seen = [w \in Walkers |-> << >>]
  /\ owed = [w \in Walkers |-> FALSE]
  /\ touches = [w \in Walkers |-> 0]
  /\ wakes = [w \in Walkers |-> 0]
  /\ ipc = [i \in Installers |-> "building"]
  /\ old = [i \in Installers |-> Null]
  /\ out = [i \in Installers |-> << >>]

-----------------------------------------------------------------------------
(* The walker.                                                             *)

Goto(w, label) == pc' = [pc EXCEPT ![w] = label]

\* The traversal's switch: a placeholder is recorded in curr_nodes and parked
\* on; an installed node is visited and left.
Visit(w, n) ==
  IF n \in Placeholders
    THEN /\ node' = [node EXCEPT ![w] = n]
         /\ owed' = [owed EXCEPT ![w] = TRUE]
         /\ Goto(w, "peek")
    ELSE /\ Goto(w, "away")
         /\ UNCHANGED <<node, owed>>

\* getChild: one load of the child pointer; null asks for a placeholder.
LoadChild(w) ==
  /\ pc[w] = "away"
  /\ touches[w] < MaxTouches
  /\ touches' = [touches EXCEPT ![w] = @ + 1]
  /\ IF slot = Null
       THEN Goto(w, "create") /\ UNCHANGED <<node, owed>>
       ELSE Visit(w, slot)
  /\ UNCHANGED <<slot, closed, list, seen, wakes, installerVars>>

\* makeCanopyPlaceholder: the compare-and-swap that keeps the first one; the
\* loser goes on with whatever the slot holds by then.
CreateChild(w) ==
  /\ pc[w] = "create"
  /\ IF slot = Null
       THEN slot' = w /\ Visit(w, w)
       ELSE Visit(w, slot) /\ UNCHANGED slot
  /\ UNCHANGED <<closed, list, seen, touches, wakes, installerVars>>

\* park: the first load, for the check against a consecutive duplicate.
Peek(w) ==
  /\ pc[w] = "peek"
  /\ IF node[w] \in closed \/ list[node[w]] = << >>
       THEN Goto(w, "load") /\ UNCHANGED seen
       ELSE Goto(w, "compare") /\ seen' = [seen EXCEPT ![w] = list[node[w]]]
  /\ UNCHANGED <<slot, closed, list, node, owed, touches, wakes, installerVars>>

\* The opaques that reading the entry behind a loaded head can return: its
\* own while the entry lives, anything the allocator left there afterwards.
HeadReads(w) ==
  IF Len(list[node[w]]) >= Len(seen[w])
    THEN {Last(seen[w])}
    ELSE {Last(seen[w])} \cup FreedReads

\* head->opaque == opaque: parked already.
SkipDuplicate(w) ==
  /\ pc[w] = "compare"
  /\ w \in HeadReads(w)
  /\ Goto(w, "away")
  /\ UNCHANGED <<slot, closed, list, node, seen, owed, touches, wakes, installerVars>>

\* Somebody else's opaque, or an unmatched value left in a deleted entry.
NotDuplicate(w) ==
  /\ pc[w] = "compare"
  /\ \/ HeadReads(w) # {w}
     \/ Len(list[node[w]]) < Len(seen[w])
  /\ Goto(w, "load")
  /\ UNCHANGED <<slot, closed, list, node, seen, owed, touches, wakes, installerVars>>

\* The load at the top of the loop.  AlreadyInstalled: the caller wakes itself
\* through an asynchronous Resumer::process on its own lane.
LoadHead(w) ==
  /\ pc[w] = "load"
  /\ IF node[w] \in closed
       THEN /\ wakes' = [wakes EXCEPT ![w] = @ + 1]
            /\ Goto(w, "away")
            /\ UNCHANGED seen
       ELSE /\ seen' = [seen EXCEPT ![w] = list[node[w]]]
            /\ Goto(w, "cas")
            /\ UNCHANGED wakes
  /\ UNCHANGED <<slot, closed, list, node, owed, touches, installerVars>>

\* Variant: a plain store of the new head in place of the compare-and-swap.
PushBlindly(w) ==
  /\ pc[w] = "cas"
  /\ list' = [list EXCEPT ![node[w]] = Append(seen[w], w)]
  /\ Goto(w, "away")
  /\ UNCHANGED <<slot, closed, node, seen, owed, touches, wakes, installerVars>>

\* compare_exchange_weak succeeds.  Entries are only freed once the list is
\* closed, so an equal head pointer is an equal list.
Push(w) ==
  /\ pc[w] = "cas"
  /\ node[w] \notin closed
  /\ list[node[w]] = seen[w]
  /\ list' = [list EXCEPT ![node[w]] = Append(@, w)]
  /\ Goto(w, "away")
  /\ UNCHANGED <<slot, closed, node, seen, owed, touches, wakes, installerVars>>

\* It fails: the head moved, the list is closed, or the weak form just fails.
PushFails(w) ==
  /\ pc[w] = "cas"
  /\ Goto(w, "load")
  /\ UNCHANGED <<slot, closed, list, node, seen, owed, touches, wakes, installerVars>>

\* The wake-up reaches the walker's lane, which runs one handler at a time:
\* the goDown it leads to takes everything curr_nodes holds for the key.
Resume(w) ==
  /\ pc[w] = "away"
  /\ wakes[w] > 0
  /\ wakes' = [wakes EXCEPT ![w] = @ - 1]
  /\ owed' = [owed EXCEPT ![w] = FALSE]
  /\ UNCHANGED <<slot, closed, list, pc, node, seen, touches, installerVars>>

-----------------------------------------------------------------------------
(* The installer.                                                          *)

\* Variant: no test for a null displaced pointer.
PublishNoNullTest(i) ==
  /\ ipc[i] = "building"
  /\ slot' = i
  /\ old' = [old EXCEPT ![i] = slot]
  /\ ipc' = [ipc EXCEPT ![i] = "close"]
  /\ UNCHANGED <<closed, list, wakes, out, walkerVars>>

\* swapIn: exchangeChild publishes the finished subtree.
Publish(i) ==
  /\ ipc[i] = "building"
  /\ slot' = i
  /\ old' = [old EXCEPT ![i] = slot]
  /\ ipc' = [ipc EXCEPT ![i] = IF slot = Null THEN "wake" ELSE "close"]
  /\ UNCHANGED <<closed, list, wakes, out, walkerVars>>

\* drainParked: exchange the head with the sentinel; a list that was closed
\* already has been drained.
CloseList(i) ==
  /\ ipc[i] = "close"
  /\ closed' = closed \cup {old[i]}
  /\ ipc' = [ipc EXCEPT ![i] = IF old[i] \in closed THEN "wake" ELSE "collect"]
  /\ UNCHANGED <<slot, list, wakes, old, out, walkerVars>>

\* Variant: the loop steps to the next entry before it copies the opaque.
CollectEntryAfterNext(i) ==
  /\ ipc[i] = "collect"
  /\ list[old[i]] # << >>
  /\ out' = [out EXCEPT ![i] = IF Len(list[old[i]]) = 1 THEN @
                               ELSE Append(@, Last(Front(list[old[i]])))]
  /\ list' = [list EXCEPT ![old[i]] = Front(@)]
  /\ UNCHANGED <<slot, closed, wakes, ipc, old, walkerVars>>

\* One turn of drainParked's loop: copy the opaque, delete the entry.
CollectEntry(i) ==
  /\ ipc[i] = "collect"
  /\ list[old[i]] # << >>
  /\ out' = [out EXCEPT ![i] = Append(@, Last(list[old[i]]))]
  /\ list' = [list EXCEPT ![old[i]] = Front(@)]
  /\ UNCHANGED <<slot, closed, wakes, ipc, old, walkerVars>>

CollectDone(i) ==
  /\ ipc[i] = "collect"
  /\ list[old[i]] = << >>
  /\ ipc' = [ipc EXCEPT ![i] = "wake"]
  /\ UNCHANGED <<slot, closed, list, wakes, old, out, walkerVars>>

\* Variant: one message for the whole install, to the lane of the newest waiter.
WakeOneLane(i) ==
  /\ ipc[i] = "wake"
  /\ wakes' = IF out[i] = << >> THEN wakes
              ELSE [wakes EXCEPT ![Head(out[i])] = @ + 1]
  /\ out' = [out EXCEPT ![i] = << >>]
  /\ ipc' = [ipc EXCEPT ![i] = "done"]
  /\ UNCHANGED <<slot, closed, list, old, walkerVars>>

\* CacheManager::process: one message per waiting lane.  Resumer::process
\* collapses what one delivery repeats.
Wake(i) ==
  /\ ipc[i] = "wake"
  /\ wakes' = [w \in Walkers |->
                 IF w \in ToSet(out[i]) THEN wakes[w] + 1 ELSE wakes[w]]
  /\ out' = [out EXCEPT ![i] = << >>]
  /\ ipc' = [ipc EXCEPT ![i] = "done"]
  /\ UNCHANGED <<slot, closed, list, old, walkerVars>>

-----------------------------------------------------------------------------
WalkerStep(w) ==
  \/ LoadChild(w) \/ CreateChild(w)
  \/ Peek(w) \/ SkipDuplicate(w) \/ NotDuplicate(w)
  \/ LoadHead(w) \/ Push(w) \/ PushFails(w)
  \/ Resume(w)

InstallerStep(i) ==
  Publish(i) \/ CloseList(i) \/ CollectEntry(i) \/ CollectDone(i) \/ Wake(i)

Next ==
  \/ \E w \in Walkers : WalkerStep(w)
  \/ \E i \in Installers : InstallerStep(i)

Spec == Init /\ [][Next]_vars

\* Every thread keeps running, the scheduler delivers every message, and a
\* weak compare-and-swap does not fail for ever.
Fairness ==
  /\ \A w \in Walkers :
       /\ WF_vars(CreateChild(w) \/ Peek(w) \/ SkipDuplicate(w) \/ NotDuplicate(w) \/ LoadHead(w))
       /\ SF_vars(Push(w))
       /\ WF_vars(PushFails(w))
       /\ WF_vars(Resume(w))
  /\ \A i \in Installers : WF_vars(InstallerStep(i))

FairSpec == Spec /\ Fairness

-----------------------------------------------------------------------------
(* Properties.                                                             *)

TypeOK ==
  /\ slot \in Nodes \cup {Null}
  /\ closed \in SUBSET Nodes
  /\ list \in [Nodes -> Seq(Walkers)]
  /\ pc \in [Walkers -> {"away", "create", "peek", "compare", "load", "cas"}]
  /\ node \in [Walkers -> Nodes \cup {Null}]
  /\ seen \in [Walkers -> Seq(Walkers)]
  /\ owed \in [Walkers -> BOOLEAN]
  /\ touches \in [Walkers -> Nat]
  /\ wakes \in [Walkers -> Nat]
  /\ ipc \in [Installers -> {"building", "close", "collect", "wake", "done"}]
  /\ old \in [Installers -> Nodes \cup {Null}]
  /\ out \in [Installers -> Seq(Walkers)]

\* The wake-up of w is assured: it sits in the list of a node that the slot
\* still holds or whose drainer is at work, in an installer's hands, or on
\* its way.
InList(w) ==
  \E n \in Nodes :
    /\ w \in ToSet(list[n])
    /\ \/ slot = n
       \/ \E i \in Installers : old[i] = n /\ ipc[i] \in {"close", "collect"}

InHand(w) == \E i \in Installers : w \in ToSet(out[i])

Assured(w) == InList(w) \/ InHand(w) \/ wakes[w] > 0

\* No wake-up is lost (TreeCacheCore.h, swapIn): a walker that has left park
\* with work recorded for the slot will be handed back by the slot's drainer
\* or has its wake-up on the way.
NoLostWakeup ==
  \A w \in Walkers : owed[w] /\ pc[w] = "away" => Assured(w)

\* Resumer::process asserts that the key it resumes on is in the tree: nobody
\* is woken before the node is published.
WokenOnData ==
  \A w \in Walkers : wakes[w] > 0 \/ InHand(w) => slot \in Installers

\* A placeholder that lost the race to be created stays an unused pool slot:
\* no walker ever waits on it.
OnlyPublishedParked ==
  \A n \in Placeholders :
    \/ list[n] = << >>
    \/ slot = n
    \/ \E i \in Installers : old[i] = n

\* Every walker that waits is resumed, once somebody installs the node.
EveryWaiterResumed == \A w \in Walkers : owed[w] ~> ~owed[w]

\* The whole protocol implements the contract of WakeContract.
debtBar == {w \in Walkers : InList(w) \/ InHand(w)}
awakeBar == {w \in Walkers : wakes[w] > 0}
Contract == INSTANCE WakeContract
              WITH filled <- slot \in Installers,
                   debt <- debtBar,
                   awake <- awakeBar
ImplementsContract == Contract!ContractSpec
=============================================================================
