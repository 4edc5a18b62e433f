# ParaTreeT2: models and proofs

This directory holds TLA+ models of ParaTreeT2, a Charm++ library for
distributed tree traversals, and of the Friends-of-Friends (FoF) group finder
built on it. Each module models one part of the C++ code; TLC checks it on small
instances, and TLAPS proves the central results for every value of the
constants. Paths below are relative to the repository (`src/` in
`PROJECT.json`); its `map` names the lines every definition stands for.

## 1. The system

A run repeats an iteration: particles are sorted into *tree pieces*, every piece
builds its part of one global tree, the upper part of the tree is summed and
shared, and *traversers* walk the tree for their target leaves while each
process fetches what it lacks of the other processes' trees into a *software
cache*. Everything is asynchronous: a chare (an element of a distributed array)
handles one message at a time on its processing element (PE, here also *lane*),
messages arrive in any order, and the PEs of a process share memory.

| Part | State it keeps | Operations | Talks to |
|---|---|---|---|
| Tree cache core `treecache/TreeCacheCore.h` | a child slot, the lock-free list of the waiters of its placeholder | `park`, `swapIn`, `drainParked` | called by walkers and installers of any lane |
| Tree cache `src/TreeCache.h` | the cached tree, arenas, the ledgers of copied leaves | lazy placeholders, `installSubtree`, `installBoundary`, `collectSubtree`, `refreshTreePieceCopy`, `destroy` | core, cache manager |
| Cache manager `src/CacheManager.h` | the credit counter of a dual walk, the pending chunks of the starter pack | `requestNodes`, `addCache`, `restoreData`, `process`, `recvStarterChunk`, `receiveTreePiece` | messages to other processes, resumers of its lanes |
| Resumer `src/Resumer.h` | per traverser element, a queue of nodes to resume | `process` | sends `goDown` to partitions and pieces |
| Traversers `src/Traverser.h` | `curr_nodes`: what each remote node keeps waiting; paused nodes | start, `resumeTrav`, `resumeAfterPause` | cache core, cache manager |
| Readers `src/Reader.*` | particles, the plan of the exchange, what is in flight | load a range of a file, count splitters, `flush`, `pumpFlush`, `flushAck` | tree pieces |
| Tree pieces `src/TreePiece.h` | particles, the local tree, who was sent a copy | `receive`, `rebucket`, `buildTree`, `populateTree`, `requestCopy`, `refreshCopies`, walks | canopies, partitions, cache managers |
| Canopies `src/TreeCanopy.h` | a partial sum, a count of children heard | `recvProxies`, `recvData` | parent canopy, driver |
| Partitions `src/Partition.h` | target leaves, traversers | `receiveLeaves`, `makeLeaves`, `addLeaves`, `goDown`, `perturb`, `reset` | tree pieces, cache manager, resumer |
| Driver `src/Driver.h` | reported canopies; the schedule of an iteration | `decompose`, `run`, `runHosted`, `recvTC`, `loadCache`, `clearStorage` | broadcasts to all; waits for quiescence |
| Decompositions `src/Decomposition.*` | splitters | `findSplitters`, `flush`, `assignKeys`, the placement of pieces on PEs | driver, readers |
| Load balancers `src/loadbalancers/` | measured loads, a placement | strategies between iterations | Charm++ runtime |
| Writers `src/Writer.C` | a share of the particles, a token | `receive`, `write` | partitions, the next writer |
| FoF phase 1 `fof/FoFPhase1.h`, `fof/gpu/` | per process: a union-find over its particles, registries of walk units, deposit counters; on a GPU its buffers | claim of pieces, phase A, freeze, pool, phase B, relabels; kernels | PEs of one process, through atomics and self-messages |
| FoF phase 3 `fof/FoFPhase3.h` | staged edges between groups of different processes | dual walk, raw, staged and distributed merge, slices | all processes, the driver |
| FoF sums `fof/FoFPhase1.h` | landing buffers, rows of a catalogue | census, histogram of fragments, catalogue | owners of the labels |
| FoF plug-in `fof/FoFPlugin.C` | what the host staged | stage, run, return of labels | the host program, the driver |

`PROJECT.json` lists all parts, those without a model included.

### What is hard in it

- *Lock-free sharing inside a process.* A walker parks on a placeholder while
  another lane replaces it; a lane reads a list head that a third deletes; the
  FoF chain starts a stage from the last of several atomic deposits; the lanes of a GPU
  share a union-find without locks.
- *Early ends.* Several protocols end by a counter touching zero (the walk
  credits), by quiescence (the flush) or by a count of messages (canopies, the
  starter pack, gathers). Each is wrong if a unit of work is ever counted nowhere.
- *Order of messages.* Charm++ promises none. Chunks of a pack, leaves and the
  copies that hold them, canopy reports, partials of a catalogue and batches of edges overtake each other, and
  what a PE passes to another overtakes a broadcast to both.
- *State that outlives its iteration.* Canopies, ledgers, counters, device buffers and copies are
  reused; what one iteration leaves behind is the next one's bug.
- *Loops that hand themselves on.* `resumeAfterPause` and the self-messages of the
  FoF chain are continuations written by hand: a handler that forgets one loses work.
- *Boundaries of a search.* The splitter searches and the balancers bisect until a range is
  small enough; coinciding particles, neighbouring floats, empty ranges and the last key are where they go wrong.

Messages are not lost or duplicated by Charm++, and no process restarts in the
code's own logic, so no module models either.

What would make each part correct: the core loses no wake-up; a walk visits all
it must, once, and its end is announced after its work and not during it; the
pack of canopies is new, ordered and whole; every leaf reaches every partition
it belongs to; a refresh leaves no stale copy; the particles in flight are bounded
and all arrive; a decomposition puts each particle in one piece; a migration takes everything
along; a file holds every particle once; and FoF's labels are those of one sequential union-find.
`PROJECT.json` `hazards` names the lines where each can go wrong and the properties that would show it.

## 2. Modules

| Module | Code | Grain of a step |
|---|---|---|
| `ParkInstall` | `park`, `swapIn`, `drainParked`, `makeCanopyPlaceholder`, `getChild` | one atomic operation |
| `WakeContract` | what the callers of the core rely on | one call |
| `CacheWalk` | `handleRemoteNode`, `DualTraverser`, `addCache`, `process`, credits, `Resumer` | one visit, counter update or message |
| `WalkTermination` | what the driver of a dual walk relies on | start, end |
| `Walks` = `TransposedWalk`, `BucketWalk`, `DualWalk` | the traversers beside each other: buckets carried down together, one at a time, and two trees against each other | one visit of a node or pair |
| `Iteration` = `StarterPack`, `FlushWindow`, `LeafShipping`, `Canopy`, `Driver`, `HostedRun` | the driver's stages between two quiescences, and whole runs | one handler or critical section; a stage in `Driver` |
| `Placement` = `Decompose`, `Balance` | decomposition of an iteration; `PrefixLB`, `OrbLB`, `DistributedPrefixLB` | one round of a search; one message |
| `Phase1` = `Phase1Chain`, `PieceWalk` | FoF phase 1 in a process: the chain of deposits and claims; the walks over trees and particles, and the reference the application's own check compares with | one deposit, claim or walk unit |
| `Labelling` = `Census` (over `GatherMerge`, `FlatMerge`), `DeviceChain` (over `DeviceUnionFind`) | the last merge and the histograms around it; phase 1 on a GPU | one message; one read, write or compare-exchange |
| `MinUnion` | union-find by minimum and the labels it must give | operators |
| `Catalog` | the group-by of the halo catalogue | one message |
| `MC*` | instances of the above for TLC | |
| `ParkInstallProof`, `CacheWalkProof`, `WalksProof`, `IterationProof`, `RunProof`, `MinUnionProof`, `Phase1Proof`, `LabellingProof` | theorems | |

How they fit. `ParkInstall` looks at one slot in full detail; `CacheWalk` and the modules of
`Walks` take its result as granted and make `park` and the drain of an
install one step each. That is what `WakeContract` is for: it is the list-free
description of a slot, `ParkInstall` implements it step by step, and the walks use the slot the same way.
`CacheWalk` in turn implements `WalkTermination`: broadcast, work, one
announcement. `GatherMerge` implements `FlatMerge`. `Canopy` produces the pack
that `StarterPack` delivers; `FlushWindow` delivers the particles by the splitters of `Decompose`, of which the
pieces of `Canopy` and `LeafShipping` build their trees. `Phase1Chain` ends with
the tips that `GatherMerge` joins across processes along the edges `DualWalk` emits; `Census` and `Catalog` read its labels.

A composing module (`Walks`, `Iteration`, `Placement`, `Phase1`, `Labelling`) starts in one of its parts and holds
the others at rest. That is sound because the parts share no state while they run: the driver waits for quiescence between them
(`Iteration`, `Labelling`), or they are alternatives (`Walks`, `Placement`), or two views of one thing (`Phase1`).

### State and actions against the code

- `ParkInstall`: `slot` is the parent's child pointer, `closed` and `list` the parked list of each node. A walker's `pc`
  stands between two atomic operations of `getChild`, `handleRemoteNode` and `park`, with `node` and `seen` what it has
  loaded; an installer's `ipc` does the same for `swapIn` and `drainParked`: exchange of the slot (`Publish`), exchange of the list head
  with the sentinel (`CloseList`), the detached entries one by one (`CollectEntry`), the wake-ups (`Wake`). `FreedReads` names
  the opaques that a read of a deleted entry may return (the load at
  `treecache/TreeCacheCore.h:80` is not protected). Empty, the model is the program on an allocator that never reuses the block too early.
- `CacheWalk`: a visit that meets a placeholder is cut where another lane can come in between:
  the request mask (`Latch`), the credit and the message of a request (`AskCredit`, `AskSend`), the park, the credit and message of a
  self-wake (`WakeCredit`, `WakeSelf`). `Serve`, `Install`, `Drain`, `LaneCredit`, `WakeLane` and `ReturnRequest` are the reply's path;
  `Start` and `GoDown` are the element's entry methods, which hold their lane until `Seeded` or `Return`.
- `TransposedWalk`, `BucketWalk`: one walk of one owner; `stack` is the recursion with the active buckets of each frame,
  `resume_nodes` the resumer's queue, `curr_nodes`, `paused_curr_nodes`, `num_requested` and `handle_count` the fields of
  those names. Which buckets open a node is free at every visit in the first, and fixed for a walk in the second. The basic walk
  runs with a partial pack, the up-and-down walk too, but only the whole pack gives it a tree to climb; both are fair only while their owner has something to do.
- `DualWalk`: the pieces of one process interleave at every pair, the processes follow each other because they share nothing during the walk.
  Asking for a node and parking on it is one step. Space has one dimension and leaves are not empty; the share depth is one level; only the
  setting with the parity tie-break is periodic. The rule for mirrored pairs is the code's, with all its modes, and so is the table of PE sets
  (the default of `FOF_PE_SETS` is AUTO).
- `StarterPack`: the fields `sp_*` of the cache manager, with the regions of `sp_lock` as steps and the install between them.
- `FlushWindow`: per reader the plan, what was posted and what is not acknowledged, and the messages under way;
  `EndFlush` is guarded by quiescence, i.e. no message of any kind is under way.
- `Canopy`: a contribution is a tree piece and its round and data is a set of those, so that one that is left out, comes from an
  earlier round or belongs to a piece of the decomposition before shows.
- `LeafShipping`: the registries of a cache manager and its tree cache, with the lock
  released where `receiveLeaves` and `receiveTreePiece` release it; a piece's data is
  a version number.
- `Driver`: where each particle is (reader, piece, file) and how often it was kicked and moved; the iterations with rebuilds, decompositions,
  balancing, deletions and output, in the three kinds of distribution (single, matching, dual). Which piece a key falls to is left open.
- `HostedRun`: the host's staging and what it gets back, per call.
- `Decompose`: the searches as rounds over counted ranges, the placement of the pieces, the flush by the splitters. A round is one step because the sum of the readers'
  counts does not depend on who has which particle. Coordinates and the midpoints of the kd search are multiples of a spacing of floats (`spacing` of a job), and a midpoint between two
  neighbours is rounded to the even one (`MidFloat`); `Grain` is the width, twice the epsilon, at which the search gives up whatever the spacing is. `Balance`: per PE the loads, what it has
  received of the prefix sum, whether the sum of all loads has come (`report`, `global_load`) and the moves it decided. A value is received whether that sum has come or not. A PE that decides without it is
  `blind`; its targets are those of a saturating conversion, or its process is `faulted`, which ends the run of all.
- `Phase1Chain`: `done` holds the deposit counters `a_done`, `slice_done`, `b1_done`, `mid_done`,
  `b_done`, `inbox` the chain's messages to each PE, `bucket` the registry of tree pieces, `cursor` and `b2Cursor` the two cursors of the pool,
  `buf` each PE's edges that are not submitted yet. The pairs of particles within the linking length are a constant.
  The list of pairs that the PEs share is described by places, one for each pair of registered pieces, whose number (`Index`, the code's `idx`) decides the slice; slices are sets and the
  units of the pool stand in one fixed order, because the order, by cost, decides only how long the claims take. `PieceWalk` has the geometry instead:
  trees with positions, certificates, the memo, the cell grid (a side of 2 makes the square of the linking length 24 without rounding; 3 particles
  stand for the code's 64 that make a node dense; estimated costs are rounded), the split pool; the PEs do phase A in turn, and striping by sets is left to `Phase1Chain`.
- `GatherMerge`: per process the staged edges (`stageLocal`, `stageCross`), the local forest, the batches of half-contracted edges
  on their way, and the slices that come back; in its third mode the edges that went to the union-find library, whose delivery alone is modelled.
  `Census`: the landing buffers and dense arrays of both histograms.
- `DeviceUnionFind`: the parents and the memos of nodes as global memory, and per lane where it stands between two accesses; `DeviceChain`: the
  staging buffers, the layout they were packed in and the deposits of the PEs around the kernels.
  `Dense` leaves out the cap on the cells of a grid (`fof/gpu/FoFDevice.cpp:1414`) and the limit of 64 passes (line 1418), which only decide what is left to the walk.
- `Catalog`: per PE the labels and partials, with broadcast and messages unordered.

## 3. Runs

| Run | Instance | Shows |
|---|---|---|
| `park_install` | 2 walkers, 2 installers, 3 visits | no wake-up lost; refinement of `WakeContract`; every waiter resumed |
| `park_freed_read` | as above, one installer, freed reads allowed | finding 1 |
| `cache_walk` | four layouts: Shared, Mutual, Single, Lonely | credits exact, one request per node, done after all work, refinement of `WalkTermination`, the walk ends |
| `walks` | transposed: 3 canopies, 4 pieces, 2 buckets, a pause after each request; bucket: pauses after requests, after a bucket, never; dual: 3 pieces on 2 processes, 4 settings | each node once per bucket and completely, no resume without work, exactly the edges of touching groups, the walks end |
| `transposed_walk_capped` | the transposed walk with only the root shipped | finding 2 |
| `iteration` | starter pack: 3 lanes, 4 chunks, 2 loads; flush: 2 readers, 4 pieces, windows 0, 1, 2, 10, in place and staged; leaves: Crossed, Hosted, Matched, 2 builds; canopies: an uneven tree and a single piece, 0, 3, 6 nodes shared; runs on 3 PEs over 2 iterations; a host of 2 PEs and 2 calls | order and completeness of the pack, no quiescence in mid-flush, leaves served once and copies fresh, sums complete, particles kept, files exact, labels returned |
| `static_balance` | an analysis of 2 iterations with balancing | finding 5 |
| `placement` | 4 particles over a 4-level tree (sfc, oct), in 2 dimensions (kd, longest), 3 particles in host cells; 4 partitions balanced on 3 and 4 PEs, by messages once on 3 and twice on 2 | each particle to one piece, fair shares, agreed moves, every search and call ends, with the exceptions below |
| `orb_empty_range` | `OrbLB` on 7 and 8 PEs | finding 4 |
| `phase1_chain` | 3 PEs, 4 pieces, 6 particles, two splits into PE sets, static, claimed, pooled flat and by region; 11 particles in space, 17 scenes | exact groups, each pair once, frozen tips while read, the chain ends |
| `labelling` | 3 processes, 4 PEs, 7 tips, 3 graphs, 5 modes; 10 instances on a device | labels equal one union-find's, in one step; the censuses count every group once; the device's groups are exact |
| `catalog_race` | 2 processes, 2 calls | finding 3 |

The long ones are `cache_walk` and `iteration` (about three minutes on two workers), `phase1_chain`, `walks` and `labelling` (two minutes each).

### Why these bounds

The races of `ParkInstall` are between two parties (pusher and drainer, creator
and creator, creator and installer); two of each and a third visit give every pair, including a
walker that comes back to a slot it was woken from. In `CacheWalk` a credit is
lost only if two raises and a lowering overlap: Shared gives two lanes in one
process at one node, Mutual two processes that ask each other, a reply that
brings a child and two elements on one lane, Single an element that waits for two nodes at once, Lonely a process without
elements, whose open credit alone keeps it from reporting. The trees have two levels, since a third repeats the second; for the safety properties
the theorems of section 4 remove the bounds.
Four chunks are enough for a chunk to be put aside, be overtaken by two others, and be
followed by one that installs directly. The windows are: off, smaller than every chunk,
equal to one, and larger than all. The settings of share cut the pack to one level above the pieces, to the root's
children, and not at all. `TransposedWalk` needs a tree deep enough for a
pause inside a paused subtree. `Phase1Chain` has one piece more than PEs, so one PE holds
two or steals one, and one may hold none; its edges make a group that crosses three pieces and one that
joins only through a second particle. The three graphs of `GatherMerge` have a component with a local edge between two
cross edges, a component of one process only, and one that closes at another process. The instances of the device differ in what makes them race: lanes on the same leaves,
dense nodes, a period, a stack too shallow, and pieces that move between two rounds while their sizes do not. Four particles over four levels put every
pattern of equal, adjacent and extreme keys before the splitter searches; the code's keys have 21 levels, so more particles at one key than an oct subtree holds are left out.

In the kd jobs the floats are finer than the grain, or twice as coarse, in a universe of four or five of them: in four the middles come down to an odd float and leave it, in five the search can come between an even one and
the corner and stay there. Three PEs are the fewest of which one is passed two values, and two the fewest for what a call leaves to the next.
What `placement` does not promise is named in its properties: `PlacementEnds` lets a kd search go on for ever at two neighbouring floats further apart than the grain (`Stuck`; with finer floats it must end) and a
call of `DistributedPrefixLB` end in a fault of a blind PE; `FairShares` asks no fair shares of a call in which a PE was blind, but the right prefix sums; `MovesAgree` has no exception. Each of these cases occurs in the run.

Where a run says `CHECK_DEADLOCK FALSE` the modelled activity is finite (a bounded
number of iterations, visits or calls) and the system stops after it; a liveness property of the run
(`EveryWaiterResumed`, `WalkEnds`, `StagesEnd`, `PlacementEnds`, `ChainEnds`, `LabellingEnds`) then says that it stops only at its end.
`cache_walk` keeps the deadlock check on.

### Fairness

- A PE's scheduler takes every message in the end: weak fairness. Where several handlers compete for good, it is stated per lane, process or PE
  as the code's queues are (`ParkInstall`, `StarterPack`, `Phase1`); where every behaviour is finite, weak fairness of the whole next-state relation says the same
  and is what is used (`CacheWalk`, `Balance`, `Decompose`, `Placement`, `Labelling`, `Driver`).
- `ParkInstall`: strong fairness on `Push`, because a compare-and-swap that is tried
  again and again against finitely many rivals succeeds; weak on all other steps.
- `Iteration`: weak fairness of the load, of the driver and of the host; flush, leaves and canopies state what holds at quiescence and need none.
- `Walks`: weak fairness on what drives a walk on: its owner's handlers and the install of what it requested (the promise of the cache that `CacheWalk` shows),
  not on what other PEs of the process may do besides.
- `Phase1`: weak fairness per PE of the chain. `PieceWalk` ends by its shape and has none.

## 4. Proofs

All theorems hold for every value of the constants that satisfies the named assumptions. Each follows one scheme: an inductive
invariant `IInv` that implies the property, `Init => IInv`, one lemma or step for each action that `IInv` survives it, and a temporal last step.

### `ParkInstallProof`: a slot keeps its contract

Assumption: names of walkers, installers and the two special values differ (`NamesAssumption`). `NoLostWakeup` is not inductive: it says that a
waiting walker is in a list or owed a wake-up, and a step can only keep it if a list is open
exactly while someone will still drain it. The invariant adds:

- `InstallerInv`: what an installer's place in `swapIn` says about the node it displaced: no two installers displaced the same
  placeholder, its list is closed exactly from the second exchange on, and it is empty once the installer is past collecting;
- `PlaceholderInv`: a closed list was closed by the installer that displaced its placeholder, and a list has
  entries only while the placeholder is in the slot or that installer is still draining;
- `WalkerInv`: a walker inside `park` is on a placeholder that is or was in the slot, and nobody is woken before an
  installed node is in the slot;
- `OwedInv`: the duplicate a walker finds at the head of the list is still assured of its wake-up, and so is every walker that waits.

The first three parts with the types (`BaseInv`) are inductive by themselves, whatever the unprotected read of `park` returns. From them follow, with no further hypothesis, that nobody is
woken before the data is published (`WokenAfterPublish`), that only a published placeholder collects waiters
(`ParkedOnPublished`) and the refinement `Refines`: lists, exchanges and collected opaques implement `WakeContract`. There, what the slot remembers of a walker is
the walker's place in a live list or in an installer's hands; a successful compare-and-swap adds exactly that walker, moving an entry from the list to the
installer's vector changes nothing, and only `Wake` takes walkers out, all of which it wakes.

`WakeupsKept` (`NoLostWakeup`) needs `OwedInv`, and that is where the unprotected read hurts: the contract is kept towards those who registered, but a walker may leave `park` in the
belief that it had. The theorem therefore assumes `FreedReads = {}`, the case in which the read gives the value that was there; without it the
statement is false, as `park_freed_read` shows.

### `IterationProof`: one installer, in order, the whole pack

No assumption beyond the ranges of the constants. For any lanes, number of chunks and number of loads, installs exclude each other
though no lock is held (`InstallsExclude`), chunks enter in order and once (`InstallsInOrder`), and a report comes after the
whole pack, with the right root, and leaves clean fields (`LoadsComplete`). The invariant is a case distinction of five phases:
`NoLoad`, `WaitingForChunk`, `Installing`, `Advancing`, `Reporting`. Each phase fixes which chunks have been installed, put aside or
are still under way, and who holds the turn; the step theorem has a lemma per action. In `Iteration` the load is one stage among the others, which leave its fields
alone; `LoadsAreSound` (`LoadComplete` with the three properties above) says it of every run of the driver.

### `CacheWalkProof`: the distributed walk

Assumption (`WalkAssumption`): lanes, keys and elements are finite, there is an element, and the layouts describe trees (`Rooted`): a node has one parent;
a walk's first remote nodes are roots of remote subtrees, not children of remote nodes; a reply brings the requested node and, with any other node, its parent; and two replies overlap only if one brings the
other's root. That is how the code makes them: `collectSubtree` copies the top of one subtree from the requested node down, and placeholders exist only below the
nodes that came. Any number of lanes, processes and elements, any trees and any way to cut replies are covered.

The inductive invariant is the type invariant and nine parts:

- `LaneInv`, `SeedInv`: a handler runs on its element's lane; nothing moves before the broadcast, which waits for every counter to be armed, and open credits are
  released only when all elements have seeded;
- `QueueInv`: an element has nodes in its queue exactly if one `goDown` is under way or at work, never both, and what is queued is in the cache;
- `RequestInv`: for a latched node exactly one of these holds: one lane is about to ask, a request or its reply is under way, its install has begun;
- `InstallInv`: who is at a node has found it missing and latched; nobody has met a node that comes only as part of a reply still due;
- `ParkedInv`, `MailInv`: elements wait only for nodes that were asked for and not drained; every resume message names a node of the cache and elements of its lane, and
  no message equals one that is still to be sent (so that a set of messages counts them);
- `CreditInv`: an armed counter equals `Total`, the sum of open credit, outstanding requests, wake-ups being sent, resume messages, self-wakes, `goDown`s and handlers at work, and is positive; a
  counter that fired has nothing outstanding;
- `WorkInv`: for every pair an element has yet to visit it is registered with the pair's source (queued, parked, drained and not yet woken, named in a message, or just
  there), and every child of a visited pair has been visited or is pending.

From it follow `TypeCorrect` (a counter never goes below zero), `OneRequest`, `CreditsExact` (the count the code makes equals the sum over what is outstanding, proved with
cardinalities: every action adds an element to one summand, drops one, or moves one, and changes the counter by as much) and `WalkIsComplete`. The last argues that with
`Total = 0` for every process nobody is registered anywhere, so nothing is pending, so the closure of the seeds under children has been visited. `Refines` (`ImplementsTermination`) needs in addition that
a process out of work stays so: `Busy` of a process is never regained once its total is zero, because each way into work spends a credit that is there (`BusyFalls`, `StillOutOfWork`), and the only step that
reports is the debit that brings an armed counter to zero.

### `WalksProof`: a transposed walk loses nothing, a resume finds work

Assumption (`WalkAssumption`): nodes are numbered as in a tree, the classes of nodes are disjoint, a node that is not a leaf has its children, and the children of a local or a remote
node are of its class. Any tree, buckets, packs, visitors (which buckets open a node is chosen at each visit) and requests that lanes share are covered.

What a bucket has still to visit is nowhere written down: it is in one of four places, which the invariant tells apart for every node. It is in the recursion (`OnStack`), it waits in
`curr_nodes` for its data (`WaitsAt`), it is below an entry of `paused_curr_nodes` that was put aside (`PutAside`), or the walk is past it (`Behind`).

- `StackInv`, `CurrInv`, `AsideInv`, `OpenedInv`: a node in one of the first three places is in no other, nobody has visited it, and the buckets stored with it are exactly those that opened its parent (`Reach`);
- `VisitInv`: nobody visits a node twice, and a bucket that reaches a node behind the walk has visited it;
- `WaitInv`, `EntryInv`, `CacheInv`: a node that waits is about to be parked, parked on a missing node, on its way in a wake-up or queued to be resumed; which entry method is at work and what it holds;
- `PauseInv`: what is put aside belongs to a walk that will be continued.

`WalkLosesNothing` needs no more than the first parts: in every setting no node is visited twice for a bucket, and when nothing is under way, what is left is put aside and not dropped. `WalkComplete`
(`TransposedComplete`) needs `PauseInv`, and that holds for whole packs only (`WholePacks`): with a pack capped by `num_share_nodes` a `goDown` can put local work aside and end without a continuation. That
is finding 2, so the hypothesis is needed; it is what the code has by default, when no cap is set.

`ResumesFindWork` is `ResumeFindsWork` of the basic and the up-and-down walk, under `BucketTreeAssumption`: a tree whose inner nodes have all their children, buckets that are different leaves of this
process. The number of `goDown` messages follows from who is at the queue, and no more is needed of it (`GoDownInv`): none while an entry method works or the queue is empty, else one. The other half of the invariant, `PointersSound`,
says that a queue holds pointers to nodes of the tree and that a pointer without data is to a node that this process may ask for; on it rests that the walk stays in the tree (`BucketTree`), and with it the types.

### `MinUnionProof`: what union-find by minimum computes

No assumption but that elements are numbers and edges finitely many. That two elements are joined is stated without paths: every labelling that gives the two ends of each
edge one label (`Respects`) gives the two elements one label. `Joins(r, E, S)` says that `r` labels `S` by the groups of `E`: it respects `E`, it takes no two elements together that `E` leaves apart, and the label of an
element is the least element with that label. There is one such `r` (`JoinsUnique`).

- `UniteAllJoins`: uniting the edges of `F`, in whatever order `CHOOSE` takes them, turns a labelling by `E` into the labelling by `E \cup F`.
- `LeastReachedIsLabel`: the breadth-first reference that TLC compares with finds that label.
- For the chain: labels of a part of `S` depend only on the edges of that part (`JoinsApart`), and a labelling by edges between labels, applied to the labels, is the labelling by all edges (`JoinsInTurn`).

Both operators are recursive functions. The theorems take induction over the number of edges or of rounds from the well-foundedness of the naturals (`SetInduction`), which the library states about a set and not about an operator.

### `Phase1Proof`: the deposits of phase 1

Assumptions: finitely many PEs, pieces and particles (`PEsAssumption`, `PiecesAssumption`, `PartsAssumption`), a piece is registered with one PE (`HomeAssumption`), and pieces share no particle
and links are between particles, of near pieces (`PartsAssumption`, `LayoutsAssumption`, `NearAssumption`), as for the tree pieces of a decomposition. The theorems are about the chain for any links, any split into PE sets, claimed
or static pieces and a flat pool or one by regions.

No barrier separates the steps of the chain. What does is that a PE which has deposited waits with no message until the last deposit of the phase sends one to all.
`PhaseInv` says it: the process is in one of five phases (`InA`, `InSlices`, `InB` in its three stages, `InMiddle`, `Relabelling`), every PE is at work in that phase, has its message,
or is at rest, and the counter of the phase is the number of PEs at rest (`CountersExact`). So whoever makes the last deposit is the only one not at rest (`OnlyLast`).

- `TipsFrozen` (`FrozenWhileRead`): the writers of tips (freeze, both relabels) belong to phases in which nobody can be inside a walk.
- `Holders`: the invariant `HolderInv` of the race for pieces: claimed pieces and those that PEs hold are the same, no two PEs hold one piece, a PE that found nothing to claim knows that all
  pieces are claimed, and it has rewritten its bucket of the registry.
- `EachPairOnce` (`PairsOnce`): every PE builds its stripe from the same list, since the registry no longer changes once all have deposited in phase A (`SharesKept`); slices of resting PEs are those stripes, the last PE's
  pool lists them all, each unit at one place (`PoolInv`). Two pieces of two PEs have one place in the list, pieces of one PE or of two sets have none.
- `MergeSeesAll` (`MergeComplete`, a property of `Phase1Chain` that GroupsExact depends on and no run checks by itself): a unit below the cursor of its stage is in a PE's hand, or its edges are in a buffer or submitted
  (`DrainInv`); a PE at rest has an empty buffer, and the cursor of a stage is past its limit as soon as one PE is at rest.

The second part of the module is about the labels, from the same assumptions. `GroupsAreExact` (`GroupsExact`, with the type invariant): when the last PE has relabelled, every particle carries the least order that the links phase 1 answers for join it to. The
invariant `LabelInv` says at every time which links the labels stand for:

- the roots label the particles by `Walked`, the links that PEs have walked among the pieces they hold. A PE unites without locks, which is right because the edges it adds and the groups it changes stay within
  what it holds (`WalkedKeeps`, `JoinsApart`), and what two PEs hold is disjoint (`HolderInv`), however the pieces were raced for;
- a PE that has frozen its groups has at each root the label of the group (`LabelsAtRoots`), through which the relabels go;
- from the pool on, everything in a buffer or submitted is entailed by the links of the stage's units (`EdgesSound`), the tips label by what was merged before the stage (`TipsOfStage`), and while PEs relabel the tips of those that
  have are one application of the merged map ahead of the others (`OnTheWay`).

The converse, that no link of the stage is missed, is `MergeSeesAll`; the last deposit joins the two (`MergeLabels`): edges between tips, which the stage's links entail and which with the earlier links entail the
stage's, give by `JoinsInTurn` the labels of both. At the end `AnsweredLinks` shows that walked links and units together are what phase 1 answers for. Soundness alone would allow labels that are too fine,
completeness alone labels that are too coarse. The types need one more part, `CursorInv`: the cursors, which PEs advance past the limit, exceed it by at most one for each PE that is past the drain.

### `LabellingProof`: the merge is one union-find

Assumptions: tips are finitely many numbers, each owned by one process; a PE has tips of its process; an edge joins two tips, the smaller first, and every edge is found by some PE of an owner of one of its
ends; only the library's mode streams (`TipsAssumption`, `PEsAssumption`, `FindersAssumption`, `ModesAssumption`). Any processes, tips, edges, iterations and ways in which PEs come upon edges are covered. That the walk
finds every edge is what `EdgesExact` checks of it.

`MergeImplementsFlat` (`ImplementsFlat`) is the refinement of `FlatMerge` by all five forms of the merge, in every iteration. The invariant (`MergeSound`) follows an edge:

- `WalkInv`, `RawInv`: an edge is still to be found, in a buffer, at the library or gathered; a duplicate is dropped only where the first is kept, and what a step is waiting for decides what has been gathered so far;
- `StagedInv`, `ForestInv`: a staged edge is with a process that owns one of its ends, or both; a process's forest is a labelling by its local edges (`Joins` of `MinUnionProof`), and it knows which of its tips edges touch;
- `RouteInv`, `ForwardInv`: a cross edge of a process that has routed is in a batch to the owner of its far end, or has arrived as the edge between the two local roots. Batches hold nothing else;
- `LabelInv`, `SliceInv`: a PE has its first labels or its final ones, by whether it has contributed to the step; a slice under way, stored or announced is for PEs that have still to apply it, and is final for their tips.

The forests are together a labelling by all local edges, because a local root has the owner of its tip (`LocalRootsJoin`). What the driver unites are edges between local roots, so by `JoinsInTurn` its label of the root
of a tip is the label that all edges give the tip (`StagedLabels`). A component of one process is not among them: its root is touched by no gathered edge, stays its own (`UntouchedAlone`), and is the least tip of the component,
which is what the process puts in itself. Between iterations the next walk may begin only after the census, which begins when all labels are final; a process without PEs may then still have a slice under way, which concerns nobody.

### `IterationProof`: complete sums

Assumption (`CanopyAssumption`): a branch factor of at least 2, and decompositions that are trees: finite, with the root's key above every other, no piece above a piece, and a piece or a canopy at
every child of a canopy. Any branch factor, sequence of decompositions and rounds, setting of `num_share_nodes` and order of messages is covered. The invariant `GatherInv`:

- `PlaceInv`: an element of the tree knows its place or a message with it is under way, and no message says anything else; `PhaseInv`: what the driver can be waiting for;
- `SumInv`: a contribution comes from somebody who has its whole share, and nobody's is under way twice. `Heard` of a canopy are the children that have contributed and of whom nothing is
  under way any more. A canopy that has its sum has heard all its children; another has counted exactly those it has heard, and once it has counted any, holds exactly their shares;
- `CountInv`: what is left from earlier rounds and other trees is harmless, since a count that is not 0 belongs to a canopy in mid-round, and old data carries an old round;
- `ReportInv`: the report of a canopy that has its sum is under way or is the newest of its key, and the driver has no report of anybody who does not belong to the tree or lies beyond the limit;
- `PackInv`: a pack is the beginning of the sorted storage of a round that is over.

At quiescence every canopy has its sum: the one with the largest key that had not would have heard all its children (`AllSummed`). Every canopy is told its place, because each is
the ancestor that some piece speaks for, the first leaf below it (`FirstLeaves`). The order of the pack follows from what the sort does (`SortedIs`), and whole levels from what the loop of `canopyCollectLimit` keeps: keys below a
power of the branch factor lie on higher levels than the others (`LimitSeparates`). `SumsAreComplete` states it of every run of the driver. The keys are related by recursive functions (`Ancestors`, `SpeaksFor`, the loop); that each is
defined everywhere follows from a measure that falls (`RecursionExists`).

### `IterationProof`: the exchange of particles

Assumption (`FlushAssumption`): a reader's chunks are sequences of a piece and a positive number of particles, and windows are numbers. Any readers, pieces, chunks, windows and number of exchanges are covered. `Gone` are the chunks that
a reader has posted. The invariant `FlushInv`:

- `PlanInv`: a reader that has not been told, or whose plan is not through, still has its particles; a plan that is not through is the whole plan (`PlanIs`), and its reader has reached the window;
- `NetInv`: a message is a posted chunk, with the particles it was made for and asking for an ack if the exchange is windowed (`Letter`); an ack is of a posted chunk that no message carries any more. Outside an exchange nothing is under way;
- `FlightInv`: a reader counts the particles of the chunks that a message or an ack stands for (`Flight`), and that number without some one chunk is below the window (`Fits`);
- `DeliveryInv`: from the first exchange on, a piece has exactly the chunks for it of readers that have been told, handed over or posted and no longer carried.

A plan that is not through means a counter of at least the window, which is positive, hence something that counts and is under way: quiescence is not seen (`PlanIsAwaited`), which is what the comment at `src/Reader.h:251-253` argues. The
sums are the recursive function in `Count`; that it adds up over disjoint sets (`CountAdds`) is shown by ordinary induction on the chunks, so that a post adds to the counter what it adds to `Flight`, and an ack takes away what leaves it. Where
the loop stops is the least number at which it may (`LoopStops`); it posts nothing that was posted and ends past the window or with the plan through (`PumpDoes`). `FlushIsSound` states `FlushSettles` of every run of the driver.

### `RunProof`: a build is sound

Assumption (`LayoutAssumption`): a layout puts every piece and every partition on a process, a leaf has particles of at least one partition, and where the two decompositions match, a piece's
leaves are its own partition's. Any processes, pieces, partitions, cuts of leaves and number of iterations are covered. The invariant follows what is under way for each pair:

- `PairInv`: the leaves of a piece for a partition elsewhere are in one place: the piece has not built yet, their keys are on the way, a handler that found the copy is between its two entries to the lock,
  the partition is registered as waiting, or it has been told. A partition is told only after the copy came, and what it looks up then are exactly its leaves;
- `CopyInv`: for a process and a piece that is not its own, once a partition has registered, exactly one of these holds: the request is under way, its answer is, or the copy is here with its leaves registered; nobody has asked
  before. A process never asks for its own piece;
- `FreshInv`, `PieceInv`: an answer carries what the piece is now, since versions only change when the build is quiet; during a refresh a copy is up to date, its new data is on the way, or the piece has yet to send it,
  and a process that has a copy is among those that the piece sends to;
- `LeavesInv`, `DisplacedInv`: at every moment a partition has exactly the leaves that it is owed no more (`Owes`), each once, and a process's displaced leaves are those of its pieces that have built;
- `MsgInv`: no two equal messages, and messages of a build only in a build, so that the bag is a set and quiescence ends the phase it was waited for in.

`Owes` is what makes the interleavings harmless: a partition that registers after the copy was installed and before its waiters are read is told with them, one that comes later finds the copy; in both cases one disjunct of
`Owes` goes over into another. Every other stage leaves the variables of the build alone (`BuildStep`), so `BuildIsSound` states `BuildSound` of every run of the driver.

### `RunProof`: a host gets its labels

Assumption (`HostAssumption`): a host calls at least once, and the groups of a call are finite, hold their own particles and are equal or disjoint. Any number of PEs and calls, any staging, any sizes wanted, with
and without the catalogue, cleared or not between calls, are covered. The invariant `HostInv`:

- `StagedInv`: a PE that has staged has room behind the labels of earlier calls (`Before`) for exactly its particles, and those are kept as they were; until the decomposition its reader holds exactly those particles, with their places;
- `OwnInv`: from then to the return every particle has an owner, and owners have nothing else; after it the pieces go, so that the next call finds none;
- `FilterInv`: a PE's size filter is off once phase 1 has been reset, and after the catalogue it is this call's; a PE that has yet to be reset may hold the filter of the call before, but nobody returns labels while there is one;
- `AnswerInv`: an answer carries, for places of its PE, the labels that are due (`Final`);
- `LabelInv`: from the return on, a label is in place, or still with an owner that has not answered, or in an answer (`Pending`).

A PE keeps a label if the group is large enough, as it judges by the groups of its own particles: two of different groups never have the same least identity (`GroupsAre`), so the list it was told means what it should (`LabelRight`).
At quiescence nothing is pending, hence all labels are in place (`AllReturned`), and that is what the next call finds before its own. What a PE has after each call is a recursive function, `Held` (`HeldIs`).
`LabelsAreReturned` states `LabelsReturned` of every run of the driver.

### What is only model-checked

- All liveness: `EveryWaiterResumed`, `WalkEnds` of both runs, `StagesEnd`, `PlacementEnds`, `ChainEnds`, `LabellingEnds`. The proof system has no rules for `ENABLED`. So
  the theorems `Refines` are about the safety specifications; TLC checks the same property on the fair ones.
- What the other recursions and folds compute on all inputs: the geometry of `WalkExact`, the kernels of `DeviceExact`, the bags of `CensusExact`,
  the shares of `SplitsEven` and `FairShares`. The library's induction theorems take an operator as a parameter, which the provers at hand cannot instantiate; `MinUnionProof` goes around them for
  functions over finite sets. The runs compare the results with closed-form references over bounded inputs.
- The safety of the remaining modules, whose invariants are in reach and not yet proved: `VisitedOnce` of `BucketWalk`, the pairs of `DualWalk`, `MovesAgree` of `Balance`.

## 5. Mutants

Every property of a passing run has a mutant in `PROJECT.json`: a change of one modelled definition that is a plausible bug in that line
(a credit taken after the message, a sentinel exchanged before the slot, a cursor limit off by one, a ledger that is
not cleared, a lock region that trusts what it read before). TLC finds the property violated in each.

## 6. Findings

1. `park` reads `head->opaque` of an entry that a concurrent `drainParked` may have deleted
   (`treecache/TreeCacheCore.h:80`). If the memory holds the walker's own opaque by then, `park` takes
   it for a duplicate and reports `Parked` on a closed list: a lost wake-up, against the promise of the comment at lines 108-110.
   A fix makes the theorem's assumption true: keep entries until the end of the iteration, or drop the duplicate test.
2. `Partition::goDown` (`src/Partition.h:211`) and `TreePiece::goDown` (`src/TreePiece.h:358`) do not look at `wantsPause` after
   `resumeTrav`. Local work that was put aside in a `goDown` is then abandoned, which the
   comment at `src/TreePiece.h:314-319` warns of. It needs a starter pack capped by `num_share_nodes`, so
   that a fetched canopy has local pieces below it; with the full pack `walks` shows that it cannot happen.
3. `catalogAccumulate` (`fof/FoFPhase1.h:3993`) clears the sums of the last catalogue when the driver's broadcast arrives, and with
   them the partials of a PE that the broadcast reached earlier. The group is listed too small or dropped. The census beside it (line 4250) avoids the same race.
4. `OrbLB` (`src/loadbalancers/OrbLB.C:233`): in a range without partitions or load `half_load_idx` stays 0, the right half starts again from the first partition, and all that were
   placed before are placed again on one PE.
5. `TreePiece::pup` (`src/TreePiece.h:194`) ships `incoming_particles` only. `Driver.h:482` relies on the rebucket before it, which an analysis
   (nothing moves) skips: a piece that migrates then leaves its particles behind. The jobs of `iteration` leave this combination out; `static_balance` is it.

What modelling showed besides, without a run of its own:

- Driver: `Partition::pup` does not carry `iter` and `time_advanced` (`src/Partition.h:357`); after deletions orders exceed `particles_per_writer` times the number
  of PEs; deletions exist in the dual modes only; `findLocalNode` (`src/TreeCache.h:382`) does not return for a key nobody owns.
- Decomposition: the flush by space-filling curve takes the closed upper end of a range while the counting is open; the kd search stops at an absolute epsilon (`src/Decomposition.C:790`) and goes on for ever between two coarser floats (`Stuck`); a particle at a middle is counted in neither half but flushed to the lower one, so that the
  halves may be uneven; that "consecutive pieces still land on different
  PEs" (`src/Decomposition.C:45`) does not hold for `spread`.
- Load balancers: `PrefixLB` divides by an average that is 0 with fewer particles than PEs, and leaves PE 0 empty when all objects are equal; `DistributedPrefixLB` divides by 0 if the values overtake the summed
  load (`src/loadbalancers/DistributedPrefixLB.C:212` and `239`): the process faults, or its partitions all go to the last PE. It takes a test in `prefixStep` that the sum has come; PE 0 never decides without it. Its term for tree pieces is not reached.
- Without a caller: `alignSplitters`, `serialFindSplitters`, `sortAndGetSplitter`, `assign`, the sample sort of `src/Reader.C:377-487`, `resetCachedParticles`, `receiveParticleUpdates`, `Driver::prefetch` and `request`, the read-only recursive walk.

## 7. Not modelled, and the plan

Not modelled because there is nothing to interleave or TLC has nothing to say: floating-point physics, the geometry of opening
tests (a visitor's answer is a free choice, or an integer geometry), byte formats, options, memory arenas, statistics, checkpointing. Not modelled
for their size: the diffusion, smoothing and distributed bisection balancers, which the build leaves out by default, the staged schedule of a user's
traversals, and the inside of the distributed union-find library, of which only the delivery of messages is used.

To come, in this order:

1. Proofs about the other walks of one owner (`VisitedOnce` of `BucketWalk`) and about the agreement on moves (`MovesAgree`).
2. The request mask with more lanes than bits as a constant of `CacheWalk`.
