---------------------------- MODULE StarterPack ----------------------------
(***************************************************************************)
(* One process receives the chunked starter pack of the software cache     *)
(* (src/CacheManager.h: recvStarterChunk, installStarterEntries;           *)
(* src/Driver.h: loadCache).                                               *)
(*                                                                         *)
(* The driver broadcasts NChunks chunks of one sorted pack.  They arrive   *)
(* in any order, on any lane of the process, several at once.  A lane that *)
(* brings the chunk the process waits for installs it with sp_lock         *)
(* released, then takes over the chunks that were put aside meanwhile; any *)
(* other chunk is put aside.  What runs under sp_lock is one step.         *)
(*                                                                         *)
(* Chunks are contiguous ranges of the sorted pack, so a node's parent is  *)
(* in the same or an earlier chunk: the order of the chunks is all that    *)
(* the installs depend on.                                                 *)
(***************************************************************************)
EXTENDS Integers

CONSTANTS
  Lanes,        \* processing elements of the process
  NChunks,      \* n_chunks
  Iterations    \* how often loadCache runs

Chunks == 0 .. NChunks - 1

ASSUME StarterAssumption ==
  /\ NChunks \in Nat \ {0}
  /\ Iterations \in Nat

VARIABLES
  sp_next,        \* the chunk to install next
  sp_installing,  \* a lane is installing
  sp_pending,     \* chunks put aside
  first,          \* sp_first_arrival < 0: no chunk of this load has arrived
  lc_pack_n,      \* the entries installed, counted in chunks
  at,             \* per lane: where recvStarterChunk is
  chunk,          \* per lane: the chunk being installed
  root,           \* which tree the root of the cache belongs to
  flying,         \* chunks on their way to this process
  empty,          \* the pack has no entry: the tree is one tree piece
  installed,      \* chunks installed in this load (history)
  loading,        \* the driver waits for this process
  iter            \* loads begun

lockVars == <<sp_next, sp_installing, sp_pending, first>>
driverVars == <<flying, empty, loading, iter>>
vars == <<lockVars, lc_pack_n, at, chunk, root, driverVars, installed>>

Init ==
  /\ sp_next = 0
  /\ sp_installing = FALSE
  /\ sp_pending = {}
  /\ first = TRUE
  /\ lc_pack_n = 0
  /\ at = [l \in Lanes |-> "idle"]
  /\ chunk = [l \in Lanes |-> 0]
  /\ root = "none"
  /\ flying = {}
  /\ empty = FALSE
  /\ installed = {}
  /\ loading = FALSE
  /\ iter = 0

\* Driver::loadCache, after CacheManager::destroy of the iteration before.
LoadCache ==
  /\ ~ loading
  /\ iter < Iterations
  /\ iter' = iter + 1
  /\ loading' = TRUE
  /\ flying' = Chunks
  /\ empty' \in BOOLEAN
  /\ installed' = {}
  /\ root' = "none"
  /\ UNCHANGED <<lockVars, lc_pack_n, at, chunk>>

\* Variant: a chunk is installed whenever nobody else installs.
WhenFree(c) == ~ sp_installing

\* What the lane that brings chunk c finds under the lock.
Installable(c) == ~ sp_installing /\ c = sp_next

\* The first chunk of a load to arrive resets the count.
StartCount == IF first THEN 0 ELSE lc_pack_n

\* recvStarterChunk up to the first unlock: the chunk is installed by this
\* lane or put aside.
Arrive(l, c) ==
  /\ at[l] = "idle"
  /\ c \in flying
  /\ flying' = flying \ {c}
  /\ first' = FALSE
  /\ lc_pack_n' = StartCount
  /\ IF Installable(c)
       THEN /\ sp_installing' = TRUE
            /\ at' = [at EXCEPT ![l] = "install"]
            /\ chunk' = [chunk EXCEPT ![l] = c]
            /\ UNCHANGED sp_pending
       ELSE /\ sp_pending' = sp_pending \cup {c}
            /\ UNCHANGED <<sp_installing, at, chunk>>
  /\ UNCHANGED <<sp_next, root, installed, empty, loading, iter>>

\* installStarterEntries, outside the lock; entry 0 is the root of the tree.
Install(l) ==
  /\ at[l] = "install"
  /\ installed' = installed \cup {chunk[l]}
  /\ lc_pack_n' = IF empty THEN lc_pack_n ELSE lc_pack_n + 1
  /\ root' = IF ~ empty /\ chunk[l] = 0 THEN "pack" ELSE root
  /\ at' = [at EXCEPT ![l] = "advance"]
  /\ UNCHANGED <<lockVars, chunk, driverVars>>

\* The drain finds chunk c among those put aside.
Waiting(c) == c \in sp_pending

\* Variant: one chunk too many is expected.
PastLast(next) == next = NChunks + 1

\* Variant: the load is over when nothing is put aside.
NothingAside(next) == sp_pending = {}

\* done.
Last(next) == next = NChunks

\* The lock again: the next chunk's turn.  The lane takes it over when it was
\* put aside; otherwise it stops installing, and ends the load after the last.
Advance(l) ==
  LET next == chunk[l] + 1 IN
  /\ at[l] = "advance"
  /\ IF Waiting(next)
       THEN /\ sp_next' = next
            /\ sp_pending' = sp_pending \ {next}
            /\ chunk' = [chunk EXCEPT ![l] = next]
            /\ at' = [at EXCEPT ![l] = "install"]
            /\ UNCHANGED <<sp_installing, first>>
       ELSE /\ sp_installing' = FALSE
            /\ sp_next' = IF Last(next) THEN 0 ELSE next
            /\ first' = IF Last(next) THEN TRUE ELSE first
            /\ at' = [at EXCEPT ![l] = IF Last(next) THEN "report" ELSE "idle"]
            /\ UNCHANGED <<sp_pending, chunk>>
  /\ UNCHANGED <<lc_pack_n, root, driverVars, installed>>

\* After the last chunk, outside the lock: an empty pack means that the one
\* local tree piece is the tree.
Report(l) ==
  /\ at[l] = "report"
  /\ root' = IF lc_pack_n = 0 THEN "local" ELSE root
  /\ loading' = FALSE
  /\ at' = [at EXCEPT ![l] = "idle"]
  /\ UNCHANGED <<lockVars, lc_pack_n, chunk, flying, empty, iter, installed>>

LaneStep(l) ==
  \/ \E c \in Chunks : Arrive(l, c)
  \/ Install(l)
  \/ Advance(l)
  \/ Report(l)

Next == LoadCache \/ \E l \in Lanes : LaneStep(l)

Spec == Init /\ [][Next]_vars

\* A lane finishes the entry method it runs, and some lane takes a message
\* that is waiting.
Fairness ==
  /\ WF_vars(\E l \in Lanes, c \in Chunks : Arrive(l, c))
  /\ \A l \in Lanes : WF_vars(Install(l) \/ Advance(l) \/ Report(l))

FairSpec == Spec /\ Fairness

-----------------------------------------------------------------------------
(* Properties.                                                             *)

TypeOK ==
  /\ sp_next \in 0 .. NChunks - 1
  /\ sp_installing \in BOOLEAN
  /\ sp_pending \subseteq Chunks
  /\ first \in BOOLEAN
  /\ lc_pack_n \in Nat
  /\ at \in [Lanes -> {"idle", "install", "advance", "report"}]
  /\ chunk \in [Lanes -> Chunks]
  /\ root \in {"none", "pack", "local"}
  /\ flying \subseteq Chunks
  /\ installed \subseteq Chunks
  /\ empty \in BOOLEAN
  /\ loading \in BOOLEAN
  /\ iter \in Nat

\* One lane at a time installs (the installs themselves take no lock).
OneInstaller ==
  \A l, m \in Lanes :
    at[l] \in {"install", "advance"} /\ at[m] \in {"install", "advance"} => l = m

\* A chunk is installed once, after all the chunks before it: every parent is
\* in the cache when its child is installed.
InOrder ==
  \A l \in Lanes : at[l] = "install" =>
    /\ chunk[l] \notin installed
    /\ \A c \in 0 .. chunk[l] - 1 : c \in installed

\* The process lets the driver go on after the whole pack was installed, and
\* leaves nothing behind that a later load could take for its own.
WholePack ==
  /\ ~ loading /\ iter > 0 => installed = Chunks
  /\ ~ loading => sp_next = 0 /\ sp_pending = {} /\ ~ sp_installing /\ first

\* Whoever waited for the load finds the root of the right tree.
RootReady ==
  ~ loading /\ iter > 0 => root = IF empty THEN "local" ELSE "pack"

\* What a load promises to those who waited for it and to the next load.
LoadComplete == WholePack /\ RootReady

=============================================================================
