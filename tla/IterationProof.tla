---------------------------- MODULE IterationProof ----------------------------
(***************************************************************************)
(* What holds in every run of the driver: the starter pack is loaded in    *)
(* order and whole, for any number of lanes, chunks and loads; whenever    *)
(* the driver goes on, the canopies' sums are complete; and the exchange   *)
(* of particles is over only when all have arrived.  The stages are        *)
(* instances in Iteration.  RunProof has the build and the host.           *)
(***************************************************************************)
EXTENDS Iteration, FiniteSetTheorems, SequenceTheorems, WellFoundedInduction, TLAPS

-----------------------------------------------------------------------------
(* The starter pack.  The inductive invariant says which of five phases    *)
(* the process is in: no load, waiting for a chunk, installing it, about   *)
(* to take the lock again, about to report.  At most one lane is out of    *)
(* the scheduler in each.                                                  *)

AllIdle == \A l \in Lanes : at[l] = "idle"

\* Only lane l is in recvStarterChunk, at label w.
Alone(l, w) == at[l] = w /\ \A m \in Lanes : m # l => at[m] = "idle"

\* Chunks 0 .. n - 1 are in the cache, and nothing else of this load.
Loaded(n) ==
  /\ installed = 0 .. n - 1
  /\ root = IF ~ empty /\ n > 0 THEN "pack" ELSE "none"

Counted(n) == lc_pack_n = IF empty THEN 0 ELSE n

\* What is neither installed nor being installed is in the air or put aside.
Ahead(n) == sp_pending \cup flying = n .. NChunks - 1

\* The fields that outlive a load have their initial values.
Settled ==
  /\ sp_next = 0 /\ ~ sp_installing /\ sp_pending = {} /\ first
  /\ flying = {}

NoLoad ==
  /\ AllIdle /\ ~ loading /\ Settled
  /\ iter > 0 => /\ installed = Chunks
                 /\ root = IF empty THEN "local" ELSE "pack"

WaitingForChunk ==
  /\ AllIdle /\ loading /\ ~ sp_installing
  /\ Loaded(sp_next) /\ Ahead(sp_next) /\ sp_next \notin sp_pending
  /\ IF first THEN sp_next = 0 ELSE Counted(sp_next)

Installing(l) ==
  /\ Alone(l, "install") /\ loading /\ sp_installing /\ ~ first
  /\ chunk[l] = sp_next
  /\ Loaded(sp_next) /\ Ahead(sp_next + 1) /\ Counted(sp_next)

Advancing(l) ==
  /\ Alone(l, "advance") /\ loading /\ sp_installing /\ ~ first
  /\ chunk[l] = sp_next
  /\ Loaded(sp_next + 1) /\ Ahead(sp_next + 1) /\ Counted(sp_next + 1)

Reporting(l) ==
  /\ Alone(l, "report") /\ loading /\ Settled
  /\ Loaded(NChunks) /\ Counted(NChunks)

Phase ==
  \/ NoLoad
  \/ WaitingForChunk
  \/ \E l \in Lanes : Installing(l) \/ Advancing(l) \/ Reporting(l)

IInv == TypeOK /\ sp_pending \cap flying = {} /\ Phase
-----------------------------------------------------------------------------
LEMMA InitIInv == Init => IInv
<1> SUFFICES ASSUME Init PROVE IInv
  OBVIOUS
<1>1. 0 \in 0 .. NChunks - 1
  BY StarterAssumption
<1>2. TypeOK
  BY <1>1 DEF Init, TypeOK, Chunks
<1>3. NoLoad
  BY DEF Init, NoLoad, AllIdle, Settled
<1>4. QED
  BY <1>2, <1>3 DEF IInv, Phase, Init

LEMMA LoadCacheIInv == IInv /\ LoadCache => IInv'
<1> SUFFICES ASSUME IInv, LoadCache PROVE IInv'
  OBVIOUS
<1>1. NoLoad
  BY DEF IInv, Phase, LoadCache, WaitingForChunk, Installing, Advancing, Reporting
<1>2. TypeOK'
  BY DEF IInv, TypeOK, LoadCache, lockVars
<1>3. WaitingForChunk'
  BY <1>1, StarterAssumption
  DEF NoLoad, WaitingForChunk, AllIdle, Settled, Loaded, Ahead, LoadCache, lockVars, Chunks
<1>4. QED
  BY <1>1, <1>2, <1>3 DEF IInv, Phase, NoLoad, Settled, LoadCache, lockVars

\* A chunk arrives while the process waits for one.
LEMMA ArriveWaiting ==
  ASSUME IInv, WaitingForChunk, NEW l \in Lanes, NEW c \in Chunks, Arrive(l, c)
  PROVE  IInv'
<1> USE StarterAssumption
<1>1. TypeOK'
  BY DEF IInv, TypeOK, Arrive, Installable, StartCount
<1>2. lc_pack_n' = IF empty THEN 0 ELSE sp_next
  BY DEF WaitingForChunk, Counted, Arrive, StartCount
<1>3. (sp_pending \cap flying)' = {}
  BY DEF IInv, Arrive, Installable
<1>4. CASE Installable(c)
  <2>1. Installing(l)'
    BY <1>4, <1>2 DEF WaitingForChunk, Installing, Arrive, Installable, StartCount, AllIdle,
       Alone, Loaded, Ahead, Counted, IInv, TypeOK, Chunks
  <2>2. QED
    BY <1>1, <1>3, <2>1 DEF IInv, Phase
<1>5. CASE ~ Installable(c)
  <2>1. WaitingForChunk'
    BY <1>5, <1>2 DEF WaitingForChunk, Arrive, Installable, StartCount, AllIdle,
       Loaded, Ahead, Counted, IInv, TypeOK, Chunks
  <2>2. QED
    BY <1>1, <1>3, <2>1 DEF IInv, Phase
<1>6. QED
  BY <1>4, <1>5

\* A chunk that arrives while a lane installs is put aside.
LEMMA ArriveInstalling ==
  ASSUME IInv, NEW i \in Lanes, Installing(i) \/ Advancing(i),
         NEW l \in Lanes, NEW c \in Chunks, Arrive(l, c)
  PROVE  IInv'
<1>1. TypeOK'
  BY DEF IInv, TypeOK, Arrive, Installable, StartCount
<1>2. /\ ~ Installable(c)
      /\ sp_pending' = sp_pending \cup {c} /\ flying' = flying \ {c} /\ c \in flying
      /\ ~ first' /\ lc_pack_n' = lc_pack_n
      /\ UNCHANGED <<sp_next, sp_installing, at, chunk, root, installed, empty, loading>>
  BY DEF Installing, Advancing, Arrive, Installable, StartCount
<1>3. (sp_pending \cap flying)' = {}
  BY <1>2 DEF IInv
<1>4. Ahead(sp_next + 1) => Ahead(sp_next + 1)'
  BY <1>2 DEF Ahead
<1>5. Installing(i)' \/ Advancing(i)'
  BY <1>2, <1>4 DEF Installing, Advancing, Alone, Loaded, Counted
<1>6. QED
  BY <1>1, <1>3, <1>5 DEF IInv, Phase

LEMMA ArriveIInv ==
  ASSUME IInv, NEW l \in Lanes, NEW c \in Chunks, Arrive(l, c)
  PROVE  IInv'
<1>1. ~ NoLoad /\ \A i \in Lanes : ~ Reporting(i)
  BY DEF NoLoad, Reporting, Settled, Arrive
<1>2. QED
  BY <1>1, ArriveWaiting, ArriveInstalling DEF IInv, Phase

LEMMA InstallIInv ==
  ASSUME IInv, NEW l \in Lanes, Install(l)
  PROVE  IInv'
<1> USE StarterAssumption
<1>1. TypeOK'
  BY DEF IInv, TypeOK, Install, lockVars, driverVars
<1>2. Installing(l)
  BY DEF IInv, Phase, NoLoad, AllIdle, WaitingForChunk, Installing, Advancing, Reporting,
     Alone, Install
<1>3. installed' = 0 .. sp_next
  BY <1>2 DEF Installing, Loaded, Install, IInv, TypeOK
<1>4. Advancing(l)'
  BY <1>2, <1>3 DEF Installing, Advancing, Alone, Loaded, Ahead, Counted, Install,
     lockVars, driverVars, IInv, TypeOK
<1>5. QED
  BY <1>1, <1>4 DEF IInv, Phase, Install, lockVars, driverVars

LEMMA AdvanceIInv ==
  ASSUME IInv, NEW l \in Lanes, Advance(l)
  PROVE  IInv'
<1> USE StarterAssumption
<1>1. Advancing(l)
  BY DEF IInv, Phase, NoLoad, AllIdle, WaitingForChunk, Installing, Advancing, Reporting,
     Alone, Advance
<1>2. sp_next \in Nat /\ sp_next < NChunks /\ chunk[l] = sp_next
  BY <1>1 DEF Advancing, IInv, TypeOK
<1>3. CASE Waiting(sp_next + 1)
  <2>1. sp_next + 1 \in Chunks
    BY <1>3 DEF Waiting, IInv, TypeOK
  <2>2. TypeOK'
    BY <1>2, <1>3, <2>1 DEF IInv, TypeOK, Advance, driverVars, Chunks
  <2>3. Ahead(sp_next + 1)'
    BY <1>1, <1>2, <1>3 DEF Advancing, Ahead, Advance, Waiting, driverVars, IInv
  <2>4. Installing(l)'
    BY <1>1, <1>2, <1>3, <2>1, <2>3 DEF Advancing, Installing, Alone, Loaded, Counted,
       Advance, driverVars, IInv, TypeOK
  <2>5. QED
    BY <1>2, <1>3, <2>2, <2>4 DEF IInv, Phase, Advance, driverVars
<1>4. CASE ~ Waiting(sp_next + 1) /\ Last(sp_next + 1)
  <2>1. TypeOK'
    <3>1. sp_next' \in 0 .. NChunks - 1
      BY <1>2, <1>4 DEF Advance, Last
    <3>2. at' \in [Lanes -> {"idle", "install", "advance", "report"}]
      BY <1>4, <1>2 DEF IInv, TypeOK, Advance
    <3>3. sp_installing' \in BOOLEAN /\ first' \in BOOLEAN
      BY <1>4, <1>2 DEF IInv, TypeOK, Advance
    <3>4. QED
      BY <3>1, <3>2, <3>3, <1>4, <1>2 DEF IInv, TypeOK, Advance, driverVars
  <2>2. sp_pending = {} /\ flying = {}
    BY <1>1, <1>2, <1>4 DEF Advancing, Ahead, Last
  <2>3. /\ sp_next' = 0 /\ ~ sp_installing' /\ first'
        /\ at' = [at EXCEPT ![l] = "report"]
        /\ UNCHANGED <<sp_pending, lc_pack_n, root, flying, empty, loading, installed>>
    BY <1>2, <1>4 DEF Advance, driverVars
  <2>4. Settled' /\ Alone(l, "report")'
    BY <1>1, <2>2, <2>3 DEF Advancing, Alone, Settled, IInv, TypeOK
  <2>5. (Loaded(NChunks) /\ Counted(NChunks))'
    BY <1>1, <1>4, <2>3 DEF Advancing, Loaded, Counted, Last
  <2>6. QED
    BY <1>1, <2>1, <2>3, <2>2, <2>4, <2>5 DEF Advancing, Reporting, IInv, Phase
<1>5. CASE ~ Waiting(sp_next + 1) /\ ~ Last(sp_next + 1)
  <2>1. TypeOK'
    <3>1. sp_next' \in 0 .. NChunks - 1
      BY <1>2, <1>5 DEF Advance, Last
    <3>2. at' \in [Lanes -> {"idle", "install", "advance", "report"}]
      BY <1>5, <1>2 DEF IInv, TypeOK, Advance
    <3>3. sp_installing' \in BOOLEAN /\ first' \in BOOLEAN
      BY <1>5, <1>2 DEF IInv, TypeOK, Advance
    <3>4. QED
      BY <3>1, <3>2, <3>3, <1>5, <1>2 DEF IInv, TypeOK, Advance, driverVars
  <2>2. /\ sp_next' = sp_next + 1 /\ ~ sp_installing' /\ ~ first'
        /\ at' = [at EXCEPT ![l] = "idle"]
        /\ UNCHANGED <<sp_pending, lc_pack_n, root, flying, empty, loading, installed>>
    BY <1>1, <1>2, <1>5 DEF Advancing, Advance, driverVars
  <2>3. AllIdle'
    BY <1>1, <2>2 DEF Advancing, Alone, AllIdle, IInv, TypeOK
  <2>4. (Loaded(sp_next) /\ Ahead(sp_next) /\ Counted(sp_next))'
    BY <1>1, <2>2 DEF Advancing, Loaded, Ahead, Counted
  <2>5. WaitingForChunk'
    BY <1>1, <1>2, <1>5, <2>2, <2>3, <2>4 DEF Advancing, WaitingForChunk, Waiting
  <2>6. QED
    BY <2>1, <2>2, <2>5 DEF IInv, Phase
<1>6. QED
  BY <1>3, <1>4, <1>5

LEMMA ReportIInv ==
  ASSUME IInv, NEW l \in Lanes, Report(l)
  PROVE  IInv'
<1> USE StarterAssumption
<1>1. Reporting(l)
  BY DEF IInv, Phase, NoLoad, AllIdle, WaitingForChunk, Installing, Advancing, Reporting,
     Alone, Report
<1>2. TypeOK'
  BY DEF IInv, TypeOK, Report, lockVars
<1>3. NoLoad'
  BY <1>1 DEF Reporting, NoLoad, AllIdle, Settled, Alone, Loaded, Counted, Report, lockVars,
     Chunks, IInv, TypeOK
<1>4. QED
  BY <1>2, <1>3 DEF IInv, Phase, Report, lockVars

LEMMA NextIInv == IInv /\ [Next]_vars => IInv'
<1> SUFFICES ASSUME IInv, [Next]_vars PROVE IInv'
  OBVIOUS
<1>1. CASE UNCHANGED vars
  BY <1>1 DEF vars, lockVars, driverVars, IInv, TypeOK, Phase, NoLoad, AllIdle, WaitingForChunk,
     Installing, Advancing, Reporting, Alone, Loaded, Ahead, Counted, Settled
<1>2. CASE LoadCache
  BY <1>2, LoadCacheIInv
<1>3. ASSUME NEW l \in Lanes, LaneStep(l) PROVE IInv'
  BY <1>3, ArriveIInv, InstallIInv, AdvanceIInv, ReportIInv DEF LaneStep
<1>4. QED
  BY <1>1, <1>2, <1>3 DEF Next

LEMMA IInvSafe == IInv => OneInstaller /\ InOrder /\ WholePack /\ RootReady
<1> SUFFICES ASSUME IInv PROVE OneInstaller /\ InOrder /\ WholePack /\ RootReady
  OBVIOUS
<1> USE StarterAssumption
<1>1. OneInstaller
  BY DEF OneInstaller, IInv, Phase, NoLoad, AllIdle, WaitingForChunk, Installing, Advancing,
     Reporting, Alone
<1>2. InOrder
  <2> SUFFICES ASSUME NEW l \in Lanes, at[l] = "install"
               PROVE  chunk[l] \notin installed /\ \A c \in 0 .. chunk[l] - 1 : c \in installed
    BY DEF InOrder
  <2>1. Installing(l)
    BY DEF IInv, Phase, NoLoad, AllIdle, WaitingForChunk, Installing, Advancing, Reporting, Alone
  <2>2. QED
    BY <2>1 DEF Installing, Loaded, IInv, TypeOK
<1>3. WholePack
  BY DEF WholePack, IInv, Phase, NoLoad, Settled, WaitingForChunk, Installing, Advancing, Reporting
<1>4. RootReady
  BY DEF RootReady, IInv, Phase, NoLoad, WaitingForChunk, Installing, Advancing, Reporting
<1>5. QED
  BY <1>1, <1>2, <1>3, <1>4

-----------------------------------------------------------------------------
\* recvStarterChunk is always in one of its five phases.
THEOREM Invariant == Spec => []IInv
  BY InitIInv, NextIInv, PTL DEF Spec

\* The fields of the chunked load keep their types and ranges.
THEOREM TypeCorrect == Spec => []TypeOK
<1>1. IInv => TypeOK
  BY DEF IInv
<1>2. QED
  BY <1>1, Invariant, PTL

\* The installs, which take no lock, exclude each other: sp_installing hands
\* the tree from lane to lane.
THEOREM InstallsExclude == Spec => []OneInstaller
  BY Invariant, IInvSafe, PTL

\* Chunks enter the cache in the order of the pack, each once, whatever order
\* they arrive in.
THEOREM InstallsInOrder == Spec => []InOrder
  BY Invariant, IInvSafe, PTL

\* The process reports a load after the whole pack, with the root the pack
\* calls for, and the load after it starts from the initial values.
THEOREM LoadsComplete == Spec => []LoadComplete
<1>1. IInv => LoadComplete
  BY IInvSafe DEF LoadComplete
<1>2. QED
  BY <1>1, Invariant, PTL

\* The load is a stage of the driver's, and the other stages leave it alone: its
\* installs are in order and exclude each other, and every load is complete, in every
\* run of the driver.
THEOREM LoadsAreSound ==
  IterationSpec => [](TypeOK /\ OneInstaller /\ InOrder /\ LoadComplete)
<1>1. IterationInit => IInv
  BY InitIInv DEF IterationInit
<1>2. IInv /\ [IterationNext]_iterationVars => IInv'
  <2>1. [IterationNext]_iterationVars => [Next]_vars
    BY DEF IterationNext, iterationVars, FlushStep, ShipStep, GatherStep, LoadStep, DriveStep, HostStep
  <2> QED
    BY <2>1, NextIInv
<1>3. IInv => TypeOK /\ OneInstaller /\ InOrder /\ LoadComplete
  BY IInvSafe DEF IInv, LoadComplete
<1>4. QED
  BY <1>1, <1>2, <1>3, PTL DEF IterationSpec

-----------------------------------------------------------------------------
(* Recursion.  The keys are related by recursive functions, and the prover *)
(* has to be shown that such functions exist.                              *)

\* A set that has each number whose predecessors it has, has all numbers.
LEMMA StrongInduction ==
  ASSUME NEW S, \A n \in Nat : (\A i \in Nat : i < n => i \in S) => n \in S
  PROVE  Nat \subseteq S
<1>1. SUFFICES ASSUME Nat \ S # {} PROVE FALSE
  OBVIOUS
<1> DEFINE R == OpToRel(<, Nat)
<1>2. IsWellFoundedOn(R, Nat)
  BY NatLessThanWellFounded
<1>3. \A x, y \in Nat : <<y, x>> \in R <=> y < x
  BY DEF OpToRel
<1> HIDE DEF R
<1>4. PICK x \in Nat \ S : \A y \in Nat \ S : ~ (<<y, x>> \in R)
  BY <1>1, <1>2, WFMin
<1>5. \A y \in Nat \ S : ~ (y < x)
  BY <1>3, <1>4
<1>6. QED
  BY <1>5

\* A set that has 0 and the successor of each of its numbers has all numbers.
LEMMA SetInduction ==
  ASSUME NEW S, 0 \in S, \A n \in Nat : n \in S => n + 1 \in S
  PROVE  Nat \subseteq S
<1>1. ASSUME NEW n \in Nat, \A i \in Nat : i < n => i \in S PROVE n \in S
  <2>1. CASE n = 0
    BY <2>1
  <2>2. CASE n # 0
    <3>1. n - 1 \in Nat /\ n - 1 < n /\ n - 1 + 1 = n
      BY <2>2
    <3>2. QED
      BY <1>1, <3>1
  <2>3. QED
    BY <2>1, <2>2
<1>2. QED
  BY <1>1, StrongInduction

\* f[x] is base[x] where the recursion stops, and combine[x][f[next[x]]] elsewhere.
Recursive(f, S, stop, base, next, combine) ==
  f = [x \in S |-> IF x \in stop THEN base[x] ELSE combine[x][f[next[x]]]]

\* Each next comes nearer to the end, as m measures it.
Descends(S, stop, next, m) ==
  /\ next \in [S -> S] /\ m \in [S -> Nat]
  /\ \A x \in S \ stop : m[next[x]] < m[x]

\* What descends to an end has a value.
LEMMA RecursionExists ==
  ASSUME NEW S, NEW V, NEW stop, NEW base \in [S -> V], NEW next, NEW combine \in [S -> [V -> V]],
         NEW m, Descends(S, stop, next, m)
  PROVE  \E f \in [S -> V] : Recursive(f, S, stop, base, next, combine)
<1> DEFINE Body(f, x) == IF x \in stop THEN base[x] ELSE combine[x][f[next[x]]]
           UpTo(n) == {x \in S : m[x] <= n}
           T == {n \in Nat : \E f : f = [x \in UpTo(n) |-> Body(f, x)]}
<1>1. next \in [S -> S] /\ m \in [S -> Nat] /\ \A x \in S \ stop : m[next[x]] < m[x]
  BY DEF Descends
<1>2. 0 \in T
  <2> DEFINE f == [x \in UpTo(0) |-> base[x]]
  <2>1. \A x \in UpTo(0) : x \in stop
    BY <1>1
  <2>2. f = [x \in UpTo(0) |-> Body(f, x)]
    BY <2>1
  <2> HIDE DEF f, UpTo, Body
  <2>3. QED
    BY <2>2
<1>3. ASSUME NEW n \in T PROVE n + 1 \in T
  <2>1. PICK f : f = [x \in UpTo(n) |-> Body(f, x)]
    OBVIOUS
  <2> DEFINE g == [x \in UpTo(n + 1) |-> Body(f, x)]
  <2> n \in Nat
    OBVIOUS
  <2> HIDE DEF T
  <2>2. ASSUME NEW x \in UpTo(n) PROVE g[x] = f[x]
    <3>1. x \in UpTo(n + 1)
      BY <1>1
    <3>2. g[x] = Body(f, x)
      BY <3>1
    <3> HIDE DEF g, UpTo, Body
    <3>3. QED
      BY <2>1, <3>2
  <2> HIDE DEF g
  <2>3. ASSUME NEW x \in UpTo(n + 1) PROVE Body(g, x) = Body(f, x)
    <3>1. CASE x \in stop
      BY <3>1
    <3>2. CASE x \notin stop
      <4>1. next[x] \in UpTo(n)
        BY <1>1, <3>2
      <4>2. QED
        BY <2>2, <3>2, <4>1
    <3>3. QED
      BY <3>1, <3>2
  <2>4. g = [x \in UpTo(n + 1) |-> Body(g, x)]
    BY <2>3 DEF g
  <2> HIDE DEF UpTo, Body
  <2>5. QED
    BY <2>4 DEF T
<1>4. Nat \subseteq T
  BY <1>2, <1>3, SetInduction
<1> DEFINE F(n) == CHOOSE f : f = [x \in UpTo(n) |-> Body(f, x)]
<1>5. ASSUME NEW n \in Nat PROVE F(n) = [x \in UpTo(n) |-> Body(F(n), x)]
  <2>1. \E f : f = [x \in UpTo(n) |-> Body(f, x)]
    BY <1>4
  <2> HIDE DEF UpTo, Body
  <2>2. QED
    BY <2>1
<1> HIDE DEF F, T
\* The functions agree where they are both defined.
<1>6. ASSUME NEW k \in Nat
      PROVE  \A n \in Nat : n <= k => \A x \in UpTo(n) : F(n)[x] = F(k)[x]
  <2> DEFINE A == {n \in Nat : n <= k => \A x \in UpTo(n) : F(n)[x] = F(k)[x]}
  <2>1. ASSUME NEW n \in Nat, n <= k, NEW x \in UpTo(n), x \in stop PROVE F(n)[x] = F(k)[x]
    <3>1. x \in UpTo(k)
      BY <1>1, <2>1
    <3>2. F(n)[x] = Body(F(n), x) /\ F(k)[x] = Body(F(k), x)
      <4> HIDE DEF UpTo, Body
      <4>1. QED
        BY <1>5, <3>1
    <3>3. QED
      BY <2>1, <3>2
  <2>2. ASSUME NEW n \in Nat, n <= k, NEW x \in UpTo(n), x \notin stop,
               F(n)[next[x]] = F(k)[next[x]]
        PROVE  F(n)[x] = F(k)[x]
    <3>1. x \in UpTo(k)
      BY <1>1, <2>2
    <3>2. F(n)[x] = Body(F(n), x) /\ F(k)[x] = Body(F(k), x)
      <4> HIDE DEF UpTo, Body
      <4>1. QED
        BY <1>5, <3>1
    <3>3. QED
      BY <2>2, <3>2
  <2>3. ASSUME NEW n \in Nat, n <= k
        PROVE  \A j \in Nat : \A x \in UpTo(n) : m[x] <= j => F(n)[x] = F(k)[x]
    <3> DEFINE J == {j \in Nat : \A x \in UpTo(n) : m[x] <= j => F(n)[x] = F(k)[x]}
    <3>1. 0 \in J
      <4>1. \A x \in UpTo(n) : m[x] <= 0 => x \in stop
        BY <1>1
      <4>2. QED
        BY <2>1, <2>3, <4>1
    <3>2. ASSUME NEW j \in Nat, j \in J PROVE j + 1 \in J
      <4>1. SUFFICES ASSUME NEW x \in UpTo(n), m[x] <= j + 1 PROVE F(n)[x] = F(k)[x]
        OBVIOUS
      <4>2. CASE x \in stop
        BY <2>1, <2>3, <4>2
      <4>3. CASE x \notin stop
        <5>1. next[x] \in UpTo(n) /\ m[next[x]] <= j
          BY <1>1, <4>1, <4>3
        <5>2. F(n)[next[x]] = F(k)[next[x]]
          BY <3>2, <5>1
        <5>3. QED
          BY <2>2, <2>3, <4>3, <5>2
      <4>4. QED
        BY <4>2, <4>3
    <3>3. Nat \subseteq J
      <4> HIDE DEF J
      <4>1. QED
        BY <3>1, <3>2, SetInduction
    <3>4. QED
      BY <3>3
  <2>4. QED
    <3>1. SUFFICES ASSUME NEW n \in Nat, n <= k, NEW x \in UpTo(n) PROVE F(n)[x] = F(k)[x]
      OBVIOUS
    <3>2. m[x] \in Nat /\ m[x] <= m[x]
      BY <1>1
    <3>3. QED
      BY <2>3, <3>1, <3>2
<1> DEFINE f == [x \in S |-> F(m[x])[x]]
<1>7. ASSUME NEW x \in S PROVE f[x] = Body(f, x)
  <2>1. m[x] \in Nat /\ x \in UpTo(m[x])
    BY <1>1
  <2>2. f[x] = Body(F(m[x]), x)
    <3> HIDE DEF UpTo, Body
    <3>1. QED
      BY <1>5, <2>1
  <2>3. CASE x \in stop
    BY <2>2, <2>3
  <2>4. CASE x \notin stop
    <3>1. next[x] \in S /\ m[next[x]] \in Nat /\ m[next[x]] <= m[x] /\ next[x] \in UpTo(m[next[x]])
      BY <1>1, <2>4
    <3>2. F(m[next[x]])[next[x]] = F(m[x])[next[x]]
      BY <1>6, <2>1, <3>1
    <3>3. f[next[x]] = F(m[x])[next[x]]
      BY <3>1, <3>2
    <3> HIDE DEF f
    <3>4. QED
      BY <2>2, <2>4, <3>3
  <2>5. QED
    BY <2>3, <2>4
<1>8. f = [x \in S |-> Body(f, x)]
  BY <1>7
<1>9. ASSUME NEW x \in S, f[next[x]] \in V \/ x \in stop PROVE f[x] \in V
  <2> HIDE DEF f
  <2>1. x \in stop => f[x] = base[x]
    BY <1>7
  <2>2. x \notin stop => f[x] = combine[x][f[next[x]]]
    BY <1>7
  <2>3. QED
    BY <1>9, <2>1, <2>2
<1> HIDE DEF f
<1>10. ASSUME NEW x \in S PROVE f[x] \in V
  <2> DEFINE J == {j \in Nat : \A y \in S : m[y] <= j => f[y] \in V}
  <2>1. 0 \in J
    <3>1. \A y \in S : m[y] <= 0 => y \in stop
      BY <1>1
    <3>2. QED
      BY <1>9, <3>1
  <2>2. ASSUME NEW j \in Nat, j \in J PROVE j + 1 \in J
    <3>1. ASSUME NEW y \in S, m[y] <= j + 1, y \notin stop PROVE f[next[y]] \in V
      BY <1>1, <2>2, <3>1
    <3>2. QED
      BY <1>9, <3>1
  <2>3. Nat \subseteq J
    <3> HIDE DEF J
    <3>1. QED
      BY <2>1, <2>2, SetInduction
  <2>4. m[x] \in Nat /\ m[x] <= m[x]
    BY <1>1
  <2>5. QED
    BY <2>3, <2>4
<1>11. f \in [S -> V]
  BY <1>8, <1>10
<1>12. QED
  BY <1>8, <1>11 DEF Recursive

-----------------------------------------------------------------------------
(* The keys.                                                               *)

\* What the canopies of every tree rest on.
LEMMA TreesHold == Gather!CanopyAssumption
BY IterationAssumption

\* The branch factor.
LEMMA BranchType == BranchFactor \in Nat /\ BranchFactor >= 2
BY TreesHold DEF Gather!CanopyAssumption

\* Keys of one level are a branch factor apart on the next.
LEMMA BranchTimes ==
  \A x, y \in Nat : x < y => BranchFactor * x + BranchFactor <= BranchFactor * y
<1> DEFINE b == BranchFactor
<1>1. b \in Nat
  BY BranchType
<1> HIDE DEF b
<1>2. SUFFICES ASSUME NEW x \in Nat, NEW y \in Nat, x < y PROVE b * x + b <= b * y
  BY DEF b
<1>3. PICK d \in Nat : y = x + 1 + d
  <2>1. y - x - 1 \in Nat /\ y = x + 1 + (y - x - 1)
    BY <1>2
  <2>2. QED
    BY <2>1
<1>4. b * y = b * x + b + b * d
  BY <1>1, <1>3
<1>5. b * d \in Nat /\ b * x \in Nat
  BY <1>1
<1>6. QED
  BY <1>1, <1>4, <1>5

\* A key and its parent.
LEMMA ParentOf ==
  ASSUME NEW k \in Nat
  PROVE  /\ Gather!ParentKey(k) \in Nat
         /\ BranchFactor * Gather!ParentKey(k) <= k /\ k < BranchFactor * Gather!ParentKey(k) + BranchFactor
<1>1. \A b \in Nat : b > 0 => /\ k \div b \in Nat
                              /\ b * (k \div b) <= k /\ k < b * (k \div b) + b
  OBVIOUS
<1>2. QED
  BY <1>1, BranchType DEF Gather!ParentKey

\* The parent of a child is determined by the child's range.
LEMMA ParentIs ==
  ASSUME NEW k \in Nat, NEW p \in Nat, BranchFactor * p <= k, k < BranchFactor * p + BranchFactor
  PROVE  Gather!ParentKey(k) = p
<1> DEFINE q == Gather!ParentKey(k)
           b == BranchFactor
<1>1. q \in Nat /\ b * q <= k /\ k < b * q + b
  BY ParentOf
<1>2. b \in Nat /\ b >= 2
  BY BranchType
<1> HIDE DEF q, b
<1>3. b * p <= k /\ k < b * p + b
  BY DEF b
<1>4. \A x, y \in Nat : x < y => b * x + b <= b * y
  BY BranchTimes DEF b
<1>5. b * p \in Nat /\ b * q \in Nat
  BY <1>1, <1>2
<1>6. ~ (p < q) /\ ~ (q < p)
  <2>1. p < q => b * p + b <= b * q
    BY <1>1, <1>4
  <2>2. q < p => b * q + b <= b * p
    BY <1>1, <1>4
  <2>3. QED
    BY <1>1, <1>2, <1>3, <1>5, <2>1, <2>2
<1>7. p = q
  BY <1>1, <1>6
<1>8. QED
  BY <1>7 DEF q

\* A parent is less than its child.
LEMMA ParentLess ==
  ASSUME NEW k \in Nat
  PROVE  k # 0 => Gather!ParentKey(k) < k
<1> DEFINE q == Gather!ParentKey(k)
           b == BranchFactor
<1>1. q \in Nat /\ b * q <= k
  BY ParentOf
<1>2. b \in Nat /\ b >= 2
  BY BranchType
<1> HIDE DEF q, b
<1>3. b * q >= 2 * q
  <2>1. PICK d \in Nat : b = 2 + d
    <3>1. b - 2 \in Nat /\ b = 2 + (b - 2)
      BY <1>2
    <3>2. QED
      BY <3>1
  <2>2. b * q = 2 * q + d * q /\ d * q \in Nat
    BY <1>1, <2>1
  <2>3. QED
    BY <1>1, <2>2
<1>4. b * q \in Nat
  BY <1>1, <1>2
<1>5. k # 0 => q < k
  BY <1>1, <1>3, <1>4
<1>6. QED
  BY <1>5 DEF q

\* The children of a key are the keys it is the parent of.
LEMMA ChildrenOf ==
  ASSUME NEW p \in Nat
  PROVE  /\ Gather!ChildKeys(p) \subseteq Nat
         /\ \A c \in Nat : c \in Gather!ChildKeys(p) <=> Gather!ParentKey(c) = p
         /\ IsFiniteSet(Gather!ChildKeys(p)) /\ Cardinality(Gather!ChildKeys(p)) = BranchFactor
<1> DEFINE b == BranchFactor
           lo == p * b
<1>1. b \in Nat /\ b >= 2
  BY BranchType
<1>2. Gather!ChildKeys(p) = lo .. lo + b - 1
  BY DEF Gather!ChildKeys
<1>3. lo = b * p /\ lo \in Nat
  BY <1>1
<1>4. ASSUME NEW c \in Nat PROVE c \in Gather!ChildKeys(p) <=> Gather!ParentKey(c) = p
  <2>1. Gather!ParentKey(c) = p => lo <= c /\ c < lo + b
    BY <1>3, ParentOf
  <2>2. lo <= c /\ c < lo + b => Gather!ParentKey(c) = p
    BY <1>3, ParentIs
  <2> HIDE DEF lo, b
  <2>3. c \in Gather!ChildKeys(p) <=> lo <= c /\ c < lo + b
    BY <1>1, <1>2, <1>3
  <2>4. QED
    BY <2>1, <2>2, <2>3
<1>5. IsFiniteSet(lo .. lo + b - 1) /\ Cardinality(lo .. lo + b - 1) = b
  <2> HIDE DEF lo, b
  <2> DEFINE hi == lo + b - 1
  <2>1. lo \in Int /\ hi \in Int /\ ~ (lo > hi) /\ hi - lo + 1 = b
    BY <1>1, <1>3
  <2> HIDE DEF hi
  <2>2. IsFiniteSet(lo .. hi) /\ Cardinality(lo .. hi) = hi - lo + 1
    BY <2>1, FS_Interval
  <2>3. QED
    BY <2>1, <2>2 DEF hi
<1>6. Gather!ChildKeys(p) \subseteq Nat
  <2> HIDE DEF lo, b
  <2>1. QED
    BY <1>2, <1>3
<1> HIDE DEF lo
<1>7. QED
  BY <1>2, <1>4, <1>5, <1>6

\* The first keys have no parent.
LEMMA ParentZero ==
  ASSUME NEW k \in Nat
  PROVE  k < BranchFactor => Gather!ParentKey(k) = 0
<1>1. BranchFactor * 0 = 0
  BY BranchType
<1>2. QED
  BY <1>1, BranchType, ParentIs

\* The recursion of Ancestors.
LEMMA AncestorsStep ==
  /\ Gather!Ancestors \in [Nat -> SUBSET Nat]
  /\ \A k \in Nat : Gather!Ancestors[k] = IF Gather!ParentKey(k) = 0 THEN {}
                                   ELSE {Gather!ParentKey(k)} \cup Gather!Ancestors[Gather!ParentKey(k)]
<1> DEFINE Is(f) == f = [x \in Nat |-> IF Gather!ParentKey(x) = 0 THEN {}
                                       ELSE {Gather!ParentKey(x)} \cup f[Gather!ParentKey(x)]]
           stop == {x \in Nat : Gather!ParentKey(x) = 0}
           base == [x \in Nat |-> {}]
           next == [x \in Nat |-> Gather!ParentKey(x)]
           combine == [x \in Nat |-> [V \in SUBSET Nat |-> {Gather!ParentKey(x)} \cup V]]
           id == [x \in Nat |-> x]
<1>1. \A x \in Nat : Gather!ParentKey(x) \in Nat /\ (x # 0 => Gather!ParentKey(x) < x)
  BY ParentOf, ParentLess
<1>2. \A x \in Nat : Gather!ParentKey(x) # 0 => x # 0
  BY BranchType, ParentZero
<1>3. Descends(Nat, stop, next, id)
  BY <1>1, <1>2 DEF Descends
<1>4. base \in [Nat -> SUBSET Nat] /\ combine \in [Nat -> [SUBSET Nat -> SUBSET Nat]]
  BY <1>1
<1>5. PICK f \in [Nat -> SUBSET Nat] : Recursive(f, Nat, stop, base, next, combine)
  <2> HIDE DEF stop, base, next, combine, id
  <2>1. QED
    BY <1>3, <1>4, RecursionExists
<1>6. Is(f)
  <2>1. ASSUME NEW x \in Nat, x \notin stop PROVE combine[x][f[next[x]]] = {Gather!ParentKey(x)} \cup f[Gather!ParentKey(x)]
    BY <1>1
  <2>2. QED
    BY <1>5, <2>1 DEF Recursive
<1>7. Is(Gather!Ancestors)
  BY <1>6 DEF Gather!Ancestors
<1>8. \A k \in Nat : Gather!Ancestors[k] = IF Gather!ParentKey(k) = 0 THEN {}
                                   ELSE {Gather!ParentKey(k)} \cup Gather!Ancestors[Gather!ParentKey(k)]
  BY <1>7
<1> DEFINE T == {k \in Nat : Gather!Ancestors[k] \in SUBSET Nat}
<1>9. Nat \subseteq T
  <2>1. ASSUME NEW n \in Nat, \A i \in Nat : i < n => i \in T PROVE n \in T
    <3>1. CASE Gather!ParentKey(n) = 0
      BY <1>8, <3>1
    <3>2. CASE Gather!ParentKey(n) # 0
      <4>1. Gather!ParentKey(n) \in T /\ Gather!ParentKey(n) \in Nat
        BY <1>1, <1>2, <2>1, <3>2
      <4>2. QED
        BY <1>8, <3>2, <4>1
    <3>3. QED
      BY <3>1, <3>2
  <2> HIDE DEF T
  <2>2. QED
    BY <2>1, StrongInduction
<1>10. QED
  BY <1>7, <1>8, <1>9

\* The keys above a key are less.
LEMMA AncestorsLess ==
  ASSUME NEW k \in Nat, NEW a \in Gather!Ancestors[k]
  PROVE  a \in Nat /\ 0 < a /\ a < k
<1> DEFINE T == {n \in Nat : \A x \in Gather!Ancestors[n] : x \in Nat /\ 0 < x /\ x < n}
<1>1. ASSUME NEW n \in Nat, \A i \in Nat : i < n => i \in T PROVE n \in T
  <2>1. CASE Gather!ParentKey(n) = 0
    BY <2>1, AncestorsStep
  <2>2. CASE Gather!ParentKey(n) # 0
    <3>1. Gather!ParentKey(n) \in Nat /\ Gather!ParentKey(n) < n
      <4>1. n # 0
        BY <2>2, BranchType, ParentZero
      <4>2. QED
        BY <4>1, ParentOf, ParentLess
    <3>2. \A x \in Gather!Ancestors[Gather!ParentKey(n)] : x \in Nat /\ 0 < x /\ x < Gather!ParentKey(n)
      BY <1>1, <3>1
    <3>3. Gather!Ancestors[n] = {Gather!ParentKey(n)} \cup Gather!Ancestors[Gather!ParentKey(n)]
      BY <2>2, AncestorsStep
    <3>4. QED
      BY <2>2, <3>1, <3>2, <3>3
  <2>3. QED
    BY <2>1, <2>2
<1>2. Nat \subseteq T
  <2> HIDE DEF T
  <2>1. QED
    BY <1>1, StrongInduction
<1>3. QED
  BY <1>2

\* What is above a key that is above k is above k.
LEMMA AncestorsChain ==
  ASSUME NEW k \in Nat, NEW a \in Gather!Ancestors[k]
  PROVE  /\ Gather!Ancestors[a] \subseteq Gather!Ancestors[k]
         /\ 1 \in Gather!Ancestors[k] => a = 1 \/ 1 \in Gather!Ancestors[a]
         /\ \E c \in Gather!ChildKeys(a) : c = k \/ c \in Gather!Ancestors[k]
<1> DEFINE Good(x, n) ==
             /\ Gather!Ancestors[x] \subseteq Gather!Ancestors[n]
             /\ 1 \in Gather!Ancestors[n] => x = 1 \/ 1 \in Gather!Ancestors[x]
             /\ \E c \in Gather!ChildKeys(x) : c = n \/ c \in Gather!Ancestors[n]
           T == {n \in Nat : \A x \in Gather!Ancestors[n] : Good(x, n)}
<1>1. ASSUME NEW n \in Nat, \A i \in Nat : i < n => i \in T PROVE n \in T
  <2>1. SUFFICES ASSUME NEW x \in Gather!Ancestors[n] PROVE Good(x, n)
    OBVIOUS
  <2> DEFINE p == Gather!ParentKey(n)
  <2>2. p # 0 /\ Gather!Ancestors[n] = {p} \cup Gather!Ancestors[p]
    BY <2>1, AncestorsStep
  <2>3. p \in Nat /\ p < n
    <3>1. n # 0
      BY <2>2, BranchType, ParentZero
    <3>2. QED
      BY <3>1, ParentOf, ParentLess
  <2>4. n \in Gather!ChildKeys(p)
    BY <2>3, ChildrenOf
  <2> HIDE DEF p
  <2>5. CASE x = p
    BY <2>2, <2>4, <2>5
  <2>6. CASE x \in Gather!Ancestors[p]
    <3>1. Good(x, p)
      BY <1>1, <2>3, <2>6
    <3>2. p # 1
      <4>1. 0 < x /\ x < p /\ x \in Nat
        BY <2>3, <2>6, AncestorsLess
      <4>2. QED
        BY <4>1
    <3>3. QED
      BY <2>2, <3>1, <3>2
  <2>7. QED
    BY <2>1, <2>2, <2>5, <2>6
<1>2. Nat \subseteq T
  <2> HIDE DEF T
  <2>1. QED
    BY <1>1, StrongInduction
<1> HIDE DEF Good
<1>3. Good(a, k)
  BY <1>2
<1>4. QED
  BY <1>3 DEF Good

\* What is above a child of a is a and what is above a.
LEMMA ChildAncestors ==
  ASSUME NEW a \in Nat \ {0}, NEW c \in Gather!ChildKeys(a)
  PROVE  c \in Nat \ {0} /\ Gather!ParentKey(c) = a /\ a < c /\ Gather!Ancestors[c] = {a} \cup Gather!Ancestors[a]
<1>1. c \in Nat /\ Gather!ParentKey(c) = a
  BY ChildrenOf
<1>2. c # 0
  BY <1>1, BranchType, ParentZero
<1>3. QED
  BY <1>1, <1>2, AncestorsStep, ParentLess

\* The recursion of SpeaksFor.
LEMMA SpeaksForStep ==
  \A k \in Nat : Gather!SpeaksFor[k] = IF k = 0 \/ k % BranchFactor # 0 THEN {}
                                ELSE {Gather!ParentKey(k)} \cup Gather!SpeaksFor[Gather!ParentKey(k)]
<1> DEFINE Ends(x) == x = 0 \/ x % BranchFactor # 0
           Is(f) == f = [x \in Nat |-> IF Ends(x) THEN {}
                                       ELSE {Gather!ParentKey(x)} \cup f[Gather!ParentKey(x)]]
           stop == {x \in Nat : Ends(x)}
           base == [x \in Nat |-> {}]
           next == [x \in Nat |-> Gather!ParentKey(x)]
           combine == [x \in Nat |-> [V \in SUBSET Nat |-> {Gather!ParentKey(x)} \cup V]]
           id == [x \in Nat |-> x]
<1>1. \A x \in Nat : Gather!ParentKey(x) \in Nat /\ (x # 0 => Gather!ParentKey(x) < x)
  BY ParentOf, ParentLess
<1>2. Descends(Nat, stop, next, id)
  <2>1. \A x \in Nat \ stop : x # 0
    OBVIOUS
  <2>2. QED
    BY <1>1, <2>1 DEF Descends
<1>3. base \in [Nat -> SUBSET Nat] /\ combine \in [Nat -> [SUBSET Nat -> SUBSET Nat]]
  BY <1>1
<1>4. PICK f \in [Nat -> SUBSET Nat] : Recursive(f, Nat, stop, base, next, combine)
  <2> HIDE DEF stop, base, next, combine, id
  <2>1. QED
    BY <1>2, <1>3, RecursionExists
<1>5. Is(f)
  <2> HIDE DEF Ends
  <2>1. ASSUME NEW x \in Nat, x \notin stop PROVE combine[x][f[next[x]]] = {Gather!ParentKey(x)} \cup f[Gather!ParentKey(x)]
    BY <1>1
  <2>2. QED
    BY <1>4, <2>1 DEF Recursive
<1>6. Is(Gather!SpeaksFor)
  BY <1>5 DEF Gather!SpeaksFor
<1>7. QED
  BY <1>6

-----------------------------------------------------------------------------
(* Levels, and the limit of what is collected.                             *)

\* The instance's sets are counted as all sets are.
LEMMA SetsAlike ==
  \A S : Gather!Cardinality(S) = Cardinality(S) /\ Gather!IsFiniteSet(S) = IsFiniteSet(S)
BY DEF Gather!Cardinality, Cardinality, Gather!IsFiniteSet, IsFiniteSet

\* A key is one level below its parent.
LEMMA LevelStep ==
  ASSUME NEW k \in Nat
  PROVE  /\ Gather!Level(k) \in Nat
         /\ Gather!Level(k) = IF Gather!ParentKey(k) = 0 THEN 0 ELSE Gather!Level(Gather!ParentKey(k)) + 1
<1>1. \A j \in Nat : Gather!Level(j) = Cardinality(Gather!Ancestors[j])
  <2>1. \A j \in Nat : Gather!AncestorsOf({j}) = Gather!Ancestors[j]
    BY DEF Gather!AncestorsOf
  <2>2. QED
    BY <2>1, SetsAlike DEF Gather!Level
<1>2. \A j \in Nat : IsFiniteSet(Gather!Ancestors[j])
  <2>1. SUFFICES ASSUME NEW j \in Nat PROVE IsFiniteSet(Gather!Ancestors[j])
    OBVIOUS
  <2>2. Gather!Ancestors[j] \in SUBSET (0 .. j)
    BY AncestorsLess
  <2>3. IsFiniteSet(0 .. j)
    BY FS_Interval
  <2>4. QED
    BY <2>2, <2>3, FS_Subset
<1>3. Gather!Level(k) \in Nat
  BY <1>1, <1>2, FS_CardinalityType
<1>4. Gather!ParentKey(k) = 0 => Gather!Level(k) = 0
  BY <1>1, AncestorsStep, FS_EmptySet
<1>5. Gather!ParentKey(k) # 0 => Gather!Level(k) = Gather!Level(Gather!ParentKey(k)) + 1
  <2> DEFINE p == Gather!ParentKey(k)
  <2>1. p \in Nat
    BY ParentOf
  <2>2. p \notin Gather!Ancestors[p]
    BY <2>1, AncestorsLess
  <2>3. p # 0 => Gather!Ancestors[k] = Gather!Ancestors[p] \cup {p}
    BY AncestorsStep
  <2> HIDE DEF p
  <2>4. Cardinality(Gather!Ancestors[p] \cup {p}) = Cardinality(Gather!Ancestors[p]) + 1
    BY <1>2, <2>1, <2>2, FS_AddElement
  <2>5. p # 0 => Gather!Level(k) = Gather!Level(p) + 1
    BY <1>1, <2>1, <2>3, <2>4
  <2>6. QED
    BY <2>5 DEF p
<1>6. QED
  BY <1>3, <1>4, <1>5

\* The keys below l are on higher levels than the others.
Separates(l) ==
  \A a, k \in Nat \ {0} : a < l /\ l <= k => Gather!Level(a) < Gather!Level(k)

\* So one more level separates too.
LEMMA SeparatesNext ==
  ASSUME NEW l \in Nat \ {0}, Separates(l)
  PROVE  l * BranchFactor \in Nat \ {0} /\ l < l * BranchFactor /\ Separates(l * BranchFactor)
<1> DEFINE b == BranchFactor
<1>1. b \in Nat /\ b >= 2
  BY BranchType
<1>2. \A x, y \in Nat : x < y => b * x + b <= b * y
  BY BranchTimes
<1> HIDE DEF b
<1>3. l * b = b * l /\ b * l \in Nat /\ l < b * l
  <2>1. PICK d \in Nat : b = 2 + d
    <3>1. b - 2 \in Nat /\ b = 2 + (b - 2)
      BY <1>1
    <3>2. QED
      BY <3>1
  <2>2. b * l = 2 * l + d * l /\ d * l \in Nat
    BY <2>1
  <2>3. QED
    BY <1>1, <2>2
<1>4. ASSUME NEW a \in Nat \ {0}, NEW k \in Nat \ {0}, a < b * l, b * l <= k
      PROVE  Gather!Level(a) < Gather!Level(k)
  <2> DEFINE p == Gather!ParentKey(a)
             q == Gather!ParentKey(k)
  <2>1. p \in Nat /\ b * p <= a /\ q \in Nat /\ k < b * q + b
    BY ParentOf DEF b
  <2>2. /\ Gather!Level(a) \in Nat /\ Gather!Level(a) = IF p = 0 THEN 0 ELSE Gather!Level(p) + 1
        /\ Gather!Level(k) \in Nat /\ Gather!Level(k) = IF q = 0 THEN 0 ELSE Gather!Level(q) + 1
        /\ Gather!Level(p) \in Nat /\ Gather!Level(q) \in Nat
    BY <2>1, LevelStep
  <2> HIDE DEF p, q
  <2>3. b * p \in Nat /\ b * q \in Nat
    BY <1>1, <2>1
  <2>4. p < l
    <3>1. SUFFICES ASSUME l <= p PROVE FALSE
      BY <2>1
    <3>2. b * l <= b * p
      BY <1>1, <1>2, <2>1, <2>3, <3>1
    <3>3. QED
      BY <1>3, <1>4, <2>1, <2>3, <3>2
  <2>5. l <= q
    <3>1. SUFFICES ASSUME q < l PROVE FALSE
      BY <2>1
    <3>2. b * q + b <= b * l
      BY <1>2, <2>1, <3>1
    <3>3. QED
      BY <1>1, <1>3, <1>4, <2>1, <2>3, <3>2
  <2>6. CASE p = 0
    BY <2>1, <2>2, <2>5, <2>6
  <2>7. CASE p # 0
    <3>1. Gather!Level(p) < Gather!Level(q)
      BY <2>1, <2>4, <2>5, <2>7 DEF Separates
    <3>2. QED
      BY <2>1, <2>2, <2>5, <2>7, <3>1
  <2>8. QED
    BY <2>6, <2>7
<1>5. Separates(b * l)
  BY <1>4 DEF Separates
<1>6. QED
  BY <1>3, <1>5 DEF b

\* The limit separates levels.
LEMMA LimitSeparates ==
  ASSUME share \in Nat
  PROVE  Gather!CollectLimit \in Nat /\ (Gather!CollectLimit # 0 => Separates(Gather!CollectLimit))
<1> DEFINE want == share * (BranchFactor - 1) + 1
           G[limit \in Nat \ {0}] ==
             IF limit >= want THEN limit ELSE G[limit * BranchFactor]
           Is(f) == f = [limit \in Nat \ {0} |-> IF limit >= want THEN limit
                                                ELSE f[limit * BranchFactor]]
           stop == {l \in Nat \ {0} : l >= want}
           base == [l \in Nat \ {0} |-> l]
           next == [l \in Nat \ {0} |-> l * BranchFactor]
           combine == [l \in Nat \ {0} |-> [v \in Nat \ {0} |-> v]]
           away == [l \in Nat \ {0} |-> IF l >= want THEN 0 ELSE want - l]
<1>1. Gather!CollectLimit = IF share = 0 THEN 0 ELSE G[1]
  BY DEF Gather!CollectLimit
<1>2. want \in Nat
  <2>1. BranchFactor - 1 \in Nat
    BY BranchType
  <2>2. share * (BranchFactor - 1) \in Nat
    BY <2>1
  <2>3. QED
    BY <2>2
<1> HIDE DEF want
<1>3. \A l \in Nat \ {0} : l * BranchFactor \in Nat \ {0} /\ l < l * BranchFactor
  <2> DEFINE b == BranchFactor
  <2>1. b \in Nat /\ b >= 2
    BY BranchType
  <2> HIDE DEF b
  <2>2. PICK d \in Nat : b = 2 + d
    <3>1. b - 2 \in Nat /\ b = 2 + (b - 2)
      BY <2>1
    <3>2. QED
      BY <3>1
  <2>3. \A l \in Nat : l * b = 2 * l + l * d /\ l * d \in Nat
    BY <2>2
  <2>4. QED
    BY <2>3 DEF b
<1>4. Descends(Nat \ {0}, stop, next, away)
  BY <1>2, <1>3 DEF Descends
<1>5. base \in [Nat \ {0} -> Nat \ {0}] /\ combine \in [Nat \ {0} -> [Nat \ {0} -> Nat \ {0}]]
  OBVIOUS
<1>6. PICK f \in [Nat \ {0} -> Nat \ {0}] : Recursive(f, Nat \ {0}, stop, base, next, combine)
  <2> HIDE DEF stop, base, next, combine, away
  <2>1. QED
    BY <1>4, <1>5, RecursionExists
<1>7. Is(f)
  <2>1. ASSUME NEW l \in Nat \ {0}, l \notin stop
        PROVE  combine[l][f[next[l]]] = f[l * BranchFactor]
    BY <1>3
  <2>2. QED
    BY <1>6, <2>1 DEF Recursive
<1>8. Is(G)
  BY <1>7
<1> HIDE DEF G
<1> DEFINE Good(l) == G[l] \in Nat \ {0} /\ (Separates(l) => Separates(G[l]))
           T == {n \in Nat : \A l \in Nat \ {0} : away[l] = n => Good(l)}
<1>9. Nat \subseteq T
  <2>1. ASSUME NEW n \in Nat, \A i \in Nat : i < n => i \in T,
               NEW l \in Nat \ {0}, away[l] = n
        PROVE  Good(l)
    <3>1. CASE l >= want
      BY <1>8, <3>1
    <3>2. CASE ~ (l >= want)
      <4> DEFINE k == l * BranchFactor
      <4>1. k \in Nat \ {0} /\ away[k] \in Nat /\ away[k] < n
        BY <1>2, <1>3, <2>1, <3>2
      <4>2. Separates(l) => Separates(k)
        BY SeparatesNext
      <4>3. G[l] = G[k]
        BY <1>8, <3>2
      <4> HIDE DEF k, away
      <4>4. away[k] \in T
        BY <2>1, <4>1
      <4>5. Good(k)
        BY <4>1, <4>4
      <4>6. QED
        BY <4>2, <4>3, <4>5
    <3>3. QED
      BY <3>1, <3>2
  <2> HIDE DEF Good, away
  <2>2. \A n \in Nat : (\A i \in Nat : i < n => i \in T) => n \in T
    BY <2>1
  <2> HIDE DEF T
  <2>3. QED
    BY <2>2, StrongInduction
<1>10. Good(1)
  <2>1. away[1] \in Nat
    BY <1>2
  <2> HIDE DEF Good, away
  <2>2. QED
    BY <1>9, <2>1
<1>11. Separates(1)
  BY DEF Separates
<1>12. QED
  BY <1>1, <1>10, <1>11

-----------------------------------------------------------------------------
(* Trees.                                                                  *)

\* A finite set of numbers has a bound.
LEMMA FiniteBound ==
  ASSUME NEW S \in SUBSET Nat, IsFiniteSet(S)
  PROVE  \E b \in Nat : \A x \in S : x <= b
<1> DEFINE T == {n \in Nat : \A R \in SUBSET S : Cardinality(R) = n => \E b \in Nat : \A x \in R : x <= b}
<1>1. \A R \in SUBSET S : IsFiniteSet(R) /\ Cardinality(R) \in Nat
  BY FS_Subset, FS_CardinalityType
<1>2. 0 \in T
  <2>1. \A R \in SUBSET S : Cardinality(R) = 0 => R = {}
    BY <1>1, FS_EmptySet
  <2>2. QED
    BY <2>1
<1>3. ASSUME NEW n \in Nat, n \in T PROVE n + 1 \in T
  <2>1. SUFFICES ASSUME NEW R \in SUBSET S, Cardinality(R) = n + 1
                 PROVE  \E b \in Nat : \A x \in R : x <= b
    OBVIOUS
  <2>2. PICK y \in R : TRUE
    <3>1. Cardinality({}) = 0 /\ n + 1 # 0
      BY FS_EmptySet
    <3>2. R # {}
      <4> HIDE DEF T
      <4>1. QED
        BY <2>1, <3>1
    <3>3. QED
      BY <3>2
  <2>3. Cardinality(R \ {y}) = n
    <3>1. Cardinality(R \ {y}) = Cardinality(R) - 1
      BY <1>1, FS_RemoveElement
    <3>2. QED
      BY <2>1, <3>1
  <2>4. PICK b \in Nat : \A x \in R \ {y} : x <= b
    BY <1>3, <2>3
  <2> DEFINE c == IF y <= b THEN b ELSE y
  <2>5. c \in Nat /\ \A x \in R : x <= c
    BY <2>4
  <2> HIDE DEF c
  <2>6. QED
    BY <2>5
<1>4. Nat \subseteq T
  <2> HIDE DEF T
  <2>1. QED
    BY <1>2, <1>3, SetInduction
<1>5. QED
  BY <1>1, <1>4

\* The keys of a tree.
KeysOf(K) == K \cup Gather!AncestorsOf(K)

\* A tree is a finite set of keys below its root; a canopy has all its children and
\* every key but the root has its parent.
LEMMA TreeKeys ==
  ASSUME NEW K \in Decompositions
  PROVE  /\ K # {} /\ KeysOf(K) \subseteq Nat \ {0} /\ Gather!AncestorsOf(K) \cap K = {}
         /\ \A a \in Gather!AncestorsOf(K) : Gather!ChildKeys(a) \subseteq KeysOf(K)
         /\ \A k \in KeysOf(K) : k = 1 \/ (Gather!ParentKey(k) # 0 /\ Gather!ParentKey(k) \in Gather!AncestorsOf(K))
         /\ \E b \in Nat : \A k \in KeysOf(K) : k <= b
         /\ KeysOf(K) \subseteq Gather!Elements
<1>1. /\ K # {} /\ K \subseteq Nat \ {0} /\ IsFiniteSet(K)
      /\ \A k \in K : k = 1 \/ 1 \in Gather!Ancestors[k]
      /\ Gather!AncestorsOf(K) \cap K = {}
      /\ \A a \in Gather!AncestorsOf(K) : Gather!ChildKeys(a) \subseteq KeysOf(K)
  BY TreesHold, SetsAlike DEF Gather!CanopyAssumption, KeysOf
<1>2. \A a : a \in Gather!AncestorsOf(K) <=> \E k \in K : a \in Gather!Ancestors[k]
  BY DEF Gather!AncestorsOf
<1>3. \A a \in Gather!AncestorsOf(K) : a \in Nat \ {0}
  BY <1>1, <1>2, AncestorsLess
<1>4. ASSUME NEW k \in Nat \ {0}, 1 \in Gather!Ancestors[k]
      PROVE  Gather!ParentKey(k) # 0 /\ Gather!ParentKey(k) \in Gather!Ancestors[k]
  BY <1>4, AncestorsStep
<1>5. ASSUME NEW k \in KeysOf(K), k # 1
      PROVE  Gather!ParentKey(k) # 0 /\ Gather!ParentKey(k) \in Gather!AncestorsOf(K)
  <2>1. CASE k \in K
    BY <1>1, <1>2, <1>4, <1>5, <2>1
  <2>2. CASE k \in Gather!AncestorsOf(K)
    <3>1. PICK t \in K : k \in Gather!Ancestors[t]
      BY <1>2, <2>2
    <3>2. t \in Nat \ {0}
      BY <1>1
    <3>3. t # 1
      BY <1>3, <2>2, <3>1, <3>2, AncestorsLess
    <3>4. 1 \in Gather!Ancestors[k] /\ Gather!Ancestors[k] \subseteq Gather!Ancestors[t]
      BY <1>1, <1>5, <3>1, <3>2, <3>3, AncestorsChain
    <3>5. QED
      BY <1>2, <1>3, <1>4, <2>2, <3>4
  <2>3. QED
    BY <2>1, <2>2 DEF KeysOf
<1>6. \E b \in Nat : \A k \in KeysOf(K) : k <= b
  <2>1. PICK b \in Nat : \A k \in K : k <= b
    BY <1>1, FiniteBound
  <2>2. ASSUME NEW a \in Gather!AncestorsOf(K) PROVE a <= b
    <3>1. PICK t \in K : a \in Gather!Ancestors[t]
      BY <1>2
    <3>2. t \in Nat /\ t <= b /\ a \in Nat /\ a < t
      BY <1>1, <2>1, <3>1, AncestorsLess
    <3>3. QED
      BY <3>2
  <2>3. QED
    BY <2>1, <2>2 DEF KeysOf
<1>7. KeysOf(K) \subseteq Gather!Elements
  BY DEF KeysOf, Gather!Elements
<1>8. QED
  BY <1>1, <1>3, <1>5, <1>6, <1>7 DEF KeysOf

\* Every canopy is spoken for by a piece below it, and by no other.
LEMMA FirstLeaves ==
  ASSUME NEW K \in Decompositions
  PROVE  /\ \A k \in K : Gather!SpeaksFor[k] \subseteq Gather!AncestorsOf(K)
         /\ \A a \in Gather!AncestorsOf(K) : \E k \in K : a \in Gather!SpeaksFor[k]
<1> DEFINE b == BranchFactor
<1>1. b \in Nat /\ b >= 2
  BY BranchType
<1> HIDE DEF b
<1>2. \A k \in Nat : k # 0 /\ k % b = 0 => Gather!ParentKey(k) # 0 /\ Gather!ParentKey(k) \in Nat /\ Gather!ParentKey(k) < k
  <2>1. \A c, k \in Nat : c > 0 => k % c = k - c * (k \div c)
    BY SMTT(30)
  <2>2. SUFFICES ASSUME NEW k \in Nat, k # 0, k % b = 0 PROVE Gather!ParentKey(k) # 0
    BY ParentOf, ParentLess
  <2>3. 0 = k - b * Gather!ParentKey(k)
    BY <1>1, <2>1, <2>2 DEF Gather!ParentKey, b
  <2>4. b * 0 = 0
    BY <1>1
  <2>5. QED
    BY <2>2, <2>3, <2>4
<1>3. \A k \in Nat : Gather!SpeaksFor[k] = IF k = 0 \/ k % b # 0 THEN {}
                                  ELSE {Gather!ParentKey(k)} \cup Gather!SpeaksFor[Gather!ParentKey(k)]
  BY SpeaksForStep DEF b
<1> DEFINE T == {k \in Nat : Gather!SpeaksFor[k] \subseteq Gather!Ancestors[k]}
<1>4. Nat \subseteq T
  <2>1. ASSUME NEW n \in Nat, \A i \in Nat : i < n => i \in T PROVE n \in T
    <3>1. CASE n = 0 \/ n % b # 0
      BY <1>3, <3>1
    <3>2. CASE ~ (n = 0 \/ n % b # 0)
      <4>1. Gather!ParentKey(n) # 0 /\ Gather!ParentKey(n) \in T
        BY <1>2, <2>1, <3>2
      <4>2. Gather!SpeaksFor[n] = {Gather!ParentKey(n)} \cup Gather!SpeaksFor[Gather!ParentKey(n)]
        BY <1>3, <3>2
      <4>3. Gather!Ancestors[n] = {Gather!ParentKey(n)} \cup Gather!Ancestors[Gather!ParentKey(n)]
        BY <4>1, AncestorsStep
      <4>4. QED
        BY <4>1, <4>2, <4>3
    <3>3. QED
      BY <3>1, <3>2
  <2> HIDE DEF T
  <2>2. QED
    BY <2>1, StrongInduction
<1>5. \A k \in K : Gather!SpeaksFor[k] \subseteq Gather!AncestorsOf(K)
  <2>1. \A k \in K : k \in Nat
    BY TreeKeys DEF KeysOf
  <2>2. QED
    BY <1>4, <2>1 DEF Gather!AncestorsOf
<1>6. ASSUME NEW a \in Gather!AncestorsOf(K) PROVE \E k \in K : a \in Gather!SpeaksFor[k]
  <2>1. SUFFICES ASSUME \A k \in K : a \notin Gather!SpeaksFor[k] PROVE FALSE
    OBVIOUS
  <2>2. /\ KeysOf(K) \subseteq Nat \ {0} /\ Gather!AncestorsOf(K) \cap K = {}
        /\ \A x \in Gather!AncestorsOf(K) : Gather!ChildKeys(x) \subseteq KeysOf(K)
    BY TreeKeys
  <2>3. PICK top \in Nat : \A k \in KeysOf(K) : k <= top
    BY TreeKeys
  <2> DEFINE F == {x \in KeysOf(K) : x = a \/ a \in Gather!SpeaksFor[x]}
  <2>4. ASSUME NEW x \in F PROVE x * b \in F /\ x < x * b
    <3>1. x \in Gather!AncestorsOf(K) /\ x \in Nat \ {0}
      BY <2>1, <2>2 DEF KeysOf
    <3>2. x * b \in Gather!ChildKeys(x)
      <4>1. x * b \in Nat
        BY <1>1, <3>1
      <4>2. Gather!ChildKeys(x) = x * b .. x * b + b - 1
        BY DEF Gather!ChildKeys, b
      <4>3. QED
        BY <1>1, <4>1, <4>2
    <3>3. x * b \in Nat \ {0} /\ Gather!ParentKey(x * b) = x /\ x < x * b
      BY <3>1, <3>2, ChildAncestors
    <3>4. (x * b) % b = 0
      <4>1. \A c, k \in Nat : c > 0 => k % c = k - c * (k \div c)
        BY SMTT(30)
      <4>2. (x * b) \div b = x
        BY <3>3 DEF Gather!ParentKey, b
      <4>3. (x * b) % b = x * b - b * x
        BY <1>1, <3>3, <4>1, <4>2
      <4>4. x * b = b * x
        BY <1>1, <3>1
      <4>5. QED
        BY <3>3, <4>3, <4>4
    <3>5. Gather!SpeaksFor[x * b] = {x} \cup Gather!SpeaksFor[x]
      BY <1>3, <3>3, <3>4
    <3>6. x * b \in KeysOf(K)
      BY <2>2, <3>1, <3>2
    <3>7. QED
      BY <3>3, <3>5, <3>6
  <2>5. a \in F
    BY DEF KeysOf
  <2>6. \A x \in F : x \in Nat /\ x <= top
    BY <2>2, <2>3
  <2> HIDE DEF F
  <2>7. \A n \in Nat : \E x \in F : x >= n
    <3> DEFINE U == {n \in Nat : \E x \in F : x >= n}
    <3>1. 0 \in U
      BY <2>5, <2>6
    <3>2. ASSUME NEW n \in Nat, n \in U PROVE n + 1 \in U
      <4>1. PICK x \in F : x >= n
        BY <3>2
      <4>2. x * b \in F /\ x < x * b /\ x \in Nat /\ x * b \in Nat
        BY <2>4, <2>6
      <4>3. x * b >= n + 1
        BY <4>1, <4>2
      <4>4. QED
        BY <4>2, <4>3
    <3>3. Nat \subseteq U
      <4> HIDE DEF U
      <4>1. QED
        BY <3>1, <3>2, SetInduction
    <3>4. QED
      BY <3>3
  <2>8. PICK x \in F : x >= top + 1
    BY <2>7
  <2>9. QED
    BY <2>6, <2>8
<1>7. QED
  BY <1>5, <1>6
-----------------------------------------------------------------------------
\* The inductive invariant of the sums.

Tree == pieces \cup Gather!Canopies
Data == SUBSET (Nat \X Nat)

\* What c contributes in this round.
Share(c) == IF c \in pieces THEN {<<c, round>>} ELSE Gather!Fresh(c)

\* Canopy k has its sum; c, a piece or a canopy, has contributed; and the children
\* whose contribution k has added.
Summed(k) == my_sn[k] = Gather!Fresh(k) /\ recv_count[k] = 0
Sent(c) == IF c \in pieces THEN c \notin toSend ELSE Summed(c)
Heard(k) == {c \in Gather!ChildKeys(k) : Sent(c) /\ \A m \in contributions : m.from # c}

\* Elements of other trees hold data and counts too.
TypeInv ==
  /\ share \in {s.share : s \in Scenarios}
  /\ pieces \in Decompositions \cup {{}} /\ toSend \subseteq pieces
  /\ tp_index \in [Gather!Elements -> Int] /\ \A k \in Gather!Elements : tp_index[k] \in {k, -1, Gather!Unset}
  /\ my_sn \in [Gather!Elements -> Data]
  /\ recv_count \in [Gather!Elements -> 0 .. BranchFactor - 1]
  /\ proxies \subseteq [to : Tree, tp : Int]
  /\ contributions \subseteq [to : Gather!Canopies, from : Tree, data : Data]
  /\ reports \subseteq [key : Gather!Canopies, data : Data]
  /\ storage \in Seq([key : Nat \ {0}, data : Data])
  /\ storage_sorted \in BOOLEAN /\ built \in BOOLEAN /\ waiting \in BOOLEAN
  /\ round \in 0 .. Rounds /\ canopyIter \in 0 .. CanopyIterations

\* The driver waits for the places or for the sums, or for nothing.
PhaseInv ==
  /\ ~ waiting => toSend = {} /\ proxies = {} /\ contributions = {} /\ reports = {}
  /\ waiting /\ ~ built => toSend = {} /\ contributions = {} /\ reports = {}
  /\ built => pieces # {} /\ proxies = {}

\* An element that does not know its place is about to be told, and nobody is told
\* another.
PlaceOf(k) == IF k \in pieces THEN k ELSE -1
PlaceInv ==
  /\ \A m \in proxies : m.tp = PlaceOf(m.to)
  /\ \A k \in Tree : tp_index[k] = PlaceOf(k) \/ [to |-> k, tp |-> PlaceOf(k)] \in proxies

\* Only a canopy of the tree, in mid-round, has a count; and no data is of a round
\* to come.
CountInv ==
  /\ \A k \in Gather!Elements : recv_count[k] # 0 => waiting /\ built /\ k \in Gather!Canopies
  /\ \A k \in Gather!Elements : \A d \in my_sn[k] : d[2] <= round

\* A contribution comes from who has sent it; a canopy without its sum has counted
\* and added the contributions it has heard, one with its sum has heard all.
SumInv ==
  built =>
    /\ \A m \in contributions :
         /\ m.from # 1 /\ m.to = Gather!ParentKey(m.from)
         /\ m.data = Share(m.from) /\ Sent(m.from)
    /\ \A k \in Gather!Canopies :
         /\ Summed(k) => Heard(k) = Gather!ChildKeys(k)
         /\ ~ Summed(k) => recv_count[k] = Cardinality(Heard(k))
         /\ ~ Summed(k) /\ recv_count[k] # 0 => my_sn[k] = UNION {Share(c) : c \in Heard(k)}

\* A canopy that reports has reported its sum: the report is under way or the newest
\* of its key; the driver has no others.
ReportOf(k) == [key |-> k, data |-> Gather!Fresh(k)]
Reported(k) == \E i \in DOMAIN storage : Gather!Newest(i) /\ storage[i] = ReportOf(k)
ReportInv ==
  built =>
    /\ \A m \in reports : Gather!Collected(m.key) /\ Summed(m.key) /\ m = ReportOf(m.key)
    /\ \A i \in DOMAIN storage : storage[i].key \in Gather!Canopies /\ Gather!Collected(storage[i].key)
    /\ \A k \in Gather!Canopies : Gather!Collected(k) /\ Summed(k) => ReportOf(k) \in reports \/ Reported(k)

\* A pack is the beginning of the sorted storage of a round that is over.
Increasing(s) == \A i, j \in DOMAIN s : i < j => s[i].key < s[j].key
PackInv ==
  /\ storage_sorted => Increasing(storage)
  /\ pack # << >> =>
       /\ built /\ ~ waiting /\ storage_sorted
       /\ pack = SubSeq(storage, 1, IF share > 0 /\ share < Len(storage) THEN share ELSE Len(storage))

GatherInv ==
  TypeInv /\ PhaseInv /\ PlaceInv /\ CountInv /\ SumInv /\ ReportInv /\ PackInv

-----------------------------------------------------------------------------
(* Sums.                                                                   *)

\* What a canopy holds when all is summed.
LEMMA FreshIs ==
  ASSUME NEW k
  PROVE  \A d : d \in Gather!Fresh(k) <=> \E t \in pieces : k \in Gather!Ancestors[t] /\ d = <<t, round>>
<1>1. \A t : Gather!AncestorsOf({t}) = Gather!Ancestors[t]
  BY DEF Gather!AncestorsOf
<1>2. Gather!PiecesBelow(k) = {t \in pieces : k \in Gather!Ancestors[t]}
  BY <1>1 DEF Gather!PiecesBelow
<1>3. QED
  BY <1>2 DEF Gather!Fresh

\* Its children's shares, one of which is not empty.
LEMMA FreshSplit ==
  ASSUME pieces \in Decompositions, NEW k \in Gather!Canopies
  PROVE  Gather!Fresh(k) = UNION {Share(c) : c \in Gather!ChildKeys(k)} /\ Gather!Fresh(k) # {}
<1>1. /\ k \in Nat \ {0} /\ pieces \subseteq Nat \ {0} /\ Gather!Canopies \cap pieces = {}
  BY TreeKeys DEF Gather!Canopies, KeysOf
<1>2. \A a, t : t \in pieces /\ a \in Gather!Ancestors[t] => a \in Gather!Canopies
  BY DEF Gather!Canopies, Gather!AncestorsOf
<1>3. ASSUME NEW d \in Gather!Fresh(k) PROVE \E c \in Gather!ChildKeys(k) : d \in Share(c)
  <2>1. PICK t \in pieces : k \in Gather!Ancestors[t] /\ d = <<t, round>>
    BY FreshIs
  <2>2. PICK c \in Gather!ChildKeys(k) : c = t \/ c \in Gather!Ancestors[t]
    BY <1>1, <2>1, AncestorsChain
  <2>3. CASE c = t
    BY <2>1, <2>2, <2>3 DEF Share
  <2>4. CASE c \in Gather!Ancestors[t]
    <3>1. c \notin pieces
      BY <1>1, <1>2, <2>4
    <3>2. d \in Gather!Fresh(c)
      BY <2>1, <2>4, FreshIs
    <3>3. QED
      BY <3>1, <3>2 DEF Share
  <2>5. QED
    BY <2>2, <2>3, <2>4
<1>4. ASSUME NEW c \in Gather!ChildKeys(k), NEW d \in Share(c) PROVE d \in Gather!Fresh(k)
  <2>1. c \in Nat /\ Gather!Ancestors[c] = {k} \cup Gather!Ancestors[k]
    BY <1>1, ChildAncestors
  <2>2. CASE c \in pieces
    <3>1. d = <<c, round>>
      BY <1>4, <2>2 DEF Share
    <3>2. QED
      BY <2>1, <2>2, <3>1, FreshIs
  <2>3. CASE c \notin pieces
    <3>1. PICK t \in pieces : c \in Gather!Ancestors[t] /\ d = <<t, round>>
      BY <1>4, <2>3, FreshIs DEF Share
    <3>2. Gather!Ancestors[c] \subseteq Gather!Ancestors[t]
      BY <1>1, <3>1, AncestorsChain
    <3>3. QED
      BY <2>1, <3>1, <3>2, FreshIs
  <2>4. QED
    BY <2>2, <2>3
<1>5. Gather!Fresh(k) # {}
  <2>1. PICK t \in pieces : k \in Gather!Ancestors[t]
    BY DEF Gather!Canopies, Gather!AncestorsOf
  <2>2. <<t, round>> \in Gather!Fresh(k)
    BY <2>1, FreshIs
  <2>3. QED
    BY <2>2
<1>6. QED
  BY <1>3, <1>4, <1>5

\* The data of a round.
LEMMA ShareType ==
  ASSUME pieces \subseteq Nat, round \in Nat, NEW c
  PROVE  Share(c) \in Data /\ Gather!Fresh(c) \in Data /\ \A d \in Share(c) : d[2] = round
<1>1. Gather!Fresh(c) \subseteq Nat \X Nat /\ \A d \in Gather!Fresh(c) : d[2] = round
  <2>1. SUFFICES ASSUME NEW d \in Gather!Fresh(c) PROVE d \in Nat \X Nat /\ d[2] = round
    OBVIOUS
  <2>2. PICK t \in pieces : d = <<t, round>>
    BY FreshIs
  <2>3. QED
    BY <2>2
<1>2. c \in pieces => Share(c) \subseteq Nat \X Nat /\ \A d \in Share(c) : d[2] = round
  BY DEF Share
<1>3. c \notin pieces => Share(c) = Gather!Fresh(c)
  BY DEF Share
<1>4. QED
  BY <1>1, <1>2, <1>3 DEF Data

-----------------------------------------------------------------------------
(* The sorted storage.                                                     *)

\* How many of N come no later than m, by their keys.
PlaceIn(N, key, m) == Cardinality({n \in N : key[n] <= key[m]})

\* What has different keys has the places from 1 on, in the order of the keys.
LEMMA PlacesSort ==
  ASSUME NEW N, IsFiniteSet(N), NEW key, \A m \in N : key[m] \in Nat,
         \A m, n \in N : key[m] = key[n] => m = n
  PROVE  /\ Cardinality(N) \in Nat
         /\ \A m \in N : PlaceIn(N, key, m) \in 1 .. Cardinality(N)
         /\ \A i \in 1 .. Cardinality(N) : \E m \in N : PlaceIn(N, key, m) = i
         /\ \A m, n \in N : PlaceIn(N, key, m) = PlaceIn(N, key, n) => m = n
         /\ \A m, n \in N : PlaceIn(N, key, m) < PlaceIn(N, key, n) => key[m] < key[n]
<1> DEFINE Below(m) == {n \in N : key[n] <= key[m]}
           place(m) == PlaceIn(N, key, m)
           p == [m \in N |-> place(m)]
           I == 1 .. Cardinality(N)
<1>1. Cardinality(N) \in Nat
  BY FS_CardinalityType
<1>2. \A m \in N : Below(m) \in SUBSET N /\ m \in Below(m) /\ place(m) = Cardinality(Below(m))
  BY DEF PlaceIn
<1> HIDE DEF Below, place
<1>3. \A m \in N : IsFiniteSet(Below(m)) /\ place(m) \in Nat /\ place(m) <= Cardinality(N)
  BY <1>2, FS_Subset, FS_CardinalityType
<1>4. ASSUME NEW m \in N PROVE place(m) \in I
  <2>1. place(m) # 0
    BY <1>2, <1>3, FS_EmptySet
  <2>2. QED
    BY <1>1, <1>3, <2>1
<1>5. ASSUME NEW m \in N, NEW n \in N, key[m] < key[n] PROVE place(m) < place(n)
  <2>1. Below(m) \in SUBSET Below(n) /\ n \notin Below(m) /\ n \in Below(n)
    BY <1>5 DEF Below
  <2>2. Cardinality(Below(m)) <= Cardinality(Below(n))
        /\ (Cardinality(Below(n)) = Cardinality(Below(m)) => Below(n) = Below(m))
    BY <1>3, <2>1, FS_Subset
  <2>3. QED
    BY <1>2, <1>3, <2>1, <2>2
<1>6. ASSUME NEW m \in N, NEW n \in N, place(m) = place(n) PROVE m = n
  <2>1. ~ (key[m] < key[n]) /\ ~ (key[n] < key[m])
    BY <1>3, <1>5, <1>6
  <2>2. QED
    BY <2>1
<1>7. p \in Injection(N, I)
  BY <1>4, <1>6 DEF Injection, IsInjective
<1>8. IsFiniteSet(I) /\ Cardinality(I) = Cardinality(N)
  BY <1>1, FS_Interval
<1>9. p \in Surjection(N, I)
  <2> HIDE DEF p, I
  <2>1. QED
    BY <1>7, <1>8, FS_Injection
<1>10. \A i \in I : \E m \in N : place(m) = i
  BY <1>9 DEF Surjection
<1>11. ASSUME NEW m \in N, NEW n \in N, place(m) < place(n) PROVE key[m] < key[n]
  <2>1. key[m] \in Nat /\ key[n] \in Nat /\ place(m) \in Nat /\ place(n) \in Nat
    BY <1>3
  <2>2. ~ (key[n] < key[m]) /\ key[m] # key[n]
    BY <1>5, <1>11, <2>1
  <2>3. QED
    BY <2>1, <2>2
<1>12. QED
  BY <1>1, <1>4, <1>6, <1>10, <1>11 DEF place

\* What the driver stores.
Store == Seq([key : Nat \ {0}, data : Data])

\* The sorted storage lists the newest report of each key, by key.
LEMMA SortedIs ==
  ASSUME storage \in Store, storage_sorted => Increasing(storage)
  PROVE  /\ Gather!SortedStorage \in Store /\ Increasing(Gather!SortedStorage)
         /\ \A i \in DOMAIN Gather!SortedStorage : \E j \in DOMAIN storage :
              Gather!Newest(j) /\ Gather!SortedStorage[i] = storage[j]
         /\ \A j \in DOMAIN storage : Gather!Newest(j) =>
              \E i \in DOMAIN Gather!SortedStorage : Gather!SortedStorage[i] = storage[j]
<1> DEFINE Entry == [key : Nat \ {0}, data : Data]
           N == Gather!NewestReports
           s == [i \in 1 .. Cardinality(N) |->
                   CHOOSE m \in N : Gather!Place(m) = i]
<1>1. Len(storage) \in Nat /\ DOMAIN storage = 1 .. Len(storage)
      /\ \A i \in DOMAIN storage : storage[i] \in Entry
  <2>1. storage \in Seq(Entry)
    BY DEF Store
  <2> HIDE DEF Entry
  <2>2. QED
    BY <2>1
<1>2. CASE storage_sorted
  <2>1. Gather!SortedStorage = storage
    BY <1>2 DEF Gather!SortedStorage
  <2>2. \A i, j \in DOMAIN storage : j > i => storage[j].key # storage[i].key
    <3>1. \A i, j \in DOMAIN storage : j > i => storage[i].key < storage[j].key
      BY <1>1, <1>2 DEF Increasing
    <3>2. \A i \in DOMAIN storage : storage[i].key \in Nat
      BY <1>1
    <3>3. QED
      BY <3>1, <3>2
  <2>3. \A i \in DOMAIN storage : Gather!Newest(i)
    BY <2>2 DEF Gather!Newest
  <2>4. QED
    BY <1>2, <2>1, <2>3
<1>3. CASE ~ storage_sorted
  <2> DEFINE D == {j \in DOMAIN storage : Gather!Newest(j)}
             f == [j \in D |-> storage[j]]
  <2>1. \A m : m \in N <=> \E j \in D : m = storage[j]
    BY DEF Gather!NewestReports
  <2>2. \A i, j \in D : storage[i].key = storage[j].key => i = j
    <3>1. \A i, j \in D : i \in Nat /\ j \in Nat /\ ~ (i < j /\ storage[j].key = storage[i].key)
      BY <1>1 DEF Gather!Newest
    <3>2. QED
      BY <3>1
  <2>3. IsFiniteSet(D)
    <3>1. IsFiniteSet(1 .. Len(storage))
      BY <1>1, FS_Interval
    <3>2. D \in SUBSET (1 .. Len(storage))
      BY <1>1
    <3> HIDE DEF D
    <3>3. QED
      BY <3>1, <3>2, FS_Subset
  <2>4. IsFiniteSet(N)
    <3>1. f \in Surjection(D, N)
      BY <2>1 DEF Surjection
    <3> HIDE DEF f, D
    <3>2. QED
      BY <2>3, <3>1, FS_Surjection
  <2>5. \A m \in N : m \in Entry
    BY <1>1, <2>1
  <2>6. /\ \A m \in N : m.key \in Nat
        /\ \A m, n \in N : m.key = n.key => m = n
    BY <2>1, <2>2, <2>5
  <2> DEFINE key == [m \in N |-> m.key]
  <2>7. Gather!SortedStorage = s /\ \A m \in N : Gather!Place(m) = PlaceIn(N, key, m)
    <3>1. \A m \in N : {n \in N : n.key <= m.key} = {n \in N : key[n] <= key[m]}
      OBVIOUS
    <3>2. QED
      BY <1>3, <3>1, SetsAlike DEF Gather!SortedStorage, Gather!Place, PlaceIn
  <2> HIDE DEF N, D
  <2>8. /\ Cardinality(N) \in Nat
        /\ \A m \in N : Gather!Place(m) \in 1 .. Cardinality(N)
        /\ \A i \in 1 .. Cardinality(N) : \E m \in N : Gather!Place(m) = i
        /\ \A m, n \in N : Gather!Place(m) = Gather!Place(n) => m = n
        /\ \A m, n \in N : Gather!Place(m) < Gather!Place(n) => m.key < n.key
    <3>1. \A m \in N : key[m] = m.key
      OBVIOUS
    <3>2. (\A m \in N : key[m] \in Nat) /\ \A m, n \in N : key[m] = key[n] => m = n
      BY <2>6, <3>1
    <3> HIDE DEF key
    <3>3. /\ Cardinality(N) \in Nat
          /\ \A m \in N : PlaceIn(N, key, m) \in 1 .. Cardinality(N)
          /\ \A i \in 1 .. Cardinality(N) : \E m \in N : PlaceIn(N, key, m) = i
          /\ \A m, n \in N : PlaceIn(N, key, m) = PlaceIn(N, key, n) => m = n
          /\ \A m, n \in N : PlaceIn(N, key, m) < PlaceIn(N, key, n) => key[m] < key[n]
      BY <2>4, <3>2, PlacesSort
    <3>4. QED
      BY <2>7, <3>1, <3>3
  <2>9. DOMAIN s = 1 .. Cardinality(N) /\ \A i \in DOMAIN s : s[i] \in N /\ Gather!Place(s[i]) = i
    BY <2>8
  <2>10. s \in Seq(Entry)
    <3>1. \A i \in 1 .. Cardinality(N) : s[i] \in Entry
      BY <2>5, <2>9
    <3>2. s = [i \in 1 .. Cardinality(N) |-> s[i]]
      OBVIOUS
    <3> HIDE DEF s, Entry
    <3>3. QED
      BY <2>8, <3>1, <3>2
  <2> HIDE DEF s
  <2>11. Increasing(s)
    BY <2>8, <2>9 DEF Increasing
  <2>12. \A m \in N : \E i \in DOMAIN s : s[i] = m
    BY <2>8, <2>9
  <2>13. \A i \in DOMAIN s : \E j \in DOMAIN storage : Gather!Newest(j) /\ s[i] = storage[j]
    BY <2>1, <2>9 DEF D
  <2>14. \A j \in DOMAIN storage : Gather!Newest(j) => \E i \in DOMAIN s : s[i] = storage[j]
    BY <2>1, <2>12 DEF D
  <2>15. QED
    BY <2>7, <2>10, <2>11, <2>13, <2>14 DEF Store
<1>4. QED
  BY <1>2, <1>3

-----------------------------------------------------------------------------
(* The invariant holds at first.                                           *)

\* No tree, one tree.
LEMMA TreeIs ==
  ASSUME pieces \in Decompositions \cup {{}}
  PROVE  /\ Tree = KeysOf(pieces) /\ Gather!Canopies = Gather!AncestorsOf(pieces)
         /\ pieces = {} => Tree = {} /\ Gather!Canopies = {}
         /\ Tree \subseteq Gather!Elements /\ Tree \subseteq Nat \ {0} /\ pieces \cap Gather!Canopies = {}
         /\ \A k \in Gather!Canopies : Gather!ChildKeys(k) \subseteq Tree
         /\ \A k \in Tree : k = 1 \/ (Gather!ParentKey(k) # 0 /\ Gather!ParentKey(k) \in Gather!Canopies)
<1>1. Tree = KeysOf(pieces) /\ Gather!Canopies = Gather!AncestorsOf(pieces)
  BY DEF Tree, KeysOf, Gather!Canopies
<1>2. pieces = {} => Tree = {} /\ Gather!Canopies = {}
  BY <1>1 DEF KeysOf, Gather!AncestorsOf
<1>3. CASE pieces = {}
  BY <1>1, <1>2, <1>3
<1>4. CASE pieces \in Decompositions
  <2>1. pieces # {}
    BY <1>4, TreeKeys
  <2>2. QED
    BY <1>1, <1>4, <2>1, TreeKeys
<1>5. QED
  BY <1>3, <1>4

\* Elements are keys.
LEMMA ElementsAreKeys == Gather!Elements \subseteq Nat \ {0}
<1>1. ASSUME NEW k \in Gather!Elements PROVE k \in Nat \ {0}
  <2>1. PICK K \in Decompositions : k \in K \cup Gather!AncestorsOf(K)
    BY DEF Gather!Elements
  <2>2. QED
    BY <2>1, TreeKeys DEF KeysOf
<1>2. QED
  BY <1>1

\* There is nothing at first.
LEMMA GatherInitInv == IterationInit => GatherInv
<1> SUFFICES ASSUME IterationInit PROVE GatherInv
  OBVIOUS
<1>1. /\ share \in {s.share : s \in Scenarios}
      /\ pieces = {} /\ toSend = {} /\ proxies = {} /\ contributions = {} /\ reports = {}
      /\ storage = << >> /\ pack = << >>
      /\ storage_sorted = FALSE /\ built = FALSE /\ waiting = FALSE
      /\ round = 0 /\ canopyIter = 0
      /\ tp_index = [k \in Gather!Elements |-> Gather!Unset]
      /\ my_sn = [k \in Gather!Elements |-> {}]
      /\ recv_count = [k \in Gather!Elements |-> 0]
  BY DEF IterationInit, Gather!Init
<1>2. Tree = {} /\ Gather!Canopies = {}
  BY <1>1, TreeIs
<1>3. TypeInv
  <2>1. 0 \in 0 .. BranchFactor - 1
    BY BranchType
  <2>2. 0 \in 0 .. Rounds /\ 0 \in 0 .. CanopyIterations
    BY TreesHold DEF Gather!CanopyAssumption
  <2>3. storage \in Seq([key : Nat \ {0}, data : Data])
    BY <1>1
  <2>4. {} \in Data
    BY DEF Data
  <2>5. my_sn \in [Gather!Elements -> Data] /\ recv_count \in [Gather!Elements -> 0 .. BranchFactor - 1]
    BY <1>1, <2>1, <2>4
  <2>6. tp_index \in [Gather!Elements -> Int] /\ \A k \in Gather!Elements : tp_index[k] \in {k, -1, Gather!Unset}
    BY <1>1 DEF Gather!Unset
  <2>7. QED
    BY <1>1, <2>2, <2>3, <2>5, <2>6 DEF TypeInv
<1>4. PhaseInv /\ PlaceInv /\ SumInv /\ ReportInv
  BY <1>1, <1>2 DEF PhaseInv, PlaceInv, SumInv, ReportInv
<1>5. CountInv
  BY <1>1 DEF CountInv
<1>6. PackInv
  BY <1>1 DEF PackInv
<1>7. QED
  BY <1>3, <1>4, <1>5, <1>6 DEF GatherInv

-----------------------------------------------------------------------------
(* Every step keeps the invariant.                                         *)

\* The tree and its round determine what is to be summed.
LEMMA SameTree ==
  ASSUME pieces' = pieces, round' = round
  PROVE  /\ Tree' = Tree /\ Gather!Canopies' = Gather!Canopies
         /\ \A k : Gather!Fresh(k)' = Gather!Fresh(k) /\ Share(k)' = Share(k)
         /\ \A k : PlaceOf(k)' = PlaceOf(k) /\ ReportOf(k)' = ReportOf(k)
BY DEF Tree, Gather!Canopies, Gather!Fresh, Gather!PiecesBelow, Share, PlaceOf, ReportOf

\* Whether a canopy reports is a matter of the settings.
LEMMA SameLimit ==
  ASSUME share' = share
  PROVE  \A k : Gather!Collected(k)' = Gather!Collected(k)
BY DEF Gather!Collected, Gather!CollectLimit

\* When no contribution is under way every canopy has its sum.
LEMMA AllSummed ==
  ASSUME GatherInv, built, toSend = {}, contributions = {}
  PROVE  \A k \in Gather!Canopies : Summed(k)
<1>1. pieces \in Decompositions
  BY DEF GatherInv, TypeInv, PhaseInv
<1>2. /\ Gather!Canopies \subseteq Tree /\ Tree \subseteq Nat \ {0} /\ Tree \subseteq Gather!Elements
      /\ \A k \in Gather!Canopies : Gather!ChildKeys(k) \subseteq Tree
      /\ Tree = pieces \cup Gather!Canopies /\ pieces \cap Gather!Canopies = {}
  BY <1>1, TreeIs DEF Tree
<1>3. PICK b \in Nat : \A k \in Tree : k <= b
  BY <1>1, TreeKeys, TreeIs
<1> DEFINE T == {n \in Nat : \A k \in Gather!Canopies : k + n = b => Summed(k)}
<1>4. ASSUME NEW n \in Nat, \A i \in Nat : i < n => i \in T PROVE n \in T
  <2> SUFFICES ASSUME NEW k \in Gather!Canopies, k + n = b, ~ Summed(k) PROVE FALSE
    OBVIOUS
  <2>1. k \in Nat \ {0} /\ k \in Gather!Elements
    BY <1>2
  <2>2. ASSUME NEW c \in Gather!ChildKeys(k) PROVE Sent(c)
    <3>1. c \in Tree /\ c \in Nat /\ k < c /\ c <= b
      BY <1>2, <1>3, <2>1, ChildAncestors
    <3>2. CASE c \in pieces
      BY <3>2 DEF Sent
    <3>3. CASE c \in Gather!Canopies
      <4>1. b - c \in Nat /\ b - c < n /\ c + (b - c) = b
        BY <2>1, <3>1
      <4>2. Summed(c)
        BY <1>4, <3>3, <4>1
      <4>3. QED
        BY <1>2, <3>3, <4>2 DEF Sent
    <3>4. QED
      BY <1>2, <3>1, <3>2, <3>3
  <2>3. Heard(k) = Gather!ChildKeys(k)
    BY <2>2 DEF Heard
  <2>4. recv_count[k] = BranchFactor
    BY <2>1, <2>3, ChildrenOf DEF GatherInv, SumInv
  <2>5. recv_count[k] \in 0 .. BranchFactor - 1
    BY <2>1 DEF GatherInv, TypeInv
  <2>6. QED
    BY <2>4, <2>5, BranchType
<1>5. Nat \subseteq T
  <2> HIDE DEF T
  <2>1. QED
    BY <1>4, StrongInduction
<1>6. ASSUME NEW k \in Gather!Canopies PROVE Summed(k)
  <2>1. k \in Nat /\ b - k \in Nat /\ k + (b - k) = b
    BY <1>2, <1>3
  <2>2. QED
    BY <1>5, <2>1
<1>7. QED
  BY <1>6

\* A step that leaves the canopies alone keeps it.
LEMMA UnchangedKept ==
  ASSUME GatherInv, UNCHANGED gatherVars
  PROVE  GatherInv'
<1>1. /\ Tree' = Tree /\ Gather!Canopies' = Gather!Canopies
      /\ \A k : Gather!Fresh(k)' = Gather!Fresh(k) /\ Share(k)' = Share(k)
      /\ \A k : PlaceOf(k)' = PlaceOf(k) /\ ReportOf(k)' = ReportOf(k)
      /\ \A k : Gather!Collected(k)' = Gather!Collected(k)
  BY SameTree, SameLimit DEF gatherVars
<1>2. TypeInv' /\ PhaseInv' /\ CountInv' /\ PackInv'
  BY <1>1 DEF GatherInv, TypeInv, PhaseInv, CountInv, PackInv, gatherVars, Increasing
<1>3. PlaceInv'
  BY <1>1 DEF GatherInv, PlaceInv, gatherVars
<1>4. \A k : Summed(k)' = Summed(k) /\ Heard(k)' = Heard(k) /\ Sent(k)' = Sent(k)
  BY <1>1 DEF Summed, Heard, Sent, gatherVars
<1>5. SumInv'
  BY <1>1, <1>4 DEF GatherInv, SumInv, gatherVars
<1>6. \A k : Reported(k)' = Reported(k)
  BY <1>1 DEF Reported, Gather!Newest, gatherVars
<1>7. ReportInv'
  BY <1>1, <1>4, <1>6 DEF GatherInv, ReportInv, gatherVars
<1>8. QED
  BY <1>2, <1>3, <1>5, <1>7 DEF GatherInv

\* At quiescence every canopy has its sum, so that none has a count.
LEMMA QuietKept ==
  ASSUME GatherInv, Gather!Quiet
  PROVE  GatherInv'
<1>1. /\ waiting /\ toSend = {} /\ contributions = {} /\ proxies = {} /\ reports = {} /\ waiting' = FALSE
      /\ UNCHANGED <<share, pieces, tp_index, my_sn, recv_count, toSend, proxies, contributions,
                     reports, storage, storage_sorted, pack, built, round, canopyIter>>
  BY DEF Gather!Quiet, Gather!elementVars, Gather!messageVars, Gather!storageVars
<1>2. /\ Tree' = Tree /\ Gather!Canopies' = Gather!Canopies
      /\ \A k : Gather!Fresh(k)' = Gather!Fresh(k) /\ Share(k)' = Share(k)
      /\ \A k : PlaceOf(k)' = PlaceOf(k) /\ ReportOf(k)' = ReportOf(k)
      /\ \A k : Gather!Collected(k)' = Gather!Collected(k)
  BY <1>1, SameTree, SameLimit
<1>3. TypeInv' /\ PhaseInv'
  BY <1>1, <1>2 DEF GatherInv, TypeInv, PhaseInv
<1>4. CountInv'
  <2>1. \A k \in Gather!Elements : recv_count[k] = 0
    <3>1. built => \A k \in Gather!Canopies : Summed(k)
      BY <1>1, AllSummed
    <3>2. QED
      BY <3>1 DEF GatherInv, CountInv, Summed
  <2>2. QED
    BY <1>1, <2>1 DEF GatherInv, CountInv
<1>5. PlaceInv'
  BY <1>1, <1>2 DEF GatherInv, PlaceInv
<1>6. \A k : Summed(k)' = Summed(k) /\ Heard(k)' = Heard(k) /\ Sent(k)' = Sent(k)
  BY <1>1, <1>2 DEF Summed, Heard, Sent
<1>7. SumInv'
  BY <1>1, <1>2, <1>6 DEF GatherInv, SumInv
<1>8. \A k : Reported(k)' = Reported(k)
  BY <1>1, <1>2 DEF Reported, Gather!Newest
<1>9. ReportInv'
  BY <1>1, <1>2, <1>6, <1>8 DEF GatherInv, ReportInv
<1>10. PackInv'
  BY <1>1 DEF GatherInv, PackInv, Increasing
<1>11. QED
  BY <1>3, <1>4, <1>5, <1>7, <1>9, <1>10 DEF GatherInv

\* An element is told the place it has in the tree.
LEMMA RecvProxiesKept ==
  ASSUME GatherInv, NEW m \in proxies, Gather!RecvProxies(m)
  PROVE  GatherInv'
<1>1. /\ proxies' = proxies \ {m}
      /\ tp_index' = [tp_index EXCEPT ![m.to] = m.tp]
      /\ UNCHANGED <<share, pieces, my_sn, recv_count, toSend, contributions, reports, storage,
                     storage_sorted, pack, built, waiting, round, canopyIter>>
  BY DEF Gather!RecvProxies, Gather!storageVars
<1>2. /\ Tree' = Tree /\ Gather!Canopies' = Gather!Canopies
      /\ \A k : Gather!Fresh(k)' = Gather!Fresh(k) /\ Share(k)' = Share(k)
      /\ \A k : PlaceOf(k)' = PlaceOf(k) /\ ReportOf(k)' = ReportOf(k)
      /\ \A k : Gather!Collected(k)' = Gather!Collected(k)
  BY <1>1, SameTree, SameLimit
<1>3. m.to \in Tree /\ m.to \in Gather!Elements /\ m.tp = PlaceOf(m.to) /\ m.tp \in Int
      /\ m = [to |-> m.to, tp |-> m.tp]
  BY TreeIs DEF GatherInv, TypeInv, PlaceInv
<1>4. TypeInv'
  <2>1. tp_index' \in [Gather!Elements -> Int] /\ \A k \in Gather!Elements : tp_index'[k] \in {k, -1, Gather!Unset}
    BY <1>1, <1>3 DEF GatherInv, TypeInv, PlaceOf
  <2>2. QED
    BY <1>1, <1>2, <2>1 DEF GatherInv, TypeInv
<1>5. PhaseInv'
  BY <1>1, <1>2 DEF GatherInv, PhaseInv
<1>6. CountInv'
  BY <1>1, <1>2 DEF GatherInv, CountInv
<1>7. PlaceInv'
  <2>1. \A k \in Gather!Elements : tp_index'[k] = IF k = m.to THEN m.tp ELSE tp_index[k]
    BY <1>1, <1>3 DEF GatherInv, TypeInv
  <2>2. \A k \in Tree : k \in Gather!Elements
    BY TreeIs DEF GatherInv, TypeInv
  <2>3. ASSUME NEW k \in Tree
        PROVE  tp_index'[k] = PlaceOf(k) \/ [to |-> k, tp |-> PlaceOf(k)] \in proxies'
    <3>1. CASE k = m.to
      BY <1>3, <2>1, <2>2, <3>1
    <3>2. CASE k # m.to
      <4>1. [to |-> k, tp |-> PlaceOf(k)] # m
        BY <3>2
      <4>2. QED
        BY <1>1, <2>1, <2>2, <3>2, <4>1 DEF GatherInv, PlaceInv
    <3>3. QED
      BY <3>1, <3>2
  <2>4. \A x \in proxies' : x.tp = PlaceOf(x.to)
    BY <1>1 DEF GatherInv, PlaceInv
  <2>5. QED
    BY <1>2, <2>3, <2>4 DEF PlaceInv
<1>8. \A k : Summed(k)' = Summed(k) /\ Heard(k)' = Heard(k) /\ Sent(k)' = Sent(k)
  BY <1>1, <1>2 DEF Summed, Heard, Sent
<1>9. SumInv'
  BY <1>1, <1>2, <1>8 DEF GatherInv, SumInv
<1>10. \A k : Reported(k)' = Reported(k)
  BY <1>1, <1>2 DEF Reported, Gather!Newest
<1>11. ReportInv'
  BY <1>1, <1>2, <1>8, <1>10 DEF GatherInv, ReportInv
<1>12. PackInv'
  BY <1>1 DEF GatherInv, PackInv, Increasing
<1>13. QED
  BY <1>4, <1>5, <1>6, <1>7, <1>9, <1>11, <1>12 DEF GatherInv

\* The sorted storage has the newest reports that the storage has.
LEMMA LoadCacheKept ==
  ASSUME GatherInv, Gather!LoadCache
  PROVE  GatherInv'
<1>1. /\ ~ waiting /\ built
      /\ storage' = Gather!SortedStorage
      /\ storage_sorted' = TRUE
      /\ pack' = SubSeq(storage', 1, IF share > 0 /\ share < Len(storage') THEN share ELSE Len(storage'))
      /\ UNCHANGED <<share, pieces, tp_index, my_sn, recv_count, toSend, proxies, contributions,
                     reports, built, waiting, round, canopyIter>>
  BY DEF Gather!LoadCache, Gather!elementVars, Gather!messageVars
<1>2. /\ Tree' = Tree /\ Gather!Canopies' = Gather!Canopies
      /\ \A k : Gather!Fresh(k)' = Gather!Fresh(k) /\ Share(k)' = Share(k)
      /\ \A k : PlaceOf(k)' = PlaceOf(k) /\ ReportOf(k)' = ReportOf(k)
      /\ \A k : Gather!Collected(k)' = Gather!Collected(k)
  BY <1>1, SameTree, SameLimit
<1>3. /\ storage' \in Store /\ Increasing(storage')
      /\ \A i \in DOMAIN storage' : \E j \in DOMAIN storage : Gather!Newest(j) /\ storage'[i] = storage[j]
      /\ \A j \in DOMAIN storage : Gather!Newest(j) => \E i \in DOMAIN storage' : storage'[i] = storage[j]
  BY <1>1, SortedIs DEF GatherInv, TypeInv, PackInv, Store
<1>4. TypeInv'
  BY <1>1, <1>2, <1>3 DEF GatherInv, TypeInv, Store
<1>5. PhaseInv' /\ CountInv'
  BY <1>1, <1>2 DEF GatherInv, PhaseInv, CountInv
<1>6. PlaceInv'
  BY <1>1, <1>2 DEF GatherInv, PlaceInv
<1>7. \A k : Summed(k)' = Summed(k) /\ Heard(k)' = Heard(k) /\ Sent(k)' = Sent(k)
  BY <1>1, <1>2 DEF Summed, Heard, Sent
<1>8. SumInv'
  BY <1>1, <1>2, <1>7 DEF GatherInv, SumInv
<1>9. \A i \in DOMAIN storage' : Gather!Newest(i)'
  <2> DEFINE R == [key : Nat \ {0}, data : Data]
  <2>1. storage' \in Seq(R)
    BY <1>3 DEF Store
  <2> HIDE DEF R
  <2>2. Len(storage') \in Nat /\ DOMAIN storage' = 1 .. Len(storage')
        /\ \A i \in DOMAIN storage' : storage'[i] \in R
    BY <2>1
  <2> USE DEF R
  <2>3. \A i \in DOMAIN storage' : storage'[i].key \in Nat
    BY <2>2
  <2>4. QED
    BY <1>3, <2>2, <2>3 DEF Gather!Newest, Increasing
<1>10. ASSUME NEW k \in Gather!Canopies, Reported(k) PROVE Reported(k)'
  BY <1>2, <1>3, <1>9, <1>10 DEF Reported
<1>11. ReportInv'
  BY <1>1, <1>2, <1>3, <1>7, <1>10 DEF GatherInv, ReportInv
<1>12. PackInv'
  BY <1>1, <1>3 DEF PackInv, Increasing
<1>13. QED
  BY <1>4, <1>5, <1>6, <1>8, <1>11, <1>12 DEF GatherInv

\* After an iteration the driver has no reports.
LEMMA EndIterationKept ==
  ASSUME GatherInv, Gather!EndIteration
  PROVE  GatherInv'
<1>1. /\ ~ waiting
      /\ storage' = << >> /\ storage_sorted' = FALSE /\ pack' = << >> /\ built' = FALSE
      /\ UNCHANGED <<share, pieces, tp_index, my_sn, recv_count, toSend, proxies, contributions,
                     reports, waiting, round, canopyIter>>
  BY DEF Gather!EndIteration, Gather!elementVars, Gather!messageVars
<1>2. /\ Tree' = Tree /\ Gather!Canopies' = Gather!Canopies
      /\ \A k : PlaceOf(k)' = PlaceOf(k)
  BY <1>1, SameTree
<1>3. TypeInv'
  <2>1. storage' \in Seq([key : Nat \ {0}, data : Data])
    BY <1>1
  <2>2. QED
    BY <1>1, <1>2, <2>1 DEF GatherInv, TypeInv
<1>4. PhaseInv' /\ CountInv'
  BY <1>1, <1>2 DEF GatherInv, PhaseInv, CountInv
<1>5. PlaceInv'
  BY <1>1, <1>2 DEF GatherInv, PlaceInv
<1>6. SumInv' /\ ReportInv' /\ PackInv'
  BY <1>1 DEF SumInv, ReportInv, PackInv
<1>7. QED
  BY <1>3, <1>4, <1>5, <1>6 DEF GatherInv

\* Each canopy of the new tree is told its place by the piece that is its first leaf.
LEMMA DecomposeKept ==
  ASSUME GatherInv, NEW K \in Decompositions, Gather!Decompose(K)
  PROVE  GatherInv'
<1> DEFINE ofPieces == {[to |-> k, tp |-> k] : k \in K}
           ofCanopies == UNION {{[to |-> a, tp |-> -1] : a \in Gather!SpeaksFor[k]} : k \in K}
<1>1. /\ ~ waiting /\ canopyIter < CanopyIterations /\ canopyIter' = canopyIter + 1
      /\ pieces' = K /\ waiting' = TRUE /\ built' = FALSE /\ pack' = << >>
      /\ proxies' = ofPieces \cup ofCanopies
      /\ UNCHANGED <<share, tp_index, my_sn, recv_count, toSend, contributions, reports, storage,
                     storage_sorted, round>>
  BY DEF Gather!Decompose, Gather!elementVars
<1>2. /\ K \subseteq Nat \ {0} /\ KeysOf(K) \subseteq Nat \ {0}
      /\ Gather!AncestorsOf(K) \cap K = {} /\ KeysOf(K) = K \cup Gather!AncestorsOf(K)
  BY TreeKeys DEF KeysOf
<1>3. Tree' = KeysOf(K) /\ Gather!Canopies' = Gather!AncestorsOf(K)
      /\ \A k : PlaceOf(k)' = IF k \in K THEN k ELSE -1
  BY <1>1, <1>2 DEF Tree, Gather!Canopies, PlaceOf
<1>4. /\ \A k \in K : Gather!SpeaksFor[k] \subseteq Gather!AncestorsOf(K)
      /\ \A a \in Gather!AncestorsOf(K) : \E k \in K : a \in Gather!SpeaksFor[k]
  BY FirstLeaves
<1>5. \A x : x \in ofCanopies <=> \E a \in Gather!AncestorsOf(K) : x = [to |-> a, tp |-> -1]
  BY <1>4
<1> HIDE DEF ofCanopies
<1>6. ASSUME NEW x \in proxies'
      PROVE  x \in [to : Tree', tp : Int] /\ x.tp = PlaceOf(x.to)'
  <2>1. CASE x \in ofPieces
    BY <1>2, <1>3, <2>1
  <2>2. CASE x \in ofCanopies
    <3>1. PICK a \in Gather!AncestorsOf(K) : x = [to |-> a, tp |-> -1]
      BY <1>5, <2>2
    <3>2. a \in Tree' /\ a \notin K
      BY <1>2, <1>3
    <3>3. QED
      BY <1>3, <3>1, <3>2
  <2>3. QED
    BY <1>1, <1>6, <2>1, <2>2
<1>7. ASSUME NEW k \in Tree' PROVE [to |-> k, tp |-> PlaceOf(k)'] \in proxies'
  <2>1. CASE k \in K
    BY <1>1, <1>3, <2>1
  <2>2. CASE k \notin K
    BY <1>1, <1>2, <1>3, <1>5, <2>2
  <2>3. QED
    BY <2>1, <2>2
<1>8. TypeInv'
  <2>1. toSend = {} /\ contributions = {} /\ reports = {}
    BY <1>1 DEF GatherInv, PhaseInv
  <2>2. canopyIter' \in 0 .. CanopyIterations
    BY <1>1, TreesHold DEF GatherInv, TypeInv, Gather!CanopyAssumption
  <2>3. QED
    BY <1>1, <1>6, <2>1, <2>2 DEF GatherInv, TypeInv
<1>9. PhaseInv'
  BY <1>1 DEF GatherInv, PhaseInv
<1>10. PlaceInv'
  BY <1>6, <1>7 DEF PlaceInv
<1>11. CountInv'
  BY <1>1 DEF GatherInv, CountInv
<1>12. SumInv' /\ ReportInv'
  BY <1>1 DEF SumInv, ReportInv
<1>13. PackInv'
  BY <1>1 DEF GatherInv, PackInv, Increasing
<1>14. QED
  BY <1>8, <1>9, <1>10, <1>11, <1>12, <1>13 DEF GatherInv

\* A new round begins with no canopy summed.
LEMMA AccumulateKept ==
  ASSUME GatherInv, Gather!Accumulate
  PROVE  GatherInv'
<1>1. /\ ~ waiting /\ pieces # {} /\ (built \/ storage = << >>) /\ round < Rounds
      /\ round' = round + 1 /\ waiting' = TRUE /\ built' = TRUE
      /\ toSend' = pieces /\ pack' = << >>
      /\ UNCHANGED <<share, pieces, tp_index, my_sn, recv_count, proxies, contributions, reports,
                     storage, storage_sorted, canopyIter>>
  BY DEF Gather!Accumulate, Gather!elementVars
<1>2. /\ pieces \in Decompositions
      /\ toSend = {} /\ proxies = {} /\ contributions = {} /\ reports = {}
  BY <1>1 DEF GatherInv, TypeInv, PhaseInv
<1>3. Tree' = Tree /\ Gather!Canopies' = Gather!Canopies /\ (\A k : PlaceOf(k)' = PlaceOf(k))
      /\ \A k : Gather!Collected(k)' = Gather!Collected(k)
  BY <1>1, SameLimit DEF Tree, Gather!Canopies, PlaceOf
<1>4. /\ Gather!Canopies \subseteq Tree /\ Tree \subseteq Nat \ {0} /\ Tree \subseteq Gather!Elements
      /\ \A k \in Gather!Canopies : Gather!ChildKeys(k) \subseteq Tree
      /\ Tree = pieces \cup Gather!Canopies /\ pieces \cap Gather!Canopies = {}
  BY <1>2, TreeIs DEF Tree
<1>5. round \in Nat /\ round' \in 0 .. Rounds
  BY <1>1, TreesHold DEF GatherInv, TypeInv, Gather!CanopyAssumption
<1>6. ASSUME NEW k \in Gather!Canopies PROVE ~ Summed(k)'
  <2>1. PICK t \in pieces : k \in Gather!Ancestors[t]
    BY DEF Gather!Canopies, Gather!AncestorsOf
  <2>2. <<t, round'>> \in Gather!Fresh(k)'
    BY <1>1, <2>1 DEF Gather!Fresh, Gather!PiecesBelow, Gather!AncestorsOf
  <2>3. \A d \in my_sn[k] : d[2] <= round
    BY <1>4 DEF GatherInv, CountInv
  <2>4. <<t, round'>>[2] = round'
    OBVIOUS
  <2>5. my_sn'[k] # Gather!Fresh(k)'
    BY <1>1, <1>5, <2>2, <2>3, <2>4
  <2>6. QED
    BY <2>5 DEF Summed
<1>7. ASSUME NEW k \in Gather!Canopies PROVE Heard(k)' = {}
  <2>1. ASSUME NEW c \in Gather!ChildKeys(k) PROVE ~ Sent(c)'
    BY <1>1, <1>4, <1>6 DEF Sent
  <2>2. QED
    BY <2>1 DEF Heard
<1>8. TypeInv'
  BY <1>1, <1>2, <1>5 DEF GatherInv, TypeInv
<1>9. PhaseInv'
  BY <1>1, <1>2 DEF PhaseInv
<1>10. PlaceInv'
  BY <1>1, <1>3 DEF GatherInv, PlaceInv
<1>11. CountInv'
  <2>1. \A k \in Gather!Elements : recv_count[k] = 0
    BY <1>1 DEF GatherInv, CountInv
  <2>2. ASSUME NEW k \in Gather!Elements, NEW d \in my_sn[k] PROVE d[2] <= round'
    <3>1. d[2] <= round /\ d[2] \in Nat
      BY DEF GatherInv, CountInv, TypeInv, Data
    <3>2. QED
      BY <1>1, <1>5, <3>1
  <2>3. QED
    BY <1>1, <2>1, <2>2 DEF CountInv
<1>12. SumInv'
  <2>1. \A k \in Gather!Canopies : recv_count'[k] = Cardinality(Heard(k)')
    BY <1>1, <1>4, <1>7, FS_EmptySet DEF GatherInv, CountInv
  <2>2. \A k \in Gather!Canopies : recv_count'[k] = 0
    BY <1>1, <1>4 DEF GatherInv, CountInv
  <2>3. QED
    BY <1>1, <1>2, <1>3, <1>6, <2>1, <2>2 DEF SumInv
<1>13. ReportInv'
  <2>1. \A i \in DOMAIN storage : storage[i].key \in Gather!Canopies /\ Gather!Collected(storage[i].key)
    BY <1>1 DEF GatherInv, ReportInv
  <2>2. QED
    BY <1>1, <1>2, <1>3, <1>6, <2>1 DEF ReportInv
<1>14. PackInv'
  BY <1>1 DEF GatherInv, PackInv, Increasing
<1>15. QED
  BY <1>8, <1>9, <1>10, <1>11, <1>12, <1>13, <1>14 DEF GatherInv

\* A contribution that leaves a piece is not heard yet.
LEMMA SendUpKept ==
  ASSUME GatherInv, NEW t \in toSend, Gather!SendUp(t)
  PROVE  GatherInv'
<1> DEFINE p == Gather!ParentKey(t)
           sent == [to |-> p, from |-> t, data |-> {<<t, round>>}]
<1>1. /\ toSend' = toSend \ {t}
      /\ contributions' = IF p > 0 THEN contributions \cup {sent} ELSE contributions
      /\ UNCHANGED <<share, pieces, tp_index, my_sn, recv_count, proxies, reports, storage,
                     storage_sorted, pack, built, waiting, round, canopyIter>>
  BY DEF Gather!SendUp, Gather!elementVars, Gather!storageVars
<1>2. waiting /\ built /\ t \in pieces /\ pieces \in Decompositions /\ round \in Nat
  BY TreesHold DEF GatherInv, TypeInv, PhaseInv, Gather!CanopyAssumption
<1>3. /\ Tree' = Tree /\ Gather!Canopies' = Gather!Canopies
      /\ \A k : Gather!Fresh(k)' = Gather!Fresh(k) /\ Share(k)' = Share(k)
      /\ \A k : PlaceOf(k)' = PlaceOf(k) /\ ReportOf(k)' = ReportOf(k)
      /\ \A k : Gather!Collected(k)' = Gather!Collected(k)
  BY <1>1, SameTree, SameLimit
<1>4. /\ Tree \subseteq Nat \ {0} /\ Tree \subseteq Gather!Elements /\ Tree = pieces \cup Gather!Canopies
      /\ (t = 1 \/ (p # 0 /\ p \in Gather!Canopies)) /\ t \in Nat \ {0}
  BY <1>2, TreeIs DEF Tree
<1>5. p \in Nat /\ (t = 1 => p = 0)
  BY <1>4, ParentOf, ParentLess
<1>6. Share(t) = {<<t, round>>} /\ Share(t) \in Data
  BY <1>2, <1>4, ShareType DEF Share, Tree
<1> HIDE DEF p
<1>7. p > 0 => sent \in [to : Gather!Canopies, from : Tree, data : Data]
  BY <1>4, <1>5, <1>6, <1>2
<1>8. TypeInv'
  <2>1. contributions' \subseteq [to : Gather!Canopies, from : Tree, data : Data]
    BY <1>1, <1>7 DEF GatherInv, TypeInv
  <2>2. QED
    BY <1>1, <1>3, <2>1 DEF GatherInv, TypeInv
<1>9. PhaseInv'
  BY <1>1, <1>2 DEF GatherInv, PhaseInv
<1>10. PlaceInv' /\ CountInv'
  BY <1>1, <1>3 DEF GatherInv, PlaceInv, CountInv
<1>11. \A k : Summed(k)' = Summed(k)
  BY <1>1, <1>3 DEF Summed
<1>12. ~ Sent(t) /\ Sent(t)' /\ \A c : c # t => Sent(c)' = Sent(c)
  BY <1>1, <1>2, <1>11 DEF Sent
<1>13. ASSUME NEW k \in Gather!Canopies PROVE Heard(k)' = Heard(k)
  <2>1. ASSUME NEW c \in Gather!ChildKeys(k) PROVE c \in Heard(k)' <=> c \in Heard(k)
    <3>1. CASE c = t
      <4>1. p = k /\ k # 0
        BY <1>4, <3>1, ChildAncestors DEF p
      <4>2. sent \in contributions' /\ sent.from = t
        BY <1>1, <1>5, <4>1
      <4>3. QED
        BY <1>12, <3>1, <4>2 DEF Heard
    <3>2. CASE c # t
      <4>1. (\A m \in contributions' : m.from # c) <=> \A m \in contributions : m.from # c
        BY <1>1, <3>2
      <4>2. QED
        BY <1>12, <3>2, <4>1 DEF Heard
    <3>3. QED
      BY <3>1, <3>2
  <2>2. Heard(k)' \subseteq Gather!ChildKeys(k) /\ Heard(k) \subseteq Gather!ChildKeys(k)
    BY DEF Heard
  <2>3. QED
    BY <2>1, <2>2
<1>14. SumInv'
  <2>1. ASSUME NEW m \in contributions'
        PROVE  /\ m.from # 1 /\ m.to = Gather!ParentKey(m.from)
               /\ m.data = Share(m.from) /\ Sent(m.from)'
    <3>1. CASE m \in contributions
      BY <1>2, <1>12, <3>1 DEF GatherInv, SumInv
    <3>2. CASE m = sent /\ p > 0
      BY <1>4, <1>5, <1>6, <1>12, <3>2 DEF p
    <3>3. QED
      BY <1>1, <3>1, <3>2
  <2>2. QED
    BY <1>1, <1>2, <1>3, <1>11, <1>13, <2>1 DEF GatherInv, SumInv
<1>15. \A k : Reported(k)' = Reported(k)
  BY <1>1, <1>3 DEF Reported, Gather!Newest
<1>16. ReportInv'
  BY <1>1, <1>3, <1>11, <1>15 DEF GatherInv, ReportInv
<1>17. PackInv'
  BY <1>1 DEF GatherInv, PackInv, Increasing
<1>18. QED
  BY <1>8, <1>9, <1>10, <1>14, <1>16, <1>17 DEF GatherInv

\* A report that arrives becomes the newest of its key.
LEMMA RecvTCKept ==
  ASSUME GatherInv, NEW m \in reports, Gather!RecvTC(m)
  PROVE  GatherInv'
<1>1. /\ reports' = reports \ {m} /\ storage' = Append(storage, m) /\ storage_sorted' = FALSE
      /\ UNCHANGED <<share, pieces, tp_index, my_sn, recv_count, toSend, proxies, contributions,
                     pack, built, waiting, round, canopyIter>>
  BY DEF Gather!RecvTC, Gather!elementVars, Gather!SortedAfterReport
<1>2. waiting /\ built
  BY DEF GatherInv, PhaseInv
<1>3. /\ Tree' = Tree /\ Gather!Canopies' = Gather!Canopies
      /\ \A k : Gather!Fresh(k)' = Gather!Fresh(k) /\ Share(k)' = Share(k)
      /\ \A k : PlaceOf(k)' = PlaceOf(k) /\ ReportOf(k)' = ReportOf(k)
      /\ \A k : Gather!Collected(k)' = Gather!Collected(k)
  BY <1>1, SameTree, SameLimit
<1>4. /\ m.key \in Gather!Canopies /\ Gather!Collected(m.key) /\ m = ReportOf(m.key)
      /\ m \in [key : Nat \ {0}, data : Data]
  <2>1. Gather!Canopies \subseteq Nat \ {0} /\ m \in [key : Gather!Canopies, data : Data]
    BY TreeIs DEF GatherInv, TypeInv, Tree
  <2>2. QED
    BY <1>2, <2>1 DEF GatherInv, ReportInv
<1> DEFINE R == [key : Nat \ {0}, data : Data]
<1>5. storage \in Seq(R) /\ m \in R
  BY <1>4 DEF GatherInv, TypeInv
<1> HIDE DEF R
<1>6. Len(storage) \in Nat
  BY <1>5
<1>7. PICK n \in Nat : n = Len(storage)
  BY <1>6
<1>8. /\ storage' \in Seq(R) /\ n \in Nat
      /\ DOMAIN storage = 1 .. n /\ DOMAIN storage' = 1 .. (n + 1)
      /\ storage'[n + 1] = m /\ \A i \in 1 .. n : storage'[i] = storage[i]
  BY <1>1, <1>5, <1>7
<1>9. TypeInv'
  <2>1. reports' \subseteq [key : Gather!Canopies, data : Data]
    BY <1>1 DEF GatherInv, TypeInv
  <2>2. QED
    BY <1>1, <1>3, <1>8, <2>1 DEF GatherInv, TypeInv, R
<1>10. PhaseInv'
  BY <1>1, <1>2 DEF GatherInv, PhaseInv
<1>11. PlaceInv' /\ CountInv'
  BY <1>1, <1>3 DEF GatherInv, PlaceInv, CountInv
<1>12. \A k : Summed(k)' = Summed(k) /\ Heard(k)' = Heard(k) /\ Sent(k)' = Sent(k)
  BY <1>1, <1>3 DEF Summed, Heard, Sent
<1>13. SumInv'
  BY <1>1, <1>3, <1>12 DEF GatherInv, SumInv
<1>14. Gather!Newest(n + 1)'
  BY <1>8 DEF Gather!Newest
<1>15. ASSUME NEW i \in 1 .. n, Gather!Newest(i), storage[i].key # m.key PROVE Gather!Newest(i)'
  <2> SUFFICES ASSUME NEW j \in 1 .. (n + 1), j > i PROVE storage'[j].key # storage'[i].key
    BY <1>8 DEF Gather!Newest
  <2>1. CASE j = n + 1
    BY <1>8, <1>15, <2>1
  <2>2. CASE j # n + 1
    <3>1. j \in 1 .. n
      BY <1>8, <2>2
    <3>2. QED
      BY <1>8, <1>15, <3>1 DEF Gather!Newest
  <2>3. QED
    BY <2>1, <2>2
<1>16. ASSUME NEW k \in Gather!Canopies, Gather!Collected(k), Summed(k)
       PROVE  ReportOf(k) \in reports' \/ Reported(k)'
  <2>1. CASE m.key = k
    <3>1. n + 1 \in DOMAIN storage'
      BY <1>8
    <3>2. QED
      BY <1>3, <1>4, <1>8, <1>14, <2>1, <3>1 DEF Reported
  <2>2. CASE m.key # k
    <3>1. ReportOf(k) # m /\ ReportOf(k).key = k
      BY <2>2 DEF ReportOf
    <3>2. ASSUME NEW i \in 1 .. n, Gather!Newest(i), storage[i] = ReportOf(k) PROVE Reported(k)'
      <4>1. Gather!Newest(i)'
        BY <1>15, <2>2, <3>1, <3>2
      <4>2. i \in DOMAIN storage'
        BY <1>8
      <4>3. QED
        BY <1>3, <1>8, <3>2, <4>1, <4>2 DEF Reported
    <3>3. ReportOf(k) \in reports \/ Reported(k)
      BY <1>2, <1>16 DEF GatherInv, ReportInv
    <3>4. CASE ReportOf(k) \in reports
      BY <1>1, <3>1, <3>4
    <3>5. CASE Reported(k)
      <4>1. PICK i \in 1 .. n : Gather!Newest(i) /\ storage[i] = ReportOf(k)
        BY <1>8, <3>5 DEF Reported
      <4>2. QED
        BY <3>2, <4>1
    <3>6. QED
      BY <3>3, <3>4, <3>5
  <2>3. QED
    BY <2>1, <2>2
<1>17. ReportInv'
  <2>1. \A x \in reports' : Gather!Collected(x.key) /\ Summed(x.key) /\ x = ReportOf(x.key)
    BY <1>1, <1>2 DEF GatherInv, ReportInv
  <2>2. ASSUME NEW i \in DOMAIN storage'
        PROVE  storage'[i].key \in Gather!Canopies /\ Gather!Collected(storage'[i].key)
    <3>1. CASE i = n + 1
      BY <1>4, <1>8, <3>1
    <3>2. CASE i # n + 1
      <4>1. i \in 1 .. n
        BY <1>8, <3>2
      <4>2. QED
        BY <1>2, <1>8, <4>1 DEF GatherInv, ReportInv
    <3>3. QED
      BY <3>1, <3>2
  <2>3. QED
    BY <1>3, <1>12, <1>16, <2>1, <2>2 DEF ReportInv
<1>18. PackInv'
  BY <1>1, <1>2 DEF GatherInv, PackInv
<1>19. QED
  BY <1>9, <1>10, <1>11, <1>13, <1>17, <1>18 DEF GatherInv

\* A canopy adds a contribution it has not heard; with the last one it has its sum.
LEMMA RecvDataKept ==
  ASSUME GatherInv, NEW m \in contributions, Gather!RecvData(m)
  PROVE  GatherInv'
<1>1. waiting /\ built /\ pieces \in Decompositions /\ round \in Nat
  BY TreesHold DEF GatherInv, TypeInv, PhaseInv, Gather!CanopyAssumption
<1>2. m.to \in Gather!Canopies /\ m.from \in Tree /\ m = [to |-> m.to, from |-> m.from, data |-> m.data]
  BY DEF GatherInv, TypeInv
<1>3. PICK k \in Gather!Canopies, c \in Tree : k = m.to /\ c = m.from
  BY <1>2
<1>4. /\ c # 1 /\ k = Gather!ParentKey(c) /\ m.data = Share(c) /\ Sent(c)
      /\ \A x \in contributions : /\ x.from # 1 /\ x.to = Gather!ParentKey(x.from)
                                  /\ x.data = Share(x.from) /\ Sent(x.from)
  BY <1>1, <1>3 DEF GatherInv, SumInv
<1>5. /\ Tree \subseteq Nat \ {0} /\ Tree \subseteq Gather!Elements /\ Tree = pieces \cup Gather!Canopies
      /\ pieces \cap Gather!Canopies = {}
      /\ k = 1 \/ (Gather!ParentKey(k) # 0 /\ Gather!ParentKey(k) \in Gather!Canopies)
  BY <1>1, TreeIs DEF Tree
<1>6. k \in Nat \ {0} /\ k \in Gather!Elements /\ c \in Gather!ChildKeys(k) /\ c # k /\ k \notin pieces
  <2>1. k \in Nat \ {0} /\ k \in Gather!Elements /\ k \notin pieces /\ c \in Nat
    BY <1>5
  <2>2. c \in Gather!ChildKeys(k)
    BY <1>4, <2>1, ChildrenOf
  <2>3. QED
    BY <2>1, <2>2, ChildAncestors
<1> DEFINE h == Heard(k) \cup {c}
<1>7. PICK sum : sum = Gather!Base(k) \cup m.data
  OBVIOUS
<1>8. PICK complete \in BOOLEAN : complete <=> recv_count[k] + 1 = BranchFactor
  OBVIOUS
<1>9. /\ my_sn' = [my_sn EXCEPT ![k] = sum]
      /\ recv_count' = [recv_count EXCEPT ![k] = IF complete THEN 0 ELSE recv_count[k] + 1]
      /\ contributions' = (contributions \ {m}) \cup
           IF complete /\ k # 1 THEN {[to |-> Gather!ParentKey(k), from |-> k, data |-> sum]} ELSE {}
      /\ reports' = IF complete /\ Gather!Collected(k) THEN reports \cup {[key |-> k, data |-> sum]} ELSE reports
      /\ UNCHANGED <<share, pieces, tp_index, toSend, proxies, storage, storage_sorted, pack,
                     built, waiting, round, canopyIter>>
  BY <1>3, <1>7, <1>8 DEF Gather!RecvData, Gather!CountAfter, Gather!storageVars
<1>10. Tree' = Tree /\ Gather!Canopies' = Gather!Canopies
       /\ (\A x : Gather!Fresh(x)' = Gather!Fresh(x) /\ Share(x)' = Share(x))
       /\ (\A x : PlaceOf(x)' = PlaceOf(x) /\ ReportOf(x)' = ReportOf(x))
       /\ \A x : Gather!Collected(x)' = Gather!Collected(x)
  BY <1>9, SameTree, SameLimit
\* The contribution was under way, so k has not heard c, and has not its sum.
<1>11. c \notin Heard(k) /\ Heard(k) \subseteq Gather!ChildKeys(k) /\ h \subseteq Gather!ChildKeys(k)
  BY <1>3, <1>6 DEF Heard
<1>12. ~ Summed(k) /\ ~ Sent(k)
  <2>1. ~ Summed(k)
    BY <1>1, <1>6, <1>11 DEF GatherInv, SumInv
  <2>2. QED
    BY <1>6, <2>1 DEF Sent
<1>13. /\ recv_count[k] \in 0 .. BranchFactor - 1 /\ BranchFactor \in Nat
       /\ recv_count[k] = Cardinality(Heard(k))
       /\ IsFiniteSet(Heard(k)) /\ IsFiniteSet(h) /\ Cardinality(h) = recv_count[k] + 1
  <2>1. recv_count[k] \in 0 .. BranchFactor - 1 /\ recv_count[k] = Cardinality(Heard(k))
    BY <1>1, <1>6, <1>12 DEF GatherInv, TypeInv, SumInv
  <2>2. IsFiniteSet(Heard(k))
    BY <1>6, <1>11, ChildrenOf, FS_Subset
  <2>3. QED
    BY <1>11, <2>1, <2>2, BranchType, FS_AddElement
<1>14. complete <=> h = Gather!ChildKeys(k)
  <2>1. IsFiniteSet(Gather!ChildKeys(k)) /\ Cardinality(Gather!ChildKeys(k)) = BranchFactor
    BY <1>6, ChildrenOf
  <2>2. h \in SUBSET Gather!ChildKeys(k)
    BY <1>11
  <2> HIDE DEF h
  <2>3. Cardinality(Gather!ChildKeys(k)) = Cardinality(h) => h = Gather!ChildKeys(k)
    BY <2>1, <2>2, FS_Subset
  <2>4. QED
    BY <1>8, <1>13, <2>1, <2>3
<1>15. sum = UNION {Share(x) : x \in h}
  <2>1. Gather!Base(k) = UNION {Share(x) : x \in Heard(k)}
    <3>1. CASE recv_count[k] = 0
      <4>1. Heard(k) = {}
        BY <1>13, <3>1, FS_EmptySet
      <4>2. QED
        BY <3>1, <4>1 DEF Gather!Base
    <3>2. CASE recv_count[k] # 0
      BY <1>1, <1>12, <3>2 DEF Gather!Base, GatherInv, SumInv
    <3>3. QED
      BY <3>1, <3>2
  <2>2. QED
    BY <1>4, <1>7, <2>1
<1>16. complete => sum = Gather!Fresh(k)
  BY <1>1, <1>14, <1>15, FreshSplit
<1>17. sum \in Data /\ \A d \in sum : d[2] <= round
  <2>1. \A x : Share(x) \in Data /\ \A d \in Share(x) : d[2] = round
    <3>1. pieces \subseteq Nat
      BY <1>5
    <3>2. QED
      BY <1>1, <3>1, ShareType
  <2>2. QED
    BY <1>1, <1>15, <2>1 DEF Data
<1>18. /\ my_sn \in [Gather!Elements -> Data] /\ recv_count \in [Gather!Elements -> 0 .. BranchFactor - 1]
       /\ my_sn'[k] = sum /\ recv_count'[k] = IF complete THEN 0 ELSE recv_count[k] + 1
       /\ \A x : x # k => my_sn'[x] = my_sn[x] /\ recv_count'[x] = recv_count[x]
  <2>1. my_sn \in [Gather!Elements -> Data] /\ recv_count \in [Gather!Elements -> 0 .. BranchFactor - 1]
    BY DEF GatherInv, TypeInv
  <2>2. QED
    BY <1>6, <1>9, <2>1
<1>19. Summed(k)' <=> complete
  BY <1>10, <1>13, <1>16, <1>18 DEF Summed
<1>20. \A x : x # k => Summed(x)' = Summed(x)
  BY <1>10, <1>18 DEF Summed
<1>21. (Sent(k)' <=> complete) /\ \A x : x # k => Sent(x)' = Sent(x)
  BY <1>6, <1>9, <1>19, <1>20 DEF Sent
<1>22. Heard(k)' = h
  <2>1. ASSUME NEW x \in Gather!ChildKeys(k)
        PROVE  (\A y \in contributions' : y.from # x) <=>
               (x = c \/ \A y \in contributions : y.from # x)
    <3>1. x # k
      BY <1>6, ChildAncestors
    <3>2. (\A y \in contributions' : y.from # x) <=> \A y \in contributions \ {m} : y.from # x
      BY <1>9, <3>1
    <3>3. ASSUME NEW y \in contributions, y.from = c PROVE y = m
      <4>1. y \in [to : Gather!Canopies, from : Tree, data : Data]
        BY DEF GatherInv, TypeInv
      <4>2. y = [to |-> y.to, from |-> y.from, data |-> y.data]
        BY <4>1
      <4>3. QED
        BY <1>2, <1>3, <1>4, <3>3, <4>2
    <3>4. QED
      BY <1>3, <3>2, <3>3
  <2>2. ASSUME NEW x \in Gather!ChildKeys(k) PROVE Sent(x)' = Sent(x)
    BY <1>6, <1>21, <2>2, ChildAncestors
  <2>3. ASSUME NEW x \in Gather!ChildKeys(k) PROVE x \in Heard(k)' <=> x \in h
    BY <1>4, <2>1, <2>2, <2>3 DEF Heard
  <2>4. Heard(k)' \subseteq Gather!ChildKeys(k)
    BY DEF Heard
  <2> HIDE DEF h
  <2>5. QED
    BY <1>11, <2>3, <2>4
<1>23. ASSUME NEW j \in Gather!Canopies, j # k PROVE Heard(j)' = Heard(j)
  <2>1. j \in Nat \ {0}
    BY <1>5
  <2>2. ASSUME NEW x \in Gather!ChildKeys(j) PROVE x \in Heard(j)' <=> x \in Heard(j)
    <3>1. Gather!ParentKey(x) = j /\ x # c
      BY <1>4, <1>23, <2>1, ChildAncestors
    <3>2. CASE x = k
      <4>1. k # 1
        BY <2>1, <3>1, <3>2, BranchType, ParentZero
      <4>2. ASSUME complete PROVE \E y \in contributions' : y.from = k
        <5>1. [to |-> Gather!ParentKey(k), from |-> k, data |-> sum] \in contributions'
          BY <1>9, <4>1, <4>2
        <5>2. QED
          BY <5>1
      <4>3. QED
        BY <1>12, <1>21, <3>2, <4>2 DEF Heard
    <3>3. CASE x # k
      <4>1. (\A y \in contributions' : y.from # x) <=> \A y \in contributions : y.from # x
        BY <1>3, <1>9, <3>1, <3>3
      <4>2. QED
        BY <1>21, <3>3, <4>1 DEF Heard
    <3>4. QED
      BY <3>2, <3>3
  <2>3. Heard(j)' \subseteq Gather!ChildKeys(j) /\ Heard(j) \subseteq Gather!ChildKeys(j)
    BY DEF Heard
  <2>4. QED
    BY <2>2, <2>3
<1>24. TypeInv'
  <2>1. my_sn' \in [Gather!Elements -> Data] /\ recv_count' \in [Gather!Elements -> 0 .. BranchFactor - 1]
    <3>1. (IF complete THEN 0 ELSE recv_count[k] + 1) \in 0 .. BranchFactor - 1
      BY <1>8, <1>13
    <3>2. QED
      BY <1>9, <1>17, <1>18, <3>1
  <2>2. contributions' \subseteq [to : Gather!Canopies, from : Tree, data : Data]
    BY <1>5, <1>9, <1>17 DEF GatherInv, TypeInv
  <2>3. reports' \subseteq [key : Gather!Canopies, data : Data]
    BY <1>9, <1>17 DEF GatherInv, TypeInv
  <2>4. QED
    BY <1>9, <1>10, <2>1, <2>2, <2>3 DEF GatherInv, TypeInv
<1>25. PhaseInv'
  BY <1>1, <1>9 DEF GatherInv, PhaseInv
<1>26. PlaceInv'
  BY <1>9, <1>10 DEF GatherInv, PlaceInv
<1>27. CountInv'
  <2>1. ASSUME NEW x \in Gather!Elements, recv_count'[x] # 0 PROVE x \in Gather!Canopies
    BY <1>18, <2>1 DEF GatherInv, CountInv
  <2>2. ASSUME NEW x \in Gather!Elements, NEW d \in my_sn'[x] PROVE d[2] <= round
    BY <1>17, <1>18 DEF GatherInv, CountInv
  <2>3. QED
    BY <1>1, <1>9, <1>10, <2>1, <2>2 DEF CountInv
<1>28. SumInv'
  <2>1. ASSUME NEW x \in contributions'
        PROVE  /\ x.from # 1 /\ x.to = Gather!ParentKey(x.from)
               /\ x.data = Share(x.from) /\ Sent(x.from)'
    <3>1. CASE x \in contributions
      <4>1. x.from # k
        BY <1>4, <1>12, <3>1
      <4>2. QED
        BY <1>4, <1>21, <3>1, <4>1
    <3>2. CASE complete /\ k # 1 /\ x = [to |-> Gather!ParentKey(k), from |-> k, data |-> sum]
      BY <1>6, <1>16, <1>21, <3>2 DEF Share
    <3>3. QED
      BY <1>9, <3>1, <3>2
  <2>2. Summed(k)' => Heard(k)' = Gather!ChildKeys(k)
    BY <1>14, <1>19, <1>22
  <2>3. ~ Summed(k)' => recv_count'[k] = Cardinality(Heard(k)')
                        /\ my_sn'[k] = UNION {Share(x) : x \in Heard(k)'}
    BY <1>13, <1>15, <1>18, <1>19, <1>22
  <2>4. ASSUME NEW j \in Gather!Canopies, j # k
        PROVE  /\ Summed(j)' => Heard(j)' = Gather!ChildKeys(j)
               /\ ~ Summed(j)' => recv_count'[j] = Cardinality(Heard(j)')
               /\ ~ Summed(j)' /\ recv_count'[j] # 0 =>
                    my_sn'[j] = UNION {Share(x) : x \in Heard(j)'}
    <3>1. /\ Summed(j) => Heard(j) = Gather!ChildKeys(j)
          /\ ~ Summed(j) => recv_count[j] = Cardinality(Heard(j))
          /\ ~ Summed(j) /\ recv_count[j] # 0 => my_sn[j] = UNION {Share(x) : x \in Heard(j)}
      BY <1>1 DEF GatherInv, SumInv
    <3>2. QED
      BY <1>18, <1>20, <1>23, <2>4, <3>1
  <2>5. QED
    BY <1>10, <2>1, <2>2, <2>3, <2>4 DEF SumInv
<1>29. ReportInv'
  <2>1. ASSUME NEW x \in reports'
        PROVE  Gather!Collected(x.key) /\ Summed(x.key)' /\ x = ReportOf(x.key)
    <3>1. CASE x \in reports
      <4>1. Gather!Collected(x.key) /\ Summed(x.key) /\ x = ReportOf(x.key)
        BY <1>1, <3>1 DEF GatherInv, ReportInv
      <4>2. QED
        BY <1>12, <1>20, <4>1
    <3>2. CASE complete /\ Gather!Collected(k) /\ x = [key |-> k, data |-> sum]
      BY <1>16, <1>19, <3>2 DEF ReportOf
    <3>3. QED
      BY <1>9, <3>1, <3>2
  <2>2. \A x : Reported(x)' = Reported(x)
    BY <1>9, <1>10 DEF Reported, Gather!Newest
  <2>3. ASSUME NEW x \in Gather!Canopies, Gather!Collected(x), Summed(x)'
        PROVE  ReportOf(x) \in reports' \/ Reported(x)
    <3>1. CASE x = k
      BY <1>9, <1>16, <1>19, <2>3, <3>1 DEF ReportOf
    <3>2. CASE x # k
      BY <1>1, <1>9, <1>20, <2>3, <3>2 DEF GatherInv, ReportInv
    <3>3. QED
      BY <3>1, <3>2
  <2>4. \A i \in DOMAIN storage : storage[i].key \in Gather!Canopies /\ Gather!Collected(storage[i].key)
    BY <1>1 DEF GatherInv, ReportInv
  <2>5. QED
    BY <1>9, <1>10, <2>1, <2>2, <2>3, <2>4 DEF ReportInv
<1>30. PackInv'
  BY <1>1, <1>9 DEF GatherInv, PackInv, Increasing
<1>31. QED
  BY <1>24, <1>25, <1>26, <1>27, <1>28, <1>29, <1>30 DEF GatherInv

-----------------------------------------------------------------------------
(* What the invariant says.                                                *)

\* Every step of the canopies.
LEMMA GatherStepKept == GatherInv /\ Gather!Next => GatherInv'
<1> SUFFICES ASSUME GatherInv, Gather!Next PROVE GatherInv'
  OBVIOUS
<1>1. ASSUME NEW K \in Decompositions, Gather!Decompose(K) PROVE GatherInv'
  BY <1>1, DecomposeKept
<1>2. CASE Gather!Accumulate
  BY <1>2, AccumulateKept
<1>3. CASE Gather!Quiet
  BY <1>3, QuietKept
<1>4. CASE Gather!LoadCache
  BY <1>4, LoadCacheKept
<1>5. CASE Gather!EndIteration
  BY <1>5, EndIterationKept
<1>6. ASSUME NEW m \in proxies, Gather!RecvProxies(m) PROVE GatherInv'
  BY <1>6, RecvProxiesKept
<1>7. ASSUME NEW t \in toSend, Gather!SendUp(t) PROVE GatherInv'
  BY <1>7, SendUpKept
<1>8. ASSUME NEW m \in contributions, Gather!RecvData(m) PROVE GatherInv'
  BY <1>8, RecvDataKept
<1>9. ASSUME NEW m \in reports, Gather!RecvTC(m) PROVE GatherInv'
  BY <1>9, RecvTCKept
<1>10. QED
  BY <1>1, <1>2, <1>3, <1>4, <1>5, <1>6, <1>7, <1>8, <1>9 DEF Gather!Next

\* The other stages leave the canopies alone.
LEMMA GatherKept == GatherInv /\ [IterationNext]_iterationVars => GatherInv'
<1> SUFFICES ASSUME GatherInv, [IterationNext]_iterationVars PROVE GatherInv'
  OBVIOUS
<1>1. CASE GatherStep
  BY <1>1, GatherStepKept DEF GatherStep
<1>2. CASE UNCHANGED gatherVars
  BY <1>2, UnchangedKept
<1>3. GatherStep \/ UNCHANGED gatherVars
  BY DEF IterationNext, iterationVars, stageVars, FlushStep, ShipStep, LoadStep, DriveStep, HostStep
<1>4. QED
  BY <1>1, <1>2, <1>3

\* Types.
LEMMA GatherTypes == GatherInv => Gather!TypeOK
<1> SUFFICES ASSUME GatherInv PROVE Gather!TypeOK
  OBVIOUS
<1>1. ASSUME NEW m \in contributions PROVE m.from \in Gather!ChildKeys(m.to)
  <2>1. built /\ m \in [to : Gather!Canopies, from : Tree, data : Data]
    BY DEF GatherInv, TypeInv, PhaseInv
  <2>2. m.to = Gather!ParentKey(m.from)
    BY <2>1 DEF GatherInv, SumInv
  <2>3. m.to \in Nat /\ m.from \in Nat
    BY <2>1, TreeIs DEF GatherInv, TypeInv, Tree
  <2>4. QED
    BY <2>2, <2>3, ChildrenOf
<1>2. QED
  BY <1>1 DEF GatherInv, TypeInv, Gather!TypeOK

\* The driver goes on when no contribution is under way.
LEMMA GatherQuiet == GatherInv => Gather!QuietIsComplete
<1> SUFFICES ASSUME GatherInv PROVE Gather!QuietIsComplete
  OBVIOUS
<1>1. pieces \cap Gather!Canopies = {} /\ Tree = pieces \cup Gather!Canopies
  BY TreeIs DEF GatherInv, TypeInv, Tree
<1>2. Gather!PlacesKnown
  BY <1>1 DEF GatherInv, PhaseInv, PlaceInv, PlaceOf, Gather!PlacesKnown
<1>3. ASSUME ~ waiting, built PROVE \A k \in Gather!Canopies : Summed(k)
  BY <1>3, AllSummed DEF GatherInv, PhaseInv
<1>4. QED
  BY <1>2, <1>3 DEF Gather!QuietIsComplete, Summed

\* A sorted storage has the fresh report of each canopy that reports.
LEMMA StorageIsFresh ==
  ASSUME GatherInv, built, ~ waiting, storage_sorted
  PROVE  /\ Len(storage) \in Nat /\ DOMAIN storage = 1 .. Len(storage)
         /\ \A i \in DOMAIN storage : /\ storage[i].key \in Gather!Canopies /\ Gather!Collected(storage[i].key)
                                      /\ storage[i] = ReportOf(storage[i].key)
         /\ \A k \in Gather!Canopies : Gather!Collected(k) => \E i \in DOMAIN storage : storage[i].key = k
         /\ Gather!Canopies \subseteq Nat \ {0}
<1> DEFINE R == [key : Nat \ {0}, data : Data]
<1>1. storage \in Seq(R)
  BY DEF GatherInv, TypeInv
<1> HIDE DEF R
<1>2. Len(storage) \in Nat /\ DOMAIN storage = 1 .. Len(storage)
  BY <1>1
<1>3. Gather!Canopies \subseteq Nat \ {0}
  BY TreeIs DEF GatherInv, TypeInv, Tree
<1>4. \A i \in DOMAIN storage : storage[i].key \in Gather!Canopies /\ Gather!Collected(storage[i].key)
  BY DEF GatherInv, ReportInv
<1>5. ASSUME NEW k \in Gather!Canopies, Gather!Collected(k)
      PROVE  \E i \in DOMAIN storage : storage[i] = ReportOf(k) /\ storage[i].key = k
  <2>1. Summed(k) /\ reports = {}
    BY AllSummed DEF GatherInv, PhaseInv
  <2>2. Reported(k)
    BY <1>5, <2>1 DEF GatherInv, ReportInv
  <2>3. ReportOf(k).key = k
    BY DEF ReportOf
  <2>4. QED
    BY <2>2, <2>3 DEF Reported
<1>6. ASSUME NEW i \in DOMAIN storage PROVE storage[i] = ReportOf(storage[i].key)
  <2>1. PICK j \in DOMAIN storage : /\ storage[j] = ReportOf(storage[i].key)
                                    /\ storage[j].key = storage[i].key
    BY <1>4, <1>5
  <2>2. /\ i < j => storage[i].key < storage[j].key
        /\ j < i => storage[j].key < storage[i].key
    BY DEF GatherInv, PackInv, Increasing
  <2>3. storage[i].key \in Nat
    BY <1>3, <1>4
  <2>4. i \in Nat /\ j \in Nat
    BY <1>2
  <2>5. storage[i].key \in Nat /\ i \in Nat /\ j \in Nat
    BY <2>3, <2>4
  <2>6. i = j
    BY <2>1, <2>2, <2>5
  <2>7. QED
    BY <2>1, <2>6
<1>7. QED
  BY <1>2, <1>3, <1>4, <1>5, <1>6

\* The pack is the beginning of the sorted storage, which has each canopy below the limit.
LEMMA GatherPack == GatherInv => Gather!PackSound
<1> SUFFICES ASSUME GatherInv PROVE Gather!PackSound
  OBVIOUS
<1>1. CASE pack = << >>
  <2>1. DOMAIN pack = {}
    BY <1>1
  <2>2. QED
    BY <1>1, <2>1 DEF Gather!PackSound, Gather!ParentsFirst, Gather!PackIsFresh, Gather!LimitKeepsLevels
<1>2. CASE pack # << >>
  <2>1. built /\ ~ waiting /\ storage_sorted /\ share \in Nat
    BY <1>2, TreesHold DEF GatherInv, PackInv, TypeInv, Gather!CanopyAssumption
  <2>2. /\ Len(storage) \in Nat /\ DOMAIN storage = 1 .. Len(storage)
        /\ \A i \in DOMAIN storage : /\ storage[i].key \in Gather!Canopies /\ Gather!Collected(storage[i].key)
                                     /\ storage[i] = ReportOf(storage[i].key)
        /\ \A k \in Gather!Canopies : Gather!Collected(k) => \E i \in DOMAIN storage : storage[i].key = k
        /\ Gather!Canopies \subseteq Nat \ {0}
    BY <2>1, StorageIsFresh
  <2>3. PICK n : n = IF share > 0 /\ share < Len(storage) THEN share ELSE Len(storage)
    OBVIOUS
  <2>4. /\ n \in Nat /\ n <= Len(storage)
        /\ Len(pack) = n /\ DOMAIN pack = 1 .. n /\ \A i \in 1 .. n : pack[i] = storage[i]
    <3>1. n \in Nat /\ n <= Len(storage)
      <4>1. Len(storage) \in Nat
        BY <2>2
      <4>2. QED
        BY <2>1, <2>3, <4>1
    <3>2. pack = SubSeq(storage, 1, n)
      BY <1>2, <2>3 DEF GatherInv, PackInv
    <3>3. storage \in Seq([key : Nat \ {0}, data : Data])
      BY DEF GatherInv, TypeInv
    <3> DEFINE R == [key : Nat \ {0}, data : Data]
    <3>4. storage \in Seq(R)
      BY <3>3
    <3> HIDE DEF R
    <3>5. QED
      BY <3>1, <3>2, <3>4
  <2>5. \A i, j \in 1 .. n : i < j => pack[i].key < pack[j].key
    <3>1. 1 .. n \subseteq DOMAIN storage
      BY <2>2, <2>4
    <3>2. \A i, j \in DOMAIN storage : i < j => storage[i].key < storage[j].key
      BY <2>1 DEF GatherInv, PackInv, Increasing
    <3>3. QED
      BY <2>4, <3>1, <3>2
  <2>6. ASSUME NEW i \in 1 .. n, pack[i].key # 1
        PROVE  \E j \in 1 .. n : pack[j].key = Gather!ParentKey(pack[i].key)
    <3> DEFINE k == pack[i].key
               p == Gather!ParentKey(k)
    <3>1. i \in DOMAIN storage /\ pack[i] = storage[i]
      <4>1. 1 .. n \subseteq 1 .. Len(storage)
        BY <2>2, <2>4
      <4>2. QED
        BY <2>2, <2>4, <4>1
    <3>2. i \in DOMAIN storage /\ k = storage[i].key /\ k \in Gather!Canopies /\ Gather!Collected(k) /\ k \in Nat \ {0}
      BY <2>2, <3>1
    <3>3. p \in Gather!Canopies /\ p \in Nat /\ p < k
      <4>1. p \in Gather!Canopies
        BY <2>6, <3>2, TreeIs DEF GatherInv, TypeInv, Tree
      <4>2. QED
        BY <2>2, <3>2, <4>1, ParentLess
    <3> HIDE DEF k, p
    <3>4. Gather!Collected(p)
      BY <2>1, <3>2, <3>3, LimitSeparates DEF Gather!Collected
    <3>5. PICK j \in DOMAIN storage : storage[j].key = p
      BY <2>2, <3>3, <3>4
    <3>6. j < i
      <4>1. /\ i < j => storage[i].key < storage[j].key
            /\ j \in Nat /\ i \in Nat
        BY <2>1, <2>2, <3>2 DEF GatherInv, PackInv, Increasing
      <4>2. QED
        BY <3>2, <3>3, <3>5, <4>1
    <3>7. j \in 1 .. n /\ pack[j].key = p
      BY <2>2, <2>4, <3>5, <3>6
    <3>8. QED
      BY <3>7 DEF k, p
  <2>7. Gather!ParentsFirst
    BY <2>4, <2>5, <2>6 DEF Gather!ParentsFirst
  <2>8. Gather!PackIsFresh
    <3>1. \A i \in 1 .. n : pack[i] = ReportOf(pack[i].key)
      BY <2>2, <2>4
    <3>2. \A k : ReportOf(k).data = Gather!Fresh(k)
      BY DEF ReportOf
    <3>3. QED
      BY <2>4, <3>1, <3>2 DEF Gather!PackIsFresh
  <2>9. ASSUME Len(pack) # share, NEW k \in Gather!Canopies \ Gather!PackKeys, NEW a \in Gather!PackKeys
        PROVE  Gather!Level(a) < Gather!Level(k)
    <3>1. n = Len(storage)
      BY <2>2, <2>3, <2>4, <2>9
    <3>2. PICK i \in 1 .. n : a = pack[i].key
      BY <2>4, <2>9 DEF Gather!PackKeys
    <3>3. a \in Gather!Canopies /\ Gather!Collected(a)
      BY <2>2, <2>4, <3>2
    <3>4. ~ Gather!Collected(k)
      <4>1. ASSUME NEW j \in DOMAIN storage, storage[j].key = k PROVE k \in Gather!PackKeys
        BY <2>2, <2>4, <3>1, <4>1 DEF Gather!PackKeys
      <4>2. QED
        BY <2>2, <2>9, <4>1
    <3>5. Gather!CollectLimit \in Nat /\ Gather!CollectLimit # 0 /\ Separates(Gather!CollectLimit)
          /\ a < Gather!CollectLimit /\ ~ (k < Gather!CollectLimit)
      BY <2>1, <3>3, <3>4, LimitSeparates DEF Gather!Collected
    <3>6. QED
      BY <2>2, <3>3, <3>5 DEF Separates
  <2>10. QED
    BY <2>7, <2>8, <2>9 DEF Gather!PackSound, Gather!LimitKeepsLevels
<1>3. QED
  BY <1>1, <1>2

\* Whenever the driver goes on, every canopy of the tree has the complete sum of the newest
\* round and knows whether it is a tree piece's, and the pack that is shipped has the newest
\* data, parents first, in whole levels: for every branch factor, every sequence of
\* decompositions, and every number of nodes to share.
THEOREM SumsAreComplete == IterationSpec => []SumsComplete
<1>1. IterationInit => GatherInv
  BY GatherInitInv
<1>2. GatherInv /\ [IterationNext]_iterationVars => GatherInv'
  BY GatherKept
<1>3. GatherInv => SumsComplete
  BY GatherTypes, GatherQuiet, GatherPack DEF SumsComplete
<1>4. QED
  BY <1>1, <1>2, <1>3, PTL DEF IterationSpec

-----------------------------------------------------------------------------
(* The flush.  How many particles some chunks have, the plan of a reader,  *)
(* and where its loop stops.                                               *)

\* The assumption on the chunks.
LEMMA ChunksHold ==
  /\ Flush!FlushAssumption
  /\ \A S : Flush!Cardinality(S) = Cardinality(S)
  /\ \A r \in Readers : /\ Plans[r] \in Seq([dest : FlushPieces, count : Nat \ {0}])
                        /\ Len(Plans[r]) \in Nat /\ Flush!ChunksOf(r) = 1 .. Len(Plans[r])
                        /\ \A i \in Flush!ChunksOf(r) : /\ Plans[r][i].dest \in FlushPieces
                                                  /\ Plans[r][i].count \in Nat \ {0}
                        /\ Flush!Remote(r) \subseteq Flush!ChunksOf(r)
<1> DEFINE C == [dest : FlushPieces, count : Nat \ {0}]
<1>1. Flush!FlushAssumption
  BY IterationAssumption
<1>2. \A S : Flush!Cardinality(S) = Cardinality(S)
  BY DEF Flush!Cardinality, Cardinality
<1>3. ASSUME NEW r \in Readers
      PROVE  /\ Plans[r] \in Seq(C)
             /\ Len(Plans[r]) \in Nat /\ Flush!ChunksOf(r) = 1 .. Len(Plans[r])
             /\ \A i \in Flush!ChunksOf(r) : Plans[r][i] \in C
             /\ Flush!Remote(r) \subseteq Flush!ChunksOf(r)
  <2>1. Plans[r] \in Seq(C)
    BY <1>1 DEF Flush!FlushAssumption
  <2> HIDE DEF C
  <2>2. QED
    BY <2>1 DEF Flush!ChunksOf, Flush!Remote
<1>4. QED
  BY <1>1, <1>2, <1>3

\* f counts chunk by chunk.
Counts(r, S, f) ==
  /\ f \in [0 .. Len(Plans[r]) -> Nat]
  /\ Flush!Count(r, S) = f[Len(Plans[r])]
  /\ f[0] = 0
  /\ \A n \in Nat : n + 1 \in Flush!ChunksOf(r) =>
       f[n + 1] = f[n] + (IF n + 1 \in S THEN Plans[r][n + 1].count ELSE 0)

\* The recursion of Count.
LEMMA CountStep ==
  ASSUME NEW r \in Readers, NEW S
  PROVE  \E f : Counts(r, S, f)
<1> DEFINE l == Len(Plans[r])
           D == 0 .. l
           size(n) == IF n \in S THEN Plans[r][n].count ELSE 0
           G[n \in D] == IF n = 0 THEN 0 ELSE G[n - 1] + size(n)
           Is(f) == f = [n \in D |-> IF n = 0 THEN 0 ELSE f[n - 1] + size(n)]
           stop == {0}
           base == [n \in D |-> 0]
           next == [n \in D |-> IF n = 0 THEN 0 ELSE n - 1]
           combine == [n \in D |-> [v \in Nat |-> IF n = 0 THEN 0 ELSE v + size(n)]]
           id == [n \in D |-> n]
<1>1. l \in Nat /\ Flush!ChunksOf(r) = 1 .. l /\ \A n \in 1 .. l : size(n) \in Nat
  BY ChunksHold
<1>2. Flush!Count(r, S) = G[l]
  BY DEF Flush!Count
<1> HIDE DEF l, size
<1>3. Descends(D, stop, next, id)
  BY <1>1 DEF Descends
<1>4. base \in [D -> Nat] /\ combine \in [D -> [Nat -> Nat]]
  BY <1>1
<1>5. PICK f \in [D -> Nat] : Recursive(f, D, stop, base, next, combine)
  <2> HIDE DEF D, stop, base, next, combine, id
  <2>1. QED
    BY <1>3, <1>4, RecursionExists
<1>6. Is(f)
  <2>1. ASSUME NEW n \in D, n \notin stop PROVE combine[n][f[next[n]]] = f[n - 1] + size(n)
    <3>1. n - 1 \in D /\ next[n] = n - 1 /\ f[n - 1] \in Nat
      BY <1>1, <2>1
    <3>2. QED
      BY <2>1, <3>1
  <2>2. QED
    BY <1>5, <2>1 DEF Recursive
<1>7. Is(G)
  BY <1>6
<1> HIDE DEF G
<1>8. G \in [D -> Nat]
  <2> DEFINE T == {n \in Nat : n \in D => G[n] \in Nat}
  <2>1. 0 \in T
    BY <1>7
  <2>2. ASSUME NEW n \in Nat, n \in T PROVE n + 1 \in T
    <3>1. CASE n + 1 \in D
      <4>1. n \in D /\ n + 1 # 0 /\ (n + 1) - 1 = n /\ n + 1 \in 1 .. l
        BY <1>1, <3>1
      <4>2. G[n + 1] = G[n] + size(n + 1)
        BY <1>7, <3>1, <4>1
      <4>3. QED
        BY <1>1, <2>2, <4>1, <4>2
    <3>2. QED
      BY <3>1
  <2>3. Nat \subseteq T
    <3> HIDE DEF T
    <3>1. QED
      BY <2>1, <2>2, SetInduction
  <2>4. \A n \in D : G[n] \in Nat
    BY <2>3
  <2>5. G = [n \in D |-> G[n]]
    BY <1>7
  <2>6. QED
    BY <2>4, <2>5
<1>9. G[0] = 0
  BY <1>1, <1>7
<1>10. ASSUME NEW n \in Nat, n + 1 \in 1 .. l PROVE G[n + 1] = G[n] + size(n + 1)
  <2>1. n + 1 \in D /\ n + 1 # 0 /\ (n + 1) - 1 = n
    BY <1>10
  <2>2. QED
    BY <1>7, <2>1
<1>11. QED
  BY <1>1, <1>2, <1>8, <1>9, <1>10 DEF l, size, Counts

\* No chunk has no particles, one has its own, and what is apart adds up.
LEMMA CountAdds ==
  ASSUME NEW r \in Readers, NEW S, NEW T, S \cap T = {}
  PROVE  Flush!Count(r, S \cup T) = Flush!Count(r, S) + Flush!Count(r, T) /\ Flush!Count(r, S) \in Nat
<1> DEFINE l == Len(Plans[r])
           size(n) == Plans[r][n].count
<1>1. l \in Nat /\ Flush!ChunksOf(r) = 1 .. l /\ \A n \in 1 .. l : size(n) \in Nat
  BY ChunksHold
<1>2. PICK f : Counts(r, S, f)
  BY CountStep
<1>3. PICK g : Counts(r, T, g)
  BY CountStep
<1>4. PICK h : Counts(r, S \cup T, h)
  BY CountStep
<1>5. /\ f \in [0 .. l -> Nat] /\ Flush!Count(r, S) = f[l] /\ f[0] = 0
      /\ \A n \in Nat : n + 1 \in 1 .. l => f[n + 1] = f[n] + (IF n + 1 \in S THEN size(n + 1) ELSE 0)
  BY <1>1, <1>2 DEF Counts
<1>6. /\ g \in [0 .. l -> Nat] /\ Flush!Count(r, T) = g[l] /\ g[0] = 0
      /\ \A n \in Nat : n + 1 \in 1 .. l => g[n + 1] = g[n] + (IF n + 1 \in T THEN size(n + 1) ELSE 0)
  BY <1>1, <1>3 DEF Counts
<1>7. /\ h \in [0 .. l -> Nat] /\ Flush!Count(r, S \cup T) = h[l] /\ h[0] = 0
      /\ \A n \in Nat : n + 1 \in 1 .. l =>
           h[n + 1] = h[n] + (IF n + 1 \in S \cup T THEN size(n + 1) ELSE 0)
  BY <1>1, <1>4 DEF Counts
<1> HIDE DEF l, size
<1> DEFINE R == {n \in Nat : n <= l => h[n] = f[n] + g[n]}
<1>8. 0 \in R
  BY <1>1, <1>5, <1>6, <1>7
<1>9. ASSUME NEW n \in Nat, n \in R PROVE n + 1 \in R
  <2>1. SUFFICES ASSUME n + 1 <= l PROVE h[n + 1] = f[n + 1] + g[n + 1]
    OBVIOUS
  <2>2. n + 1 \in 1 .. l /\ n \in 0 .. l /\ n <= l
    BY <1>1, <2>1
  <2>3. f[n] \in Nat /\ g[n] \in Nat /\ h[n] = f[n] + g[n] /\ size(n + 1) \in Nat
    BY <1>1, <1>5, <1>6, <1>9, <2>2
  <2>4. /\ f[n + 1] = f[n] + (IF n + 1 \in S THEN size(n + 1) ELSE 0)
        /\ g[n + 1] = g[n] + (IF n + 1 \in T THEN size(n + 1) ELSE 0)
        /\ h[n + 1] = h[n] + (IF n + 1 \in S \cup T THEN size(n + 1) ELSE 0)
    BY <1>1, <1>5, <1>6, <1>7, <2>2
  <2>5. CASE n + 1 \in S
    BY <2>3, <2>4, <2>5
  <2>6. CASE n + 1 \in T
    BY <2>3, <2>4, <2>6
  <2>7. CASE n + 1 \notin S \cup T
    BY <2>3, <2>4, <2>7
  <2>8. QED
    BY <2>5, <2>6, <2>7
<1>10. Nat \subseteq R
  <2> HIDE DEF R
  <2>1. QED
    BY <1>8, <1>9, SetInduction
<1>11. h[l] = f[l] + g[l]
  BY <1>1, <1>10
<1>12. QED
  BY <1>1, <1>5, <1>6, <1>7, <1>11

LEMMA CountNone ==
  ASSUME NEW r \in Readers
  PROVE  Flush!Count(r, {}) = 0
<1>1. Flush!Count(r, {} \cup {}) = Flush!Count(r, {}) + Flush!Count(r, {}) /\ Flush!Count(r, {}) \in Nat
  BY CountAdds
<1>2. PICK n \in Nat : n = Flush!Count(r, {})
  BY <1>1
<1>3. {} \cup {} = {}
  OBVIOUS
<1>4. n = n + n
  BY <1>1, <1>2, <1>3, Zenon
<1>5. n = 0
  <2>1. \A i \in Nat : i = i + i => i = 0
    OBVIOUS
  <2>2. QED
    BY <1>4, <2>1
<1>6. QED
  BY <1>2, <1>5

LEMMA CountOne ==
  ASSUME NEW r \in Readers, NEW i \in Flush!ChunksOf(r)
  PROVE  Flush!Count(r, {i}) = Plans[r][i].count
<1> DEFINE l == Len(Plans[r])
           size(n) == Plans[r][n].count
<1>1. l \in Nat /\ i \in 1 .. l /\ Flush!ChunksOf(r) = 1 .. l /\ \A n \in 1 .. l : size(n) \in Nat
  BY ChunksHold
<1>2. PICK f : Counts(r, {i}, f)
  BY CountStep
<1>3. /\ f \in [0 .. l -> Nat] /\ Flush!Count(r, {i}) = f[l] /\ f[0] = 0
      /\ \A n \in Nat : n + 1 \in 1 .. l => f[n + 1] = f[n] + (IF n + 1 = i THEN size(n + 1) ELSE 0)
  BY <1>1, <1>2 DEF Counts
<1> HIDE DEF l, size
<1> DEFINE R == {n \in Nat : n <= l => f[n] = IF n < i THEN 0 ELSE size(i)}
<1>4. 0 \in R
  BY <1>1, <1>3
<1>5. ASSUME NEW n \in Nat, n \in R PROVE n + 1 \in R
  <2>1. SUFFICES ASSUME n + 1 <= l PROVE f[n + 1] = IF n + 1 < i THEN 0 ELSE size(i)
    OBVIOUS
  <2>2. n + 1 \in 1 .. l /\ n <= l
    BY <1>1, <2>1
  <2>3. f[n] = (IF n < i THEN 0 ELSE size(i)) /\ size(i) \in Nat
    BY <1>1, <1>5, <2>2
  <2>4. f[n + 1] = f[n] + (IF n + 1 = i THEN size(n + 1) ELSE 0)
    BY <1>1, <1>3, <2>2
  <2>5. CASE n + 1 = i
    BY <2>3, <2>4, <2>5
  <2>6. CASE n + 1 # i
    <3>1. n + 1 < i <=> n < i
      BY <1>1, <2>6
    <3>2. QED
      BY <2>3, <2>4, <2>6, <3>1
  <2>7. QED
    BY <2>5, <2>6
<1>6. Nat \subseteq R
  <2> HIDE DEF R
  <2>1. QED
    BY <1>4, <1>5, SetInduction
<1>7. f[l] = size(i)
  BY <1>1, <1>6
<1>8. QED
  BY <1>3, <1>7 DEF size

\* The plan has each chunk that is not handed over once, in order.
LEMMA PlanIs ==
  ASSUME NEW r \in Readers
  PROVE  /\ Flush!PlanOf(r) \in Seq(Flush!ChunksOf(r)) /\ Len(Flush!PlanOf(r)) \in Nat
         /\ DOMAIN Flush!PlanOf(r) = 1 .. Len(Flush!PlanOf(r)) /\ Len(Flush!PlanOf(r)) <= Len(Plans[r])
         /\ {Flush!PlanOf(r)[j] : j \in 1 .. Len(Flush!PlanOf(r))} = Flush!Remote(r)
         /\ \A i, j \in 1 .. Len(Flush!PlanOf(r)) : Flush!PlanOf(r)[i] = Flush!PlanOf(r)[j] => i = j
         /\ Flush!PlanOf(r) = << >> <=> Flush!Remote(r) = {}
<1> DEFINE N == Flush!Remote(r)
           key == [i \in N |-> i]
           C == Flush!ChunksOf(r)
           c == Cardinality(N)
           s == [n \in 1 .. c |-> CHOOSE i \in N : Flush!Turn(r, i) = n]
<1>1. /\ N \subseteq C /\ C = 1 .. Len(Plans[r]) /\ Len(Plans[r]) \in Nat /\ N \subseteq Nat
  BY ChunksHold
<1>2. IsFiniteSet(N) /\ c \in Nat /\ c <= Len(Plans[r])
  <2>1. IsFiniteSet(C) /\ Cardinality(C) = Len(Plans[r])
    BY <1>1, FS_Interval
  <2>2. N \in SUBSET C
    BY <1>1
  <2> HIDE DEF N, C
  <2>3. QED
    BY <2>1, <2>2, FS_Subset, FS_CardinalityType
<1>3. Flush!PlanOf(r) = s /\ \A i \in N : Flush!Turn(r, i) = PlaceIn(N, key, i)
  <2>1. \A i \in N : {j \in N : j <= i} = {j \in N : key[j] <= key[i]}
    OBVIOUS
  <2>2. \A i \in N : Flush!Turn(r, i) = PlaceIn(N, key, i)
    BY <2>1, ChunksHold DEF PlaceIn, Flush!Turn
  <2>3. Flush!Cardinality(N) = c
    BY ChunksHold
  <2>4. QED
    BY <2>2, <2>3 DEF Flush!PlanOf
<1>4. (\A m \in N : key[m] \in Nat) /\ \A m, n \in N : key[m] = key[n] => m = n
  BY <1>1
<1> HIDE DEF N, key, C
<1>5. /\ \A m \in N : PlaceIn(N, key, m) \in 1 .. c
      /\ \A i \in 1 .. c : \E m \in N : PlaceIn(N, key, m) = i
      /\ \A m, n \in N : PlaceIn(N, key, m) = PlaceIn(N, key, n) => m = n
  BY <1>2, <1>4, PlacesSort
<1> HIDE DEF c
<1>6. DOMAIN s = 1 .. c /\ \A i \in 1 .. c : s[i] \in N /\ PlaceIn(N, key, s[i]) = i
  BY <1>3, <1>5
<1>7. s \in Seq(C) /\ Len(s) = c
  <2>1. s = [i \in 1 .. c |-> s[i]]
    OBVIOUS
  <2> HIDE DEF s
  <2>2. \A i \in 1 .. c : s[i] \in C
    BY <1>1, <1>6
  <2>3. QED
    BY <1>2, <2>1, <2>2
<1> HIDE DEF s
<1>8. {s[j] : j \in 1 .. c} = N /\ \A i, j \in 1 .. c : s[i] = s[j] => i = j
  BY <1>5, <1>6
<1>9. s = << >> <=> N = {}
  <2>1. s = << >> <=> c = 0
    BY <1>2, <1>6, <1>7
  <2>2. c = 0 <=> 1 .. c = {}
    BY <1>2
  <2>3. QED
    BY <1>8, <2>1, <2>2
<1>10. QED
  BY <1>2, <1>3, <1>6, <1>7, <1>8, <1>9 DEF C, N

\* Where a loop from i to l stops.
LEMMA LoopStops ==
  ASSUME NEW i \in Nat, NEW l \in Nat, i <= l, NEW S
  PROVE  \E n \in i .. l : (\A j \in i .. n - 1 : j \in S) /\ (n = l \/ n \notin S)
<1> DEFINE Stops(n) == n \in i .. l /\ (n = l \/ n \notin S)
           T == {n \in Nat : ~ Stops(n)}
<1>1. SUFFICES ASSUME \A n \in Nat : Stops(n) => \E j \in i .. n - 1 : j \notin S PROVE FALSE
  OBVIOUS
<1>2. ASSUME NEW n \in Nat, \A j \in Nat : j < n => j \in T PROVE n \in T
  <2>1. SUFFICES ASSUME Stops(n) PROVE FALSE
    OBVIOUS
  <2>2. PICK j \in i .. n - 1 : j \notin S
    BY <1>1, <2>1
  <2>3. j \in Nat /\ j < n /\ Stops(j)
    BY <2>1, <2>2
  <2>4. QED
    BY <1>2, <2>3
<1>3. Nat \subseteq T
  <2> HIDE DEF T
  <2>1. QED
    BY <1>2, StrongInduction
<1>4. Stops(l)
  OBVIOUS
<1>5. QED
  BY <1>3, <1>4

-----------------------------------------------------------------------------
\* The inductive invariant of the flush.

\* Messages are acknowledged.
Windowed == window > 0 /\ in_place

\* The chunks of r that have been posted.
Gone(r) ==
  IF r \in asked THEN {}
  ELSE IF flush_plan[r] = << >> THEN Flush!Remote(r)
  ELSE {flush_plan[r][j] : j \in 1 .. flush_next[r]}

\* Chunk i of r is in a message; its particles are with their piece.
Carried(r, i) == \E m \in messages : m.from = r /\ m.chunk = i
Delivered(r, i) == r \notin asked /\ (i \notin Flush!Remote(r) \/ (i \in Gone(r) /\ ~ Carried(r, i)))

\* The chunks of r that count.
Flight(r) ==
  {m.chunk : m \in {n \in messages : n.from = r /\ n.sender}}
    \cup {a.chunk : a \in {b \in acks : b.to = r}}

\* A flight exceeds the window by a chunk at most.
Fits(r, n) == n > 0 => \E i \in Flush!ChunksOf(r) : n - Plans[r][i].count < window

FlushTypes ==
  /\ window \in {s.window : s \in Scenarios} /\ in_place \in BOOLEAN
  /\ particles \in [Readers -> SUBSET Nat]
  /\ flush_plan \in [Readers -> Seq(Nat)]
  /\ flush_next \in [Readers -> Nat]
  /\ flush_outstanding \in [Readers -> Nat]
  /\ asked \subseteq Readers
  /\ incoming \in [FlushPieces -> SUBSET Flush!ChunkIds]
  /\ exchange \in 0 .. Exchanges /\ flushing \in BOOLEAN

\* A reader that holds a plan has stopped at the window, and keeps its particles until
\* the plan is through.
Holding(r) ==
  /\ flush_next[r] <= Len(Plans[r])
  /\ particles[r] = IF r \in asked \/ flush_plan[r] # << >> THEN Flush!ChunksOf(r) ELSE {}
  /\ flush_plan[r] # << >> =>
       /\ flushing /\ Windowed /\ r \notin asked
       /\ flush_plan[r] = Flush!PlanOf(r) /\ flush_next[r] < Len(Flush!PlanOf(r))
       /\ flush_outstanding[r] >= window
PlanInv == \A r \in Readers : Holding(r)

\* What is under way is a posted chunk, intact; an ack is of one that has arrived.
Letter(r, i) ==
  [from |-> r, chunk |-> i, dest |-> Plans[r][i].dest, sender |-> Windowed, content |-> <<r, i>>]
NetInv ==
  /\ \A m \in messages : \E r \in Readers : \E i \in Gone(r) : m = Letter(r, i)
  /\ \A a \in acks : \E r \in Readers : \E i \in Gone(r) :
       a = [to |-> r, chunk |-> i] /\ ~ Carried(r, i) /\ Windowed
  /\ ~ flushing => asked = {} /\ messages = {} /\ acks = {}

\* The counter is what is in flight.
FlightInv ==
  \A r \in Readers :
    flush_outstanding[r] = Flush!Count(r, Flight(r)) /\ Fits(r, flush_outstanding[r])

\* A piece has what has been delivered to it.
DeliveryInv ==
  exchange > 0 =>
    \A t \in FlushPieces : \A c : c \in incoming[t] <=>
      \E r \in Readers : \E i \in Flush!ChunksOf(r) :
        c = <<r, i>> /\ Plans[r][i].dest = t /\ Delivered(r, i)

FlushInv == FlushTypes /\ PlanInv /\ NetInv /\ FlightInv /\ DeliveryInv /\ (flushing => exchange > 0)

\* The loop posts chunks P, the next n - from of the plan.
Pumped(r, from, out, n, P) ==
  /\ P = {Flush!PlanOf(r)[j] : j \in from + 1 .. n}
  /\ messages' = messages \cup {Letter(r, i) : i \in P}
  /\ flush_next' = [flush_next EXCEPT ![r] = n]
  /\ flush_outstanding' = [flush_outstanding EXCEPT ![r] = out + Flush!Count(r, P)]
  /\ Flush!Count(r, P) \in Nat /\ Fits(r, out + Flush!Count(r, P))
  /\ IF n = Len(Flush!PlanOf(r))
       THEN /\ flush_plan' = [flush_plan EXCEPT ![r] = << >>]
            /\ particles' = [particles EXCEPT ![r] = {}]
       ELSE /\ flush_plan' = [flush_plan EXCEPT ![r] = Flush!PlanOf(r)]
            /\ particles' = particles
            /\ out + Flush!Count(r, P) >= window

\* A reader's loop posts the next chunks of the plan, at least one while the window is
\* open, and stops past the window or with the plan through.
LEMMA PumpDoes ==
  ASSUME FlushTypes, Windowed, NEW r \in Readers, NEW from \in Nat, from < Len(Flush!PlanOf(r)),
         NEW out \in Nat, Fits(r, out), particles[r] = Flush!ChunksOf(r),
         Flush!Pump(r, Flush!PlanOf(r), out, from)
  PROVE  \E n \in from .. Len(Flush!PlanOf(r)) : \E P :
           Pumped(r, from, out, n, P)
<1> DEFINE plan == Flush!PlanOf(r)
           l == Len(plan)
           S == {j \in Nat : Flush!Opens(r, plan, out, from, j)}
           n == Flush!PumpedTo(r, plan, out, from)
           P == {plan[j] : j \in from + 1 .. n}
           Stops(k) == /\ \A j \in from .. k - 1 : Flush!Opens(r, plan, out, from, j)
                       /\ k = l \/ ~ Flush!Opens(r, plan, out, from, k)
<1>1. /\ l \in Nat /\ \A j \in 1 .. l : plan[j] \in Flush!Remote(r)
      /\ \A i, j \in 1 .. l : plan[i] = plan[j] => i = j
      /\ plan # << >>
  <2>1. /\ l \in Nat /\ {plan[j] : j \in 1 .. l} = Flush!Remote(r)
        /\ \A i, j \in 1 .. l : plan[i] = plan[j] => i = j
    BY PlanIs
  <2>2. plan # << >>
    <3>1. l > 0
      BY <2>1
    <3> HIDE DEF plan
    <3>2. QED
      BY <3>1
  <2> HIDE DEF plan
  <2>3. QED
    BY <2>1, <2>2
<1>2. /\ messages' = messages \cup {Flush!Message(r, plan[j], TRUE) : j \in from + 1 .. n}
      /\ flush_next' = [flush_next EXCEPT ![r] = n]
      /\ flush_outstanding' = [flush_outstanding EXCEPT ![r] = out + Flush!Count(r, P)]
      /\ IF n = l
           THEN /\ flush_plan' = [flush_plan EXCEPT ![r] = << >>]
                /\ particles' = [particles EXCEPT ![r] = {}]
           ELSE /\ flush_plan' = [flush_plan EXCEPT ![r] = plan]
                /\ particles' = particles
  BY <1>1 DEF Flush!Pump, Flush!Posted, Flush!Released
<1>3. n \in from .. l /\ Stops(n)
  <2>1. \E k \in from .. l : (\A j \in from .. k - 1 : j \in S) /\ (k = l \/ k \notin S)
    <3>1. from <= l
      BY <1>1
    <3> HIDE DEF S, l
    <3>2. QED
      BY <1>1, <3>1, LoopStops
  <2>2. \E k \in from .. l : Stops(k)
    <3> HIDE DEF plan
    <3>1. QED
      BY <1>1, <2>1
  <2>3. n = CHOOSE k \in from .. l : Stops(k)
    BY DEF Flush!PumpedTo
  <2> HIDE DEF n, l, Stops
  <2>4. QED
    BY <2>2, <2>3
<1> HIDE DEF n
<1>4. {Flush!Message(r, plan[j], TRUE) : j \in from + 1 .. n} = {Letter(r, i) : i \in P}
  <2>1. ASSUME NEW j \in from + 1 .. n PROVE Flush!Message(r, plan[j], TRUE) = Letter(r, plan[j])
    <3>1. plan[j] \in Flush!ChunksOf(r)
      <4>1. j \in 1 .. l
        BY <1>1, <1>3
      <4>2. QED
        BY <1>1, <4>1, ChunksHold
    <3>2. Flush!Content(r, plan[j]) = <<r, plan[j]>>
      BY <3>1 DEF Flush!Content
    <3>3. Windowed = TRUE
      OBVIOUS
    <3> HIDE DEF plan
    <3>4. QED
      BY <3>2, <3>3, Zenon DEF Flush!Message, Letter
  <2> HIDE DEF plan
  <2>2. QED
    BY <2>1
<1>5. window \in Nat /\ window > 0
  BY IterationAssumption DEF FlushTypes, Flush!FlushAssumption, Windowed
<1>6. Flush!Count(r, P) \in Nat
  <2>1. P \cap {} = {}
    OBVIOUS
  <2> HIDE DEF P
  <2>2. QED
    BY <2>1, CountAdds
<1>7. Fits(r, out + Flush!Count(r, P))
  <2>1. CASE n = from
    <3>1. P = {}
      <4>1. from + 1 .. n = {}
        BY <2>1
      <4>2. QED
        BY <4>1
    <3>2. Flush!Count(r, P) = 0
      BY <3>1, CountNone
    <3>3. out + Flush!Count(r, P) = out
      BY <3>2
    <3>4. QED
      BY <3>3
  <2>2. CASE n # from
    <3> DEFINE i == plan[n]
               Q == {plan[j] : j \in from + 1 .. n - 1}
    <3>1. n - 1 \in from .. n - 1 /\ n \in 1 .. l /\ n \in Nat
      BY <1>1, <1>3, <2>2
    <3>2. out + Flush!Count(r, Q) < window
      <4>1. Flush!Opens(r, plan, out, from, n - 1)
        BY <1>3, <3>1
      <4>2. QED
        BY <4>1 DEF Flush!Opens, Flush!Posted
    <3>3. P = Q \cup {i} /\ Q \cap {i} = {}
      <4>1. from + 1 .. n = (from + 1 .. n - 1) \cup {n}
        BY <1>3, <2>2
      <4>2. \A j \in from + 1 .. n - 1 : j \in 1 .. l /\ j # n
        BY <1>1, <1>3
      <4> HIDE DEF plan
      <4>3. QED
        BY <1>1, <3>1, <4>1, <4>2
    <3>4. i \in Flush!ChunksOf(r) /\ Plans[r][i].count \in Nat
      BY <1>1, <3>1, ChunksHold
    <3> HIDE DEF P, Q, i
    <3>5. Flush!Count(r, P) = Flush!Count(r, Q) + Plans[r][i].count /\ Flush!Count(r, Q) \in Nat
      <4>1. Flush!Count(r, Q \cup {i}) = Flush!Count(r, Q) + Flush!Count(r, {i}) /\ Flush!Count(r, Q) \in Nat
        BY <3>3, CountAdds
      <4>2. Flush!Count(r, {i}) = Plans[r][i].count
        BY <3>4, CountOne
      <4>3. QED
        BY <3>3, <4>1, <4>2
    <3>6. (out + Flush!Count(r, P)) - Plans[r][i].count < window
      BY <1>5, <3>2, <3>4, <3>5
    <3>7. QED
      BY <3>4, <3>6 DEF Fits
  <2>3. QED
    BY <2>1, <2>2
<1>8. n # l => out + Flush!Count(r, P) >= window
  <2>1. n # l => ~ (out + Flush!Count(r, P) < window)
    BY <1>3 DEF Flush!Opens, Flush!Posted
  <2> HIDE DEF P
  <2>2. QED
    BY <1>5, <1>6, <2>1
<1> HIDE DEF P, plan
<1>9. QED
  BY <1>2, <1>3, <1>4, <1>6, <1>7, <1>8 DEF P, plan, Pumped

\* A step in which reader r posts chunks P and hears of the arrival of chunks D.
Sends(r, P, D) ==
  /\ messages' = messages \cup {Letter(r, i) : i \in P}
  /\ acks' = acks \ {[to |-> r, chunk |-> i] : i \in D}
  /\ window' = window /\ in_place' = in_place /\ flushing' = flushing
  /\ P \subseteq Flush!Remote(r) \ Gone(r)
  /\ \A i \in D : [to |-> r, chunk |-> i] \in acks
  /\ \A q \in Readers : Gone(q)' = IF q = r THEN Gone(q) \cup P ELSE Gone(q)

LEMMA LettersAre ==
  ASSUME NetInv
  PROVE  /\ \A m \in messages : /\ m.from \in Readers /\ m.chunk \in Gone(m.from)
                                /\ m.dest = Plans[m.from][m.chunk].dest
                                /\ m.content = <<m.from, m.chunk>>
                                /\ m.sender <=> Windowed
                                /\ m = Letter(m.from, m.chunk)
         /\ \A a \in acks : /\ a.to \in Readers /\ a.chunk \in Gone(a.to)
                            /\ ~ Carried(a.to, a.chunk) /\ Windowed
                            /\ a = [to |-> a.to, chunk |-> a.chunk]
<1>1. ASSUME NEW m \in messages
      PROVE  /\ m.from \in Readers /\ m.chunk \in Gone(m.from)
             /\ m.dest = Plans[m.from][m.chunk].dest
             /\ m.content = <<m.from, m.chunk>>
             /\ m.sender <=> Windowed
             /\ m = Letter(m.from, m.chunk)
  <2>1. PICK r \in Readers : \E i \in Gone(r) : m = Letter(r, i)
    BY <1>1 DEF NetInv
  <2>2. PICK i \in Gone(r) : m = Letter(r, i)
    BY <2>1
  <2>3. /\ m.from = r /\ m.chunk = i /\ m.dest = Plans[r][i].dest
        /\ m.content = <<r, i>> /\ m.sender = Windowed
    BY <2>2 DEF Letter
  <2>4. QED
    BY <2>2, <2>3
<1>2. ASSUME NEW a \in acks
      PROVE  /\ a.to \in Readers /\ a.chunk \in Gone(a.to)
             /\ ~ Carried(a.to, a.chunk) /\ Windowed
             /\ a = [to |-> a.to, chunk |-> a.chunk]
  <2>1. PICK r \in Readers : \E i \in Gone(r) :
          a = [to |-> r, chunk |-> i] /\ ~ Carried(r, i) /\ Windowed
    BY <1>2 DEF NetInv
  <2>2. PICK i \in Gone(r) : a = [to |-> r, chunk |-> i] /\ ~ Carried(r, i) /\ Windowed
    BY <2>1
  <2>3. a.to = r /\ a.chunk = i
    BY <2>2
  <2>4. QED
    BY <2>2, <2>3
<1>3. QED
  BY <1>1, <1>2

LEMMA LetterIs ==
  ASSUME NEW r, NEW i
  PROVE  /\ Letter(r, i).from = r /\ Letter(r, i).chunk = i /\ Letter(r, i).sender = Windowed
         /\ Letter(r, i).dest = Plans[r][i].dest /\ Letter(r, i).content = <<r, i>>
  BY DEF Letter

\* What is under way and what is counted after such a step.
LEMMA SendsKept ==
  ASSUME NetInv, flushing, NEW r \in Readers, NEW P, NEW D, Sends(r, P, D)
  PROVE  /\ NetInv'
         /\ \A q \in Readers : \A i : Carried(q, i)' <=> Carried(q, i) \/ (q = r /\ i \in P)
         /\ \A q \in Readers : q # r => Flight(q)' = Flight(q)
         /\ Flight(r)' = (Flight(r) \ D) \cup (IF Windowed THEN P ELSE {})
         /\ D \subseteq Flight(r) /\ Flight(r) \subseteq Gone(r)
<1>1. Windowed' = Windowed /\ \A q, i : Letter(q, i)' = Letter(q, i)
  BY DEF Sends, Windowed, Letter
<1>2. \A q \in Readers : \A i : Carried(q, i)' <=> Carried(q, i) \/ (q = r /\ i \in P)
  <2>1. ASSUME NEW q \in Readers, NEW i
        PROVE  Carried(q, i)' <=> Carried(q, i) \/ (q = r /\ i \in P)
    <3>1. messages' = messages \cup {Letter(r, k) : k \in P}
      BY DEF Sends
    <3>2. \A k \in P : Letter(r, k).from = r /\ Letter(r, k).chunk = k
      BY LetterIs
    <3>3. QED
      BY <3>1, <3>2 DEF Carried
  <2>2. QED
    BY <2>1
<1>3. ASSUME NEW m \in messages' PROVE \E q \in Readers : \E i \in Gone(q)' : m = Letter(q, i)'
  <2>1. CASE m \in messages
    <3>1. PICK q \in Readers : \E i \in Gone(q) : m = Letter(q, i)
      BY <2>1 DEF NetInv
    <3>2. PICK i \in Gone(q) : m = Letter(q, i)
      BY <3>1
    <3>3. i \in Gone(q)'
      BY <3>2 DEF Sends
    <3>4. QED
      BY <1>1, <3>2, <3>3
  <2>2. CASE m \notin messages
    <3>1. PICK i \in P : m = Letter(r, i)
      BY <1>3, <2>2 DEF Sends
    <3>2. i \in Gone(r)'
      BY <3>1 DEF Sends
    <3>3. QED
      BY <1>1, <3>1, <3>2
  <2>3. QED
    BY <2>1, <2>2
<1>4. ASSUME NEW a \in acks'
      PROVE  \E q \in Readers : \E i \in Gone(q)' :
               a = [to |-> q, chunk |-> i] /\ ~ Carried(q, i)' /\ Windowed'
  <2>1. a \in acks
    BY <1>4 DEF Sends
  <2>2. PICK q \in Readers : \E i \in Gone(q) :
          a = [to |-> q, chunk |-> i] /\ ~ Carried(q, i) /\ Windowed
    BY <2>1 DEF NetInv
  <2>3. PICK i \in Gone(q) : a = [to |-> q, chunk |-> i] /\ ~ Carried(q, i) /\ Windowed
    BY <2>2
  <2>4. i \in Gone(q)'
    BY <2>3 DEF Sends
  <2>5. ~ (q = r /\ i \in P)
    BY <2>3 DEF Sends
  <2>6. ~ Carried(q, i)'
    BY <1>2, <2>3, <2>5
  <2>7. QED
    BY <1>1, <2>3, <2>4, <2>6
<1>5. NetInv'
  <2>1. flushing' = TRUE
    BY DEF Sends
  <2>2. QED
    BY <1>3, <1>4, <2>1 DEF NetInv
<1>6. \A q \in Readers : q # r => Flight(q)' = Flight(q)
  <2>1. ASSUME NEW q \in Readers, q # r PROVE Flight(q)' = Flight(q)
    <3>1. {n \in messages' : n.from = q /\ n.sender} = {n \in messages : n.from = q /\ n.sender}
      <4>1. \A i \in P : Letter(r, i).from # q
        BY <2>1, LetterIs
      <4>2. QED
        BY <4>1 DEF Sends
    <3>2. {b \in acks' : b.to = q} = {b \in acks : b.to = q}
      BY <2>1 DEF Sends
    <3>3. QED
      BY <3>1, <3>2 DEF Flight
  <2>2. QED
    BY <2>1
<1>7. D \subseteq Flight(r)
  <2>1. ASSUME NEW i \in D PROVE i \in Flight(r)
    <3> DEFINE a == [to |-> r, chunk |-> i]
    <3>1. a \in acks /\ a.to = r /\ a.chunk = i
      BY DEF Sends
    <3>2. QED
      BY <3>1 DEF Flight
  <2>2. QED
    BY <2>1
<1>8. Flight(r) \subseteq Gone(r)
  BY LettersAre DEF Flight
<1>9. ASSUME NEW i PROVE i \in Flight(r)' <=> i \in (Flight(r) \ D) \cup (IF Windowed THEN P ELSE {})
  <2>1. i \in Flight(r)' <=> \/ \E m \in messages' : m.from = r /\ m.sender /\ m.chunk = i
                             \/ \E a \in acks' : a.to = r /\ a.chunk = i
    BY DEF Flight
  <2>2. i \in Flight(r) <=> \/ \E m \in messages : m.from = r /\ m.sender /\ m.chunk = i
                            \/ \E a \in acks : a.to = r /\ a.chunk = i
    BY DEF Flight
  <2>3. (\E m \in messages' : m.from = r /\ m.sender /\ m.chunk = i)
          <=> (\E m \in messages : m.from = r /\ m.sender /\ m.chunk = i) \/ (Windowed /\ i \in P)
    <3>1. \A k \in P : Letter(r, k).from = r /\ Letter(r, k).chunk = k /\ (Letter(r, k).sender <=> Windowed)
      BY LetterIs
    <3>2. messages' = messages \cup {Letter(r, k) : k \in P}
      BY DEF Sends
    <3>3. QED
      BY <3>1, <3>2
  <2>4. (\E a \in acks' : a.to = r /\ a.chunk = i)
          <=> (\E a \in acks : a.to = r /\ a.chunk = i) /\ i \notin D
    <3>1. acks' = acks \ {[to |-> r, chunk |-> k] : k \in D}
      BY DEF Sends
    <3>2. \A a \in acks : a = [to |-> a.to, chunk |-> a.chunk]
      BY LettersAre
    <3>3. QED
      BY <3>1, <3>2
  <2>5. i \in D => ~ \E m \in messages : m.from = r /\ m.sender /\ m.chunk = i
    <3>1. SUFFICES ASSUME i \in D PROVE ~ Carried(r, i)
      BY DEF Carried
    <3> DEFINE a == [to |-> r, chunk |-> i]
    <3>2. a \in acks /\ a.to = r /\ a.chunk = i
      BY <3>1 DEF Sends
    <3>3. QED
      BY <3>2, LettersAre
  <2>6. Windowed /\ i \in P => i \notin D
    BY <1>7, <1>8 DEF Sends
  <2>7. QED
    BY <2>1, <2>2, <2>3, <2>4, <2>5, <2>6
<1>10. QED
  BY <1>2, <1>5, <1>6, <1>7, <1>8, <1>9

LEMMA IdsAre ==
  ASSUME NEW r \in Readers, NEW i \in Flush!ChunksOf(r)
  PROVE  <<r, i>> \in Flush!ChunkIds
BY DEF Flush!ChunkIds

\* The counter after such a step.
LEMMA FlightSent ==
  ASSUME FlushTypes, NetInv, FlightInv, flushing, NEW r \in Readers, NEW P, NEW D, Sends(r, P, D),
         NEW k, flush_outstanding' = [flush_outstanding EXCEPT ![r] = k], Fits(r, k),
         k = Flush!Count(r, Flight(r) \ D) + (IF Windowed THEN Flush!Count(r, P) ELSE 0)
  PROVE  FlightInv'
<1>1. window' = window /\ \A q, n : Fits(q, n)' <=> Fits(q, n)
  BY DEF Sends, Fits
<1>2. ASSUME NEW q \in Readers
      PROVE  flush_outstanding'[q] = Flush!Count(q, Flight(q)') /\ Fits(q, flush_outstanding'[q])
  <2>1. CASE q # r
    <3>1. Flight(q)' = Flight(q)
      BY <2>1, SendsKept
    <3>2. flush_outstanding'[q] = flush_outstanding[q]
      BY <2>1 DEF FlushTypes
    <3>3. flush_outstanding[q] = Flush!Count(q, Flight(q)) /\ Fits(q, flush_outstanding[q])
      BY DEF FlightInv
    <3>4. QED
      BY <3>1, <3>2, <3>3, Zenon
  <2>2. CASE q = r
    <3> DEFINE F == Flight(r) \ D
               W == IF Windowed THEN P ELSE {}
    <3>1. Flight(r)' = F \cup W /\ F \cap W = {}
      <4>1. Flight(r)' = F \cup W /\ Flight(r) \subseteq Gone(r)
        BY SendsKept
      <4>2. P \cap Gone(r) = {}
        BY DEF Sends
      <4>3. QED
        BY <4>1, <4>2
    <3>2. Flush!Count(r, F \cup W) = Flush!Count(r, F) + Flush!Count(r, W)
      <4> HIDE DEF F, W
      <4>1. QED
        BY <3>1, CountAdds
    <3>3. Flush!Count(r, W) = IF Windowed THEN Flush!Count(r, P) ELSE 0
      BY CountNone
    <3>4. k = Flush!Count(r, F) + Flush!Count(r, W)
      BY <3>3
    <3>5. flush_outstanding'[r] = k
      BY DEF FlushTypes
    <3> HIDE DEF F, W
    <3>6. k = Flush!Count(r, Flight(r)')
      BY <3>1, <3>2, <3>4, Zenon
    <3>7. QED
      BY <2>2, <3>5, <3>6, Zenon
  <2>3. QED
    BY <2>1, <2>2
<1>3. QED
  BY <1>1, <1>2 DEF FlightInv

\* The other readers are as they were.
LEMMA OthersHold ==
  ASSUME NEW r \in Readers, NEW q \in Readers, q # r, Holding(q),
         asked' = asked \ {r}, window' = window, in_place' = in_place, flushing' = flushing,
         particles'[q] = particles[q], flush_plan'[q] = flush_plan[q],
         flush_next'[q] = flush_next[q], flush_outstanding'[q] = flush_outstanding[q]
  PROVE  Holding(q)' /\ Gone(q)' = Gone(q)
<1>1. q \in asked' <=> q \in asked
  OBVIOUS
<1>2. Windowed' = Windowed
  BY DEF Windowed
<1>3. Holding(q)'
  BY <1>1, <1>2 DEF Holding
<1>4. QED
  BY <1>1, <1>3 DEF Gone

\* What the invariant says of the readers and of what is under way.
SentInv ==
  /\ particles' \in [Readers -> SUBSET Nat]
  /\ flush_plan' \in [Readers -> Seq(Nat)]
  /\ flush_next' \in [Readers -> Nat]
  /\ flush_outstanding' \in [Readers -> Nat]
  /\ PlanInv' /\ NetInv' /\ FlightInv'

LEMMA SeqWithin ==
  ASSUME NEW C, NEW T, C \subseteq T, NEW s \in Seq(C)
  PROVE  s \in Seq(T)
<1>1. \A i \in 1 .. Len(s) : s[i] \in T
  OBVIOUS
<1>2. s = [i \in 1 .. Len(s) |-> s[i]] /\ Len(s) \in Nat
  OBVIOUS
<1>3. QED
  BY <1>1, <1>2

\* The loop, run from where the last one stopped, when the arrival of D is known.
LEMMA PumpKept ==
  ASSUME FlushTypes, PlanInv, NetInv, FlightInv, flushing, Windowed, NEW r \in Readers, NEW D,
         \A i \in D : [to |-> r, chunk |-> i] \in acks,
         NEW from \in Nat, from < Len(Flush!PlanOf(r)), Gone(r) = {Flush!PlanOf(r)[j] : j \in 1 .. from},
         NEW out \in Nat, out = Flush!Count(r, Flight(r) \ D), Fits(r, out), particles[r] = Flush!ChunksOf(r),
         Flush!Pump(r, Flush!PlanOf(r), out, from),
         acks' = acks \ {[to |-> r, chunk |-> i] : i \in D}, asked' = asked \ {r},
         window' = window, in_place' = in_place, flushing' = flushing
  PROVE  SentInv /\ \E P : Sends(r, P, D)
<1> DEFINE plan == Flush!PlanOf(r)
           l == Len(plan)
<1>1. /\ l \in Nat /\ l <= Len(Plans[r]) /\ Len(Plans[r]) \in Nat /\ {plan[j] : j \in 1 .. l} = Flush!Remote(r)
      /\ \A i, j \in 1 .. l : plan[i] = plan[j] => i = j
      /\ plan # << >> /\ plan \in Seq(Nat)
  <2>1. /\ l \in Nat /\ l <= Len(Plans[r]) /\ {plan[j] : j \in 1 .. l} = Flush!Remote(r)
        /\ \A i, j \in 1 .. l : plan[i] = plan[j] => i = j
        /\ plan \in Seq(Flush!ChunksOf(r))
    BY PlanIs
  <2>2. Flush!ChunksOf(r) \subseteq Nat /\ Len(Plans[r]) \in Nat
    BY ChunksHold
  <2>3. l > 0
    BY <2>1
  <2> HIDE DEF plan
  <2>4. plan # << >>
    BY <2>1, <2>3
  <2>5. plan \in Seq(Nat)
    BY <2>1, <2>2, SeqWithin
  <2>6. QED
    BY <2>1, <2>2, <2>4, <2>5
<1>2. PICK n \in from .. l : \E P : Pumped(r, from, out, n, P)
  BY PumpDoes
<1>3. PICK P : Pumped(r, from, out, n, P)
  BY <1>2
<1>4. /\ P = {plan[j] : j \in from + 1 .. n}
      /\ messages' = messages \cup {Letter(r, i) : i \in P}
      /\ flush_next' = [flush_next EXCEPT ![r] = n]
      /\ flush_outstanding' = [flush_outstanding EXCEPT ![r] = out + Flush!Count(r, P)]
      /\ Flush!Count(r, P) \in Nat /\ Fits(r, out + Flush!Count(r, P))
      /\ IF n = l
           THEN /\ flush_plan' = [flush_plan EXCEPT ![r] = << >>]
                /\ particles' = [particles EXCEPT ![r] = {}]
           ELSE /\ flush_plan' = [flush_plan EXCEPT ![r] = plan]
                /\ particles' = particles
                /\ out + Flush!Count(r, P) >= window
  BY <1>3 DEF Pumped
<1>5. PICK v : v = plan
  OBVIOUS
<1>6. /\ v \in Seq(Nat) /\ v # << >> /\ Len(v) = l
      /\ \A i, j \in 1 .. l : v[i] = v[j] => i = j
      /\ {v[j] : j \in 1 .. l} = Flush!Remote(r)
      /\ Gone(r) = {v[j] : j \in 1 .. from}
      /\ P = {v[j] : j \in from + 1 .. n}
      /\ flush_plan' = [flush_plan EXCEPT ![r] = IF n = l THEN << >> ELSE v]
  BY <1>1, <1>4, <1>5
<1>7. /\ particles' = [particles EXCEPT ![r] = IF n = l THEN {} ELSE Flush!ChunksOf(r)]
      /\ Flush!ChunksOf(r) \subseteq Nat
  <2>1. particles = [particles EXCEPT ![r] = particles[r]]
    BY DEF FlushTypes
  <2>2. QED
    BY <1>4, <2>1, ChunksHold
<1>8. /\ n \in Nat /\ n <= l /\ from <= n
  BY <1>1
<1> HIDE DEF plan, l
<1>9. /\ particles' \in [Readers -> SUBSET Nat] /\ flush_plan' \in [Readers -> Seq(Nat)]
      /\ flush_next' \in [Readers -> Nat] /\ flush_outstanding' \in [Readers -> Nat]
  <2>1. out + Flush!Count(r, P) \in Nat
    BY <1>4
  <2>2. (IF n = l THEN << >> ELSE v) \in Seq(Nat)
    BY <1>6
  <2>3. (IF n = l THEN {} ELSE Flush!ChunksOf(r)) \in SUBSET Nat
    BY <1>7
  <2>4. QED
    BY <1>4, <1>6, <1>7, <1>8, <2>1, <2>2, <2>3 DEF FlushTypes
<1>10. /\ flush_plan'[r] = IF n = l THEN << >> ELSE v
       /\ flush_next'[r] = n /\ flush_outstanding'[r] = out + Flush!Count(r, P)
       /\ particles'[r] = IF n = l THEN {} ELSE Flush!ChunksOf(r)
  BY <1>4, <1>6, <1>7 DEF FlushTypes
<1>11. ASSUME NEW q \in Readers, q # r PROVE Holding(q)' /\ Gone(q)' = Gone(q)
  <2>1. Holding(q)
    BY DEF PlanInv
  <2>2. /\ particles'[q] = particles[q] /\ flush_plan'[q] = flush_plan[q]
        /\ flush_next'[q] = flush_next[q] /\ flush_outstanding'[q] = flush_outstanding[q]
    BY <1>4, <1>6, <1>7, <1>11 DEF FlushTypes
  <2>3. QED
    BY <1>11, <2>1, <2>2, OthersHold
<1>12. r \notin asked'
  OBVIOUS
<1>13. Holding(r)'
  <2>1. flush_next'[r] <= Len(Plans[r])
    BY <1>1, <1>8, <1>10
  <2>2. particles'[r] = IF r \in asked' \/ flush_plan'[r] # << >> THEN Flush!ChunksOf(r) ELSE {}
    BY <1>6, <1>10, <1>12
  <2>3. flush_plan'[r] # << >> =>
          /\ flush_plan'[r] = plan /\ flush_next'[r] < l /\ flush_outstanding'[r] >= window'
    BY <1>1, <1>4, <1>5, <1>8, <1>10
  <2>4. flushing' /\ Windowed'
    BY DEF Windowed
  <2>5. QED
    BY <1>12, <2>1, <2>2, <2>3, <2>4 DEF Holding, plan, l
<1>14. P \subseteq Flush!Remote(r) /\ P \cap Gone(r) = {}
  <2>1. (\A j \in from + 1 .. n : j \in 1 .. l) /\ \A j \in 1 .. from : j \in 1 .. l
    BY <1>1, <1>8
  <2>2. P \subseteq Flush!Remote(r)
    BY <1>6, <2>1
  <2>3. ASSUME NEW j \in from + 1 .. n, NEW i \in 1 .. from PROVE v[j] # v[i]
    <3>1. i # j
      BY <1>8
    <3>2. QED
      BY <1>6, <2>1, <3>1
  <2>4. ASSUME NEW e \in P, e \in Gone(r) PROVE FALSE
    <3>1. PICK j \in from + 1 .. n : e = v[j]
      BY <1>6
    <3>2. \E i \in 1 .. from : e = v[i]
      <4>1. Gone(r) = {v[i] : i \in 1 .. from}
        BY <1>6
      <4>2. e \in {v[i] : i \in 1 .. from}
        BY <2>4, <4>1, Zenon
      <4>3. QED
        BY <4>2
    <3>3. QED
      BY <2>3, <3>1, <3>2
  <2>5. QED
    BY <2>2, <2>4
<1>15. Gone(r)' = Gone(r) \cup P
  <2>1. Gone(r)' = {v[j] : j \in 1 .. n}
    <3>1. CASE n = l
      <4>1. Gone(r)' = Flush!Remote(r)
        BY <1>10, <1>12, <3>1 DEF Gone
      <4>2. QED
        BY <1>6, <3>1, <4>1
    <3>2. CASE n # l
      BY <1>6, <1>10, <1>12, <3>2 DEF Gone
    <3>3. QED
      BY <3>1, <3>2
  <2>2. 1 .. n = (1 .. from) \cup (from + 1 .. n)
    BY <1>8
  <2>3. QED
    BY <1>6, <2>1, <2>2
<1>16. Sends(r, P, D)
  <2>1. \A q \in Readers : Gone(q)' = IF q = r THEN Gone(q) \cup P ELSE Gone(q)
    BY <1>11, <1>15
  <2>2. P \subseteq Flush!Remote(r) \ Gone(r)
    BY <1>14
  <2>3. QED
    BY <1>4, <2>1, <2>2 DEF Sends
<1>17. NetInv'
  BY <1>16, SendsKept
<1>18. FlightInv'
  <2> DEFINE k == out + Flush!Count(r, P)
  <2>1. k = Flush!Count(r, Flight(r) \ D) + (IF Windowed THEN Flush!Count(r, P) ELSE 0)
    OBVIOUS
  <2>2. Fits(r, k) /\ flush_outstanding' = [flush_outstanding EXCEPT ![r] = k]
    BY <1>4
  <2> HIDE DEF k
  <2>3. QED
    BY <1>16, <2>1, <2>2, FlightSent
<1>19. PlanInv'
  BY <1>11, <1>13 DEF PlanInv
<1>20. QED
  BY <1>9, <1>16, <1>17, <1>18, <1>19 DEF SentInv

\* What has been posted was planned.
LEMMA GoneRemote ==
  ASSUME PlanInv, NEW r \in Readers, FlushTypes
  PROVE  Gone(r) \subseteq Flush!Remote(r)
<1>1. CASE r \in asked \/ flush_plan[r] = << >>
  BY <1>1 DEF Gone
<1>2. CASE r \notin asked /\ flush_plan[r] # << >>
  <2>1. flush_plan[r] = Flush!PlanOf(r) /\ flush_next[r] < Len(Flush!PlanOf(r)) /\ flush_next[r] \in Nat
    BY <1>2 DEF PlanInv, Holding, FlushTypes
  <2>2. {Flush!PlanOf(r)[j] : j \in 1 .. Len(Flush!PlanOf(r))} = Flush!Remote(r) /\ Len(Flush!PlanOf(r)) \in Nat
    BY PlanIs
  <2>3. 1 .. flush_next[r] \subseteq 1 .. Len(Flush!PlanOf(r))
    BY <2>1, <2>2
  <2>4. Gone(r) = {Flush!PlanOf(r)[j] : j \in 1 .. flush_next[r]}
    BY <1>2, <2>1 DEF Gone
  <2>5. QED
    BY <2>2, <2>3, <2>4
<1>3. QED
  BY <1>1, <1>2

\* The counter when the ack of chunk i is in.
LEMMA AckCounts ==
  ASSUME FlushTypes, PlanInv, NetInv, FlightInv, NEW r \in Readers, NEW i,
         [to |-> r, chunk |-> i] \in acks
  PROVE  /\ i \in Gone(r) /\ i \in Flush!Remote(r) /\ Windowed /\ flushing /\ r \notin asked
         /\ flush_outstanding[r] - Plans[r][i].count = Flush!Count(r, Flight(r) \ {i})
         /\ Flush!Count(r, Flight(r) \ {i}) \in Nat /\ Fits(r, Flush!Count(r, Flight(r) \ {i}))
<1> DEFINE a == [to |-> r, chunk |-> i]
           F == Flight(r) \ {i}
<1>1. a \in acks /\ a.to = r /\ a.chunk = i
  OBVIOUS
<1>2. i \in Gone(r) /\ Windowed
  <2> HIDE DEF a
  <2>1. QED
    BY <1>1, LettersAre
<1>3. flushing
  BY <1>1 DEF NetInv
<1>4. r \notin asked
  BY <1>2 DEF Gone
<1>5. i \in Flush!Remote(r)
  BY <1>2, GoneRemote
<1>6. i \in Flight(r)
  BY <1>1 DEF Flight
<1>7. i \in Flush!ChunksOf(r) /\ Plans[r][i].count \in Nat \ {0}
  BY <1>5, ChunksHold
<1>8. Flush!Count(r, Flight(r)) = Flush!Count(r, F) + Plans[r][i].count /\ Flush!Count(r, F) \in Nat
  <2>1. F \cup {i} = Flight(r) /\ F \cap {i} = {}
    BY <1>6
  <2> HIDE DEF F
  <2>2. Flush!Count(r, F \cup {i}) = Flush!Count(r, F) + Flush!Count(r, {i}) /\ Flush!Count(r, F) \in Nat
    BY <2>1, CountAdds
  <2>3. Flush!Count(r, {i}) = Plans[r][i].count
    BY <1>7, CountOne
  <2>4. QED
    BY <2>1, <2>2, <2>3
<1>9. flush_outstanding[r] = Flush!Count(r, Flight(r)) /\ Fits(r, flush_outstanding[r])
  BY DEF FlightInv
<1> HIDE DEF F
<1>10. Fits(r, Flush!Count(r, F))
  <2>1. PICK x \in Nat : x = Flush!Count(r, F)
    BY <1>8
  <2>2. flush_outstanding[r] = x + Plans[r][i].count
    BY <1>8, <1>9, <2>1
  <2>3. PICK k \in Flush!ChunksOf(r) : flush_outstanding[r] - Plans[r][k].count < window
    BY <1>7, <1>9, <2>2 DEF Fits
  <2>4. window \in Nat /\ Plans[r][k].count \in Nat
    BY <2>3, ChunksHold DEF FlushTypes, Flush!FlushAssumption
  <2>5. x - Plans[r][k].count < window
    BY <1>7, <2>2, <2>3, <2>4
  <2>6. QED
    BY <2>1, <2>3, <2>5 DEF Fits
<1>11. flush_outstanding[r] - Plans[r][i].count = Flush!Count(r, F)
  <2>1. PICK x \in Nat : x = Flush!Count(r, F)
    BY <1>8
  <2>2. flush_outstanding[r] = x + Plans[r][i].count
    BY <1>8, <1>9, <2>1
  <2>3. QED
    BY <1>7, <2>1, <2>2
<1>12. QED
  BY <1>2, <1>3, <1>4, <1>5, <1>8, <1>10, <1>11 DEF F

\* Nothing of a reader is under way before its flush.
LEMMA NotAskedYet ==
  ASSUME FlushTypes, PlanInv, NetInv, FlightInv, NEW r \in asked
  PROVE  /\ r \in Readers /\ Gone(r) = {} /\ Flight(r) = {} /\ flush_plan[r] = << >>
         /\ flush_outstanding[r] = 0 /\ flushing /\ particles[r] = Flush!ChunksOf(r)
         /\ \A i : ~ Carried(r, i)
<1>1. r \in Readers
  BY DEF FlushTypes
<1>2. Gone(r) = {}
  BY DEF Gone
<1>3. \A i : ~ Carried(r, i)
  BY <1>2, LettersAre DEF Carried
<1>4. Flight(r) = {}
  BY <1>2, LettersAre DEF Flight
<1>5. flush_outstanding[r] = 0
  BY <1>1, <1>4, CountNone DEF FlightInv
<1>6. flushing
  BY DEF NetInv
<1>7. flush_plan[r] = << >> /\ particles[r] = Flush!ChunksOf(r)
  BY <1>1 DEF PlanInv, Holding
<1>8. QED
  BY <1>1, <1>2, <1>3, <1>4, <1>5, <1>6, <1>7

\* A reader that is not told of a window sends all it has.
LEMMA AtOnceKept ==
  ASSUME FlushTypes, PlanInv, NetInv, FlightInv, NEW r \in asked,
         ~ (Windowed /\ Flush!Remote(r) # {}), Flush!FlushAtOnce(r),
         acks' = acks, asked' = asked \ {r},
         window' = window, in_place' = in_place, flushing' = flushing
  PROVE  SentInv /\ \E P : Sends(r, P, {})
<1> DEFINE P == Flush!Remote(r)
<1>1. /\ r \in Readers /\ Gone(r) = {} /\ Flight(r) = {} /\ flush_plan[r] = << >>
      /\ flush_outstanding[r] = 0 /\ flushing /\ particles[r] = Flush!ChunksOf(r)
  BY NotAskedYet
<1>2. /\ particles' = [particles EXCEPT ![r] = {}]
      /\ flush_plan' = [flush_plan EXCEPT ![r] = << >>]
      /\ flush_outstanding' = [flush_outstanding EXCEPT ![r] = 0]
      /\ flush_next' = [flush_next EXCEPT ![r] = 0] \/ flush_next' = flush_next
  <2>1. flush_plan = [flush_plan EXCEPT ![r] = << >>]
    BY <1>1 DEF FlushTypes
  <2>2. flush_outstanding = [flush_outstanding EXCEPT ![r] = 0]
    BY <1>1 DEF FlushTypes
  <2>3. QED
    BY <2>1, <2>2 DEF Flush!FlushAtOnce
<1>3. messages' = messages \cup {Letter(r, i) : i \in P}
  <2>1. ASSUME NEW i \in P PROVE Flush!Message(r, i, FALSE) = Letter(r, i)
    <3>1. Flush!Content(r, i) = <<r, i>>
      BY <1>1, ChunksHold DEF Flush!Content
    <3>2. Windowed = FALSE
      OBVIOUS
    <3>3. QED
      BY <3>1, <3>2, Zenon DEF Flush!Message, Letter
  <2>2. messages' = messages \cup {Flush!Message(r, i, FALSE) : i \in P}
    BY DEF Flush!FlushAtOnce
  <2> HIDE DEF P
  <2>3. QED
    BY <2>1, <2>2
<1>4. /\ particles' \in [Readers -> SUBSET Nat] /\ flush_plan' \in [Readers -> Seq(Nat)]
      /\ flush_next' \in [Readers -> Nat] /\ flush_outstanding' \in [Readers -> Nat]
  <2>1. {} \in SUBSET Nat /\ << >> \in Seq(Nat) /\ 0 \in Nat
    OBVIOUS
  <2>2. particles' \in [Readers -> SUBSET Nat]
    BY <1>2, <2>1 DEF FlushTypes
  <2>3. flush_plan' \in [Readers -> Seq(Nat)]
    BY <1>2, <2>1 DEF FlushTypes
  <2>4. flush_next' \in [Readers -> Nat] /\ flush_outstanding' \in [Readers -> Nat]
    BY <1>2, <2>1 DEF FlushTypes
  <2>5. QED
    BY <2>2, <2>3, <2>4
<1>5. ASSUME NEW q \in Readers, q # r PROVE Holding(q)' /\ Gone(q)' = Gone(q)
  <2>1. Holding(q)
    BY DEF PlanInv
  <2>2. /\ particles'[q] = particles[q] /\ flush_plan'[q] = flush_plan[q]
        /\ flush_next'[q] = flush_next[q] /\ flush_outstanding'[q] = flush_outstanding[q]
    BY <1>2, <1>5 DEF FlushTypes
  <2>3. QED
    BY <1>1, <1>5, <2>1, <2>2, OthersHold
<1>6. /\ particles'[r] = {} /\ flush_plan'[r] = << >> /\ r \notin asked'
      /\ flush_next'[r] <= Len(Plans[r])
  <2>1. flush_next[r] <= Len(Plans[r])
    BY <1>1 DEF PlanInv, Holding
  <2>2. Len(Plans[r]) >= 0
    BY <1>1, ChunksHold
  <2>3. QED
    BY <1>1, <1>2, <2>1, <2>2 DEF FlushTypes
<1>7. Holding(r)'
  BY <1>6 DEF Holding
<1>8. Gone(r)' = P
  BY <1>6 DEF Gone
<1>9. Sends(r, P, {})
  BY <1>1, <1>3, <1>5, <1>8 DEF Sends
<1>10. NetInv'
  BY <1>1, <1>9, SendsKept
<1>11. FlightInv'
  <2>1. Flight(r) \ {} = {}
    BY <1>1
  <2>2. (IF Windowed THEN Flush!Count(r, P) ELSE 0) = 0
    BY <1>1, CountNone
  <2>3. 0 = Flush!Count(r, Flight(r) \ {}) + (IF Windowed THEN Flush!Count(r, P) ELSE 0)
    BY <1>1, <2>1, <2>2, CountNone
  <2>4. Fits(r, 0)
    BY DEF Fits
  <2> HIDE DEF P
  <2>5. QED
    BY <1>1, <1>2, <1>9, <2>3, <2>4, FlightSent
<1>12. PlanInv'
  BY <1>5, <1>7 DEF PlanInv
<1>13. QED
  BY <1>4, <1>9, <1>10, <1>11, <1>12 DEF SentInv

\* What a piece has, when one reader has been told or heard of.
LEMMA SentDelivers ==
  ASSUME FlushTypes, PlanInv, NetInv, FlightInv, DeliveryInv, flushing, NEW r \in Readers, NEW P, NEW D,
         Sends(r, P, D), asked' = asked \ {r}, exchange' = exchange,
         IF r \in asked
           THEN incoming' = [t \in FlushPieces |-> incoming[t] \cup Flush!HandedOver(r, t)]
           ELSE incoming' = incoming
  PROVE  DeliveryInv' /\ incoming' \in [FlushPieces -> SUBSET Flush!ChunkIds]
<1>1. ASSUME NEW q \in Readers, NEW i, q # r \/ r \notin asked
      PROVE  Delivered(q, i)' <=> Delivered(q, i)
  <2>1. Carried(q, i)' <=> Carried(q, i) \/ (q = r /\ i \in P)
    BY SendsKept
  <2>2. i \in Gone(q)' <=> i \in Gone(q) \/ (q = r /\ i \in P)
    BY DEF Sends
  <2>3. i \in P => i \in Flush!Remote(r) /\ i \notin Gone(r)
    BY DEF Sends
  <2>4. q \in asked' <=> q \in asked
    BY <1>1
  <2>5. QED
    BY <2>1, <2>2, <2>3, <2>4 DEF Delivered
<1>2. CASE r \notin asked
  <2>1. \A q \in Readers : \A i : Delivered(q, i)' <=> Delivered(q, i)
    BY <1>1, <1>2
  <2>2. incoming' = incoming
    BY <1>2
  <2>3. QED
    BY <2>1, <2>2 DEF DeliveryInv, FlushTypes
<1>3. CASE r \in asked
  <2>1. /\ Gone(r) = {} /\ particles[r] = Flush!ChunksOf(r) /\ \A i : ~ Carried(r, i)
    BY <1>3, NotAskedYet
  <2>2. \A i : Delivered(r, i)' <=> i \notin Flush!Remote(r)
    <3>1. Gone(r)' = P
      BY <2>1 DEF Sends
    <3>2. \A i : Carried(r, i)' <=> i \in P
      BY <2>1, SendsKept
    <3>3. r \notin asked'
      OBVIOUS
    <3>4. QED
      BY <3>1, <3>2, <3>3 DEF Delivered
  <2>3. \A i : ~ Delivered(r, i)
    BY <1>3 DEF Delivered
  <2>4. \A t : Flush!HandedOver(r, t) = {<<r, i>> : i \in {j \in Flush!ChunksOf(r) \ Flush!Remote(r) : Plans[r][j].dest = t}}
    <3>1. ASSUME NEW t
          PROVE  Flush!HandedOver(r, t) = {<<r, i>> : i \in {j \in Flush!ChunksOf(r) \ Flush!Remote(r) : Plans[r][j].dest = t}}
      <4> DEFINE J == {j \in Flush!ChunksOf(r) \ Flush!Remote(r) : Plans[r][j].dest = t}
      <4>1. \A i \in J : Flush!Content(r, i) = <<r, i>>
        BY <2>1 DEF Flush!Content
      <4> HIDE DEF J
      <4>2. {Flush!Content(r, i) : i \in J} = {<<r, i>> : i \in J}
        BY <4>1
      <4>3. Flush!HandedOver(r, t) = {Flush!Content(r, i) : i \in J}
        BY DEF Flush!HandedOver, J
      <4>4. QED
        BY <4>2, <4>3 DEF J
    <3>2. QED
      BY <3>1
  <2>5. incoming' = [t \in FlushPieces |-> incoming[t] \cup Flush!HandedOver(r, t)]
    BY <1>3
  <2>6. incoming' \in [FlushPieces -> SUBSET Flush!ChunkIds]
    <3>1. \A t : Flush!HandedOver(r, t) \subseteq Flush!ChunkIds
      BY <2>4, IdsAre
    <3>2. QED
      BY <2>5, <3>1 DEF FlushTypes
  <2>7. ASSUME exchange > 0, NEW t \in FlushPieces, NEW c
        PROVE  c \in incoming'[t] <=>
                 \E q \in Readers : \E i \in Flush!ChunksOf(q) :
                   c = <<q, i>> /\ Plans[q][i].dest = t /\ Delivered(q, i)'
    <3>1. c \in incoming'[t] <=> c \in incoming[t] \/ c \in Flush!HandedOver(r, t)
      BY <2>5
    <3>2. c \in incoming[t] <=>
            \E q \in Readers : \E i \in Flush!ChunksOf(q) :
              c = <<q, i>> /\ Plans[q][i].dest = t /\ Delivered(q, i)
      BY <2>7 DEF DeliveryInv
    <3>3. c \in Flush!HandedOver(r, t) <=>
            \E i \in Flush!ChunksOf(r) : c = <<r, i>> /\ Plans[r][i].dest = t /\ Delivered(r, i)'
      BY <2>2, <2>4
    <3>4. \A q \in Readers : \A i : q # r => (Delivered(q, i)' <=> Delivered(q, i))
      BY <1>1
    <3>5. QED
      BY <2>3, <3>1, <3>2, <3>3, <3>4
  <2>8. QED
    BY <2>6, <2>7 DEF DeliveryInv
<1>4. QED
  BY <1>2, <1>3

LEMMA WindowIsSet ==
  ASSUME FlushTypes
  PROVE  window \in Nat /\ (window > 0 <=> window # 0)
BY ChunksHold DEF FlushTypes, Flush!FlushAssumption

\* flush.
LEMMA FlushKept ==
  ASSUME FlushInv, NEW r \in Readers, Flush!Flush(r)
  PROVE  FlushInv'
<1>1. /\ FlushTypes /\ PlanInv /\ NetInv /\ FlightInv /\ DeliveryInv /\ exchange > 0
      /\ r \in asked /\ asked' = asked \ {r}
      /\ incoming' = [t \in FlushPieces |-> incoming[t] \cup Flush!HandedOver(r, t)]
      /\ window' = window /\ in_place' = in_place /\ acks' = acks
      /\ exchange' = exchange /\ flushing' = flushing
  <2>1. r \in asked
    BY DEF Flush!Flush
  <2>2. flushing
    BY <2>1 DEF FlushInv, NetInv
  <2>3. QED
    BY <2>1, <2>2 DEF Flush!Flush, FlushInv, Flush!driverVars
<1>2. /\ Gone(r) = {} /\ Flight(r) = {} /\ flushing /\ particles[r] = Flush!ChunksOf(r)
  BY <1>1, NotAskedYet
<1>3. SentInv /\ \E P : Sends(r, P, {})
  <2>1. CASE Windowed /\ Flush!Remote(r) # {}
    <3>1. Flush!Pump(r, Flush!PlanOf(r), 0, 0)
      BY <2>1 DEF Flush!Flush, Windowed
    <3>2. 0 < Len(Flush!PlanOf(r))
      <4>1. PICK i : i \in {Flush!PlanOf(r)[j] : j \in 1 .. Len(Flush!PlanOf(r))}
        BY <2>1, PlanIs
      <4>2. PICK j \in 1 .. Len(Flush!PlanOf(r)) : i = Flush!PlanOf(r)[j]
        BY <4>1
      <4>3. QED
        BY PlanIs
    <3>3. Gone(r) = {Flush!PlanOf(r)[j] : j \in 1 .. 0}
      BY <1>2
    <3>4. 0 = Flush!Count(r, Flight(r) \ {}) /\ Fits(r, 0)
      <4>1. Flight(r) \ {} = {}
        BY <1>2
      <4>2. QED
        BY <4>1, CountNone DEF Fits
    <3>5. acks' = acks \ {[to |-> r, chunk |-> i] : i \in {}}
      BY <1>1
    <3>6. r \in Readers /\ 0 \in Nat /\ \A i \in {} : [to |-> r, chunk |-> i] \in acks
      BY <1>1 DEF FlushTypes
    <3>7. QED
      BY <1>1, <1>2, <2>1, <3>1, <3>2, <3>3, <3>4, <3>5, <3>6, PumpKept
  <2>2. CASE ~ (Windowed /\ Flush!Remote(r) # {})
    <3>1. Flush!FlushAtOnce(r)
      BY <2>2 DEF Flush!Flush, Windowed
    <3>2. QED
      BY <1>1, <2>2, <3>1, AtOnceKept
  <2>3. QED
    BY <2>1, <2>2
<1>4. DeliveryInv' /\ incoming' \in [FlushPieces -> SUBSET Flush!ChunkIds]
  <2>1. PICK P : Sends(r, P, {})
    BY <1>3
  <2>2. QED
    BY <1>1, <1>2, <2>1, SentDelivers
<1>5. FlushTypes'
  BY <1>1, <1>3, <1>4 DEF FlushTypes, SentInv
<1>6. QED
  BY <1>1, <1>3, <1>4, <1>5 DEF FlushInv, SentInv

\* flushAck.
LEMMA AckKept ==
  ASSUME FlushInv, NEW a \in acks, Flush!FlushAck(a)
  PROVE  FlushInv'
<1> DEFINE r == a.to
           i == a.chunk
           out == Flush!Count(r, Flight(r) \ {i})
           lower == flush_outstanding[r] - Plans[r][i].count
<1>1. /\ FlushTypes /\ PlanInv /\ NetInv /\ FlightInv /\ DeliveryInv /\ (flushing => exchange > 0)
      /\ acks' = acks \ {a} /\ asked' = asked /\ incoming' = incoming
      /\ window' = window /\ in_place' = in_place
      /\ exchange' = exchange /\ flushing' = flushing
      /\ IF flush_plan[r] = << >>
           THEN /\ flush_outstanding' = [flush_outstanding EXCEPT ![r] = lower]
                /\ particles' = particles /\ flush_plan' = flush_plan /\ flush_next' = flush_next
                /\ messages' = messages
           ELSE Flush!Pump(r, flush_plan[r], lower, flush_next[r])
  BY DEF FlushInv, Flush!FlushAck, Flush!driverVars
<1>2. r \in Readers /\ a = [to |-> r, chunk |-> i]
  BY <1>1, LettersAre
<1> HIDE DEF r, i
<1>3. /\ i \in Gone(r) /\ i \in Flush!Remote(r) /\ Windowed /\ flushing /\ r \notin asked
      /\ lower = out /\ out \in Nat /\ Fits(r, out)
  BY <1>1, <1>2, AckCounts
<1>4. acks' = acks \ {[to |-> r, chunk |-> k] : k \in {i}}
  BY <1>1, <1>2
<1>5. asked' = asked \ {r} /\ \A k \in {i} : [to |-> r, chunk |-> k] \in acks
  BY <1>1, <1>2, <1>3
<1> HIDE DEF out, lower
<1>6. SentInv /\ \E P : Sends(r, P, {i})
  <2>1. CASE flush_plan[r] # << >>
    <3>1. /\ flush_plan[r] = Flush!PlanOf(r) /\ flush_next[r] < Len(Flush!PlanOf(r))
          /\ flush_next[r] \in Nat /\ particles[r] = Flush!ChunksOf(r)
      BY <1>1, <1>2, <2>1 DEF FlushTypes, PlanInv, Holding
    <3>2. Flush!Pump(r, Flush!PlanOf(r), out, flush_next[r])
      BY <1>1, <1>3, <2>1, <3>1
    <3>3. Gone(r) = {Flush!PlanOf(r)[j] : j \in 1 .. flush_next[r]}
      BY <1>3, <2>1, <3>1 DEF Gone
    <3>4. QED
      BY <1>1, <1>2, <1>3, <1>4, <1>5, <3>1, <3>2, <3>3, PumpKept DEF out
  <2>2. CASE flush_plan[r] = << >>
    <3>1. /\ flush_outstanding' = [flush_outstanding EXCEPT ![r] = out]
          /\ particles' = particles /\ flush_plan' = flush_plan /\ flush_next' = flush_next
          /\ messages' = messages
      BY <1>1, <1>3, <2>2
    <3>2. ASSUME NEW q \in Readers, q # r PROVE Holding(q)' /\ Gone(q)' = Gone(q)
      <4>1. Holding(q)
        BY <1>1 DEF PlanInv
      <4>2. flush_outstanding'[q] = flush_outstanding[q]
        BY <1>1, <3>1, <3>2 DEF FlushTypes
      <4>3. QED
        BY <1>1, <1>2, <1>5, <3>1, <3>2, <4>1, <4>2, OthersHold
    <3>3. Gone(r)' = Gone(r)
      BY <1>1, <3>1 DEF Gone
    <3>4. Holding(r)'
      BY <1>1, <1>2, <2>2, <3>1 DEF PlanInv, Holding
    <3>5. Sends(r, {}, {i})
      <4>1. messages' = messages \cup {Letter(r, k) : k \in {}}
        BY <3>1
      <4>2. QED
        BY <1>1, <1>4, <1>5, <3>2, <3>3, <4>1 DEF Sends
    <3>6. NetInv'
      BY <1>1, <1>2, <1>3, <3>5, SendsKept
    <3>7. FlightInv'
      <4>1. out = Flush!Count(r, Flight(r) \ {i}) + (IF Windowed THEN Flush!Count(r, {}) ELSE 0)
        BY <1>2, <1>3, CountNone DEF out
      <4>2. QED
        BY <1>1, <1>2, <1>3, <3>1, <3>5, <4>1, FlightSent
    <3>8. flush_outstanding' \in [Readers -> Nat]
      BY <1>1, <1>3, <3>1 DEF FlushTypes
    <3>9. PlanInv'
      BY <3>2, <3>4 DEF PlanInv
    <3>10. QED
      BY <1>1, <3>1, <3>5, <3>6, <3>7, <3>8, <3>9 DEF SentInv, FlushTypes
  <2>3. QED
    BY <2>1, <2>2
<1>7. DeliveryInv' /\ incoming' \in [FlushPieces -> SUBSET Flush!ChunkIds]
  <2>1. PICK P : Sends(r, P, {i})
    BY <1>6
  <2>2. QED
    BY <1>1, <1>2, <1>3, <1>5, <2>1, SentDelivers
<1>8. FlushTypes'
  BY <1>1, <1>6, <1>7 DEF FlushTypes, SentInv
<1>9. QED
  BY <1>1, <1>6, <1>7, <1>8 DEF FlushInv, SentInv

\* receive.
LEMMA ReceiveKept ==
  ASSUME FlushInv, NEW m \in messages, Flush!Receive(m)
  PROVE  FlushInv'
<1> DEFINE r == m.from
           i == m.chunk
           t == m.dest
<1>1. /\ FlushTypes /\ PlanInv /\ NetInv /\ FlightInv /\ DeliveryInv /\ flushing /\ exchange > 0
      /\ messages' = messages \ {m}
      /\ incoming' = [incoming EXCEPT ![m.dest] = incoming[m.dest] \cup {m.content}]
      /\ acks' = IF m.sender THEN acks \cup {[to |-> m.from, chunk |-> m.chunk]} ELSE acks
      /\ window' = window /\ in_place' = in_place /\ asked' = asked
      /\ exchange' = exchange /\ flushing' = flushing
      /\ particles' = particles /\ flush_plan' = flush_plan
      /\ flush_next' = flush_next /\ flush_outstanding' = flush_outstanding
  BY DEF FlushInv, NetInv, Flush!Receive, Flush!driverVars, Flush!readerVars, Flush!AckWanted
<1>2. /\ r \in Readers /\ i \in Gone(r) /\ t = Plans[r][i].dest /\ m.content = <<r, i>>
      /\ (m.sender <=> Windowed) /\ m = Letter(r, i)
  BY <1>1, LettersAre
<1>3. i \in Flush!Remote(r) /\ i \in Flush!ChunksOf(r) /\ t \in FlushPieces /\ r \notin asked
  <2>1. i \in Flush!Remote(r)
    BY <1>1, <1>2, GoneRemote
  <2>2. r \notin asked
    BY <1>2 DEF Gone
  <2>3. QED
    BY <1>2, <2>1, <2>2, ChunksHold
<1> HIDE DEF r, i, t
<1>4. /\ messages' = messages \ {Letter(r, i)} /\ Letter(r, i) \in messages
      /\ incoming' = [incoming EXCEPT ![t] = incoming[t] \cup {<<r, i>>}]
      /\ acks' = IF Windowed THEN acks \cup {[to |-> r, chunk |-> i]} ELSE acks
  BY <1>1, <1>2 DEF r, i, t
<1>5. Windowed' = Windowed /\ \A q \in Readers : Gone(q)' = Gone(q)
  BY <1>1 DEF Windowed, Gone
<1>6. \A q \in Readers : \A k : Carried(q, k)' <=> Carried(q, k) /\ ~ (q = r /\ k = i)
  <2>1. \A n \in messages : n = Letter(n.from, n.chunk)
    BY <1>1, LettersAre
  <2>2. Letter(r, i).from = r /\ Letter(r, i).chunk = i
    BY LetterIs
  <2>3. QED
    BY <1>4, <2>1, <2>2 DEF Carried
<1>7. NetInv'
  <2>1. \A q, k : Letter(q, k)' = Letter(q, k)
    BY <1>5 DEF Letter
  <2>2. \A n \in messages' : \E q \in Readers : \E k \in Gone(q)' : n = Letter(q, k)'
    <3>1. ASSUME NEW n \in messages' PROVE \E q \in Readers : \E k \in Gone(q)' : n = Letter(q, k)'
      <4>1. n \in messages
        BY <1>1
      <4>2. n.from \in Readers /\ n.chunk \in Gone(n.from) /\ n = Letter(n.from, n.chunk)
        BY <1>1, <4>1, LettersAre
      <4>3. n.chunk \in Gone(n.from)'
        BY <1>5, <4>2
      <4>4. QED
        BY <2>1, <4>2, <4>3
    <3>2. QED
      BY <3>1
  <2>3. \A a \in acks' : \E q \in Readers : \E k \in Gone(q)' :
          a = [to |-> q, chunk |-> k] /\ ~ Carried(q, k)' /\ Windowed'
    <3>1. ASSUME NEW a \in acks'
          PROVE  \E q \in Readers : \E k \in Gone(q)' :
                   a = [to |-> q, chunk |-> k] /\ ~ Carried(q, k)' /\ Windowed'
      <4>1. CASE a \in acks
        <5>1. /\ a.to \in Readers /\ a.chunk \in Gone(a.to) /\ ~ Carried(a.to, a.chunk) /\ Windowed
              /\ a = [to |-> a.to, chunk |-> a.chunk]
          BY <1>1, <4>1, LettersAre
        <5>2. a.chunk \in Gone(a.to)' /\ ~ Carried(a.to, a.chunk)' /\ Windowed'
          BY <1>5, <1>6, <5>1
        <5>3. QED
          BY <5>1, <5>2
      <4>2. CASE a \notin acks
        <5>1. Windowed /\ a = [to |-> r, chunk |-> i]
          BY <1>4, <3>1, <4>2
        <5>2. i \in Gone(r)' /\ ~ Carried(r, i)' /\ Windowed'
          BY <1>2, <1>5, <1>6, <5>1 DEF r, i
        <5>3. QED
          BY <1>2, <5>1, <5>2
      <4>3. QED
        BY <4>1, <4>2
    <3>2. QED
      BY <3>1
  <2>4. QED
    BY <1>1, <2>2, <2>3 DEF NetInv
<1>8. \A q \in Readers : Flight(q)' = Flight(q)
  <2>1. ASSUME NEW q \in Readers, NEW k PROVE k \in Flight(q)' <=> k \in Flight(q)
    <3>1. k \in Flight(q)' <=> \/ \E n \in messages' : n.from = q /\ n.sender /\ n.chunk = k
                               \/ \E a \in acks' : a.to = q /\ a.chunk = k
      BY DEF Flight
    <3>2. k \in Flight(q) <=> \/ \E n \in messages : n.from = q /\ n.sender /\ n.chunk = k
                              \/ \E a \in acks : a.to = q /\ a.chunk = k
      BY DEF Flight
    <3>3. /\ Letter(r, i).from = r /\ Letter(r, i).chunk = i
          /\ Letter(r, i).sender <=> Windowed
      BY LetterIs
    <3>4. \A n \in messages : /\ n = Letter(n.from, n.chunk)
                              /\ n.sender <=> Windowed
      BY <1>1, LettersAre
    <3>5. (\E n \in messages : n.from = q /\ n.sender /\ n.chunk = k)
             <=> \/ \E n \in messages' : n.from = q /\ n.sender /\ n.chunk = k
                 \/ q = r /\ k = i /\ Windowed
      BY <1>4, <3>3, <3>4
    <3>6. (\E a \in acks' : a.to = q /\ a.chunk = k)
             <=> \/ \E a \in acks : a.to = q /\ a.chunk = k
                 \/ q = r /\ k = i /\ Windowed
      <4> DEFINE new == [to |-> r, chunk |-> i]
      <4>1. new.to = r /\ new.chunk = i
        OBVIOUS
      <4>2. acks' = IF Windowed THEN acks \cup {new} ELSE acks
        BY <1>4
      <4> HIDE DEF new
      <4>3. QED
        BY <4>1, <4>2
    <3>7. QED
      BY <3>1, <3>2, <3>5, <3>6
  <2>2. QED
    BY <2>1
<1>9. FlightInv'
  <2>1. \A q, n : Fits(q, n)' <=> Fits(q, n)
    BY <1>1 DEF Fits
  <2>2. ASSUME NEW q \in Readers
        PROVE  flush_outstanding'[q] = Flush!Count(q, Flight(q)') /\ Fits(q, flush_outstanding'[q])
    <3>1. Flight(q)' = Flight(q) /\ flush_outstanding'[q] = flush_outstanding[q]
      BY <1>1, <1>8
    <3>2. flush_outstanding[q] = Flush!Count(q, Flight(q)) /\ Fits(q, flush_outstanding[q])
      BY <1>1 DEF FlightInv
    <3>3. QED
      BY <3>1, <3>2, Zenon
  <2>3. QED
    BY <2>1, <2>2 DEF FlightInv
<1>10. PlanInv'
  BY <1>1, <1>5 DEF PlanInv, Holding
<1>11. DeliveryInv'
  <2>1. \A q \in Readers : \A k : Delivered(q, k)' <=> Delivered(q, k) \/ (q = r /\ k = i)
    BY <1>1, <1>2, <1>3, <1>5, <1>6 DEF Delivered, r, i
  <2>2. ASSUME NEW s \in FlushPieces, NEW c
        PROVE  c \in incoming'[s] <=>
                 \E q \in Readers : \E k \in Flush!ChunksOf(q) :
                   c = <<q, k>> /\ Plans[q][k].dest = s /\ Delivered(q, k)'
    <3>1. c \in incoming'[s] <=> c \in incoming[s] \/ (s = t /\ c = <<r, i>>)
      BY <1>3, <1>4 DEF FlushTypes, FlushInv
    <3>2. c \in incoming[s] <=>
            \E q \in Readers : \E k \in Flush!ChunksOf(q) :
              c = <<q, k>> /\ Plans[q][k].dest = s /\ Delivered(q, k)
      BY <1>1 DEF DeliveryInv
    <3>3. r \in Readers /\ i \in Flush!ChunksOf(r) /\ t = Plans[r][i].dest
      BY <1>2, <1>3 DEF r, i, t
    <3>4. QED
      BY <2>1, <3>1, <3>2, <3>3
  <2>3. QED
    BY <2>2 DEF DeliveryInv
<1>12. FlushTypes'
  <2>1. <<r, i>> \in Flush!ChunkIds
    BY <1>2, <1>3, IdsAre DEF r, i
  <2>2. incoming' \in [FlushPieces -> SUBSET Flush!ChunkIds]
    <3>1. incoming \in [FlushPieces -> SUBSET Flush!ChunkIds]
      BY <1>1 DEF FlushTypes
    <3>2. incoming[t] \cup {<<r, i>>} \in SUBSET Flush!ChunkIds
      BY <1>3, <2>1, <3>1
    <3>3. QED
      BY <1>4, <3>1, <3>2
  <2>3. QED
    BY <1>1, <2>2 DEF FlushTypes
<1>13. QED
  BY <1>1, <1>7, <1>9, <1>10, <1>11, <1>12 DEF FlushInv

\* While a plan is not through, something is under way.
LEMMA PlanIsAwaited ==
  ASSUME FlushInv, NEW r \in Readers, flush_plan[r] # << >>
  PROVE  ~ Flush!Quiescent
<1>1. flush_outstanding[r] >= window /\ Windowed
  BY DEF FlushInv, PlanInv, Holding
<1>2. window \in Nat /\ window > 0
  BY <1>1, WindowIsSet DEF FlushInv, Windowed
<1>3. flush_outstanding[r] \in Nat /\ flush_outstanding[r] # 0
  BY <1>1, <1>2 DEF FlushInv, FlushTypes
<1>4. Flight(r) # {}
  BY <1>3, CountNone DEF FlushInv, FlightInv
<1>5. QED
  BY <1>4 DEF Flight, Flush!Quiescent

\* decompose.
LEMMA StartFlushKept ==
  ASSUME FlushInv, Flush!StartFlush
  PROVE  FlushInv'
<1>1. /\ FlushTypes /\ PlanInv /\ NetInv /\ FlightInv /\ ~ flushing /\ exchange < Exchanges
      /\ exchange' = exchange + 1 /\ flushing' = TRUE /\ asked' = Readers
      /\ particles' = [q \in Readers |-> Flush!ChunksOf(q)] /\ incoming' = [t \in FlushPieces |-> {}]
      /\ window' = window /\ in_place' = in_place /\ messages' = messages /\ acks' = acks
      /\ flush_plan' = flush_plan /\ flush_next' = flush_next
      /\ flush_outstanding' = flush_outstanding
  BY DEF FlushInv, Flush!StartFlush, Flush!netVars
<1>2. messages = {} /\ acks = {} /\ Exchanges \in Nat
  BY <1>1, ChunksHold DEF NetInv, Flush!FlushAssumption
<1>3. FlushTypes'
  <2>1. \A q \in Readers : Flush!ChunksOf(q) \in SUBSET Nat
    BY ChunksHold
  <2>2. particles' \in [Readers -> SUBSET Nat]
    BY <1>1, <2>1
  <2>3. exchange' \in 0 .. Exchanges
    BY <1>1, <1>2 DEF FlushTypes
  <2>4. incoming' \in [FlushPieces -> SUBSET Flush!ChunkIds]
    BY <1>1
  <2>5. QED
    BY <1>1, <2>2, <2>3, <2>4 DEF FlushTypes
<1>4. PlanInv'
  BY <1>1 DEF PlanInv, Holding
<1>5. NetInv'
  BY <1>1, <1>2 DEF NetInv
<1>6. FlightInv'
  <2>1. \A q \in Readers : Flight(q)' = Flight(q)
    BY <1>1 DEF Flight
  <2>2. \A q, n : Fits(q, n)' <=> Fits(q, n)
    BY <1>1 DEF Fits
  <2>3. ASSUME NEW q \in Readers
        PROVE  flush_outstanding'[q] = Flush!Count(q, Flight(q)') /\ Fits(q, flush_outstanding'[q])
    <3>1. Flight(q)' = Flight(q) /\ flush_outstanding'[q] = flush_outstanding[q]
      BY <1>1, <2>1
    <3>2. flush_outstanding[q] = Flush!Count(q, Flight(q)) /\ Fits(q, flush_outstanding[q])
      BY <1>1 DEF FlightInv
    <3>3. QED
      BY <3>1, <3>2, Zenon
  <2>4. QED
    BY <2>2, <2>3 DEF FlightInv
<1>7. DeliveryInv'
  <2>1. \A q \in Readers : \A i : ~ Delivered(q, i)'
    BY <1>1 DEF Delivered
  <2>2. QED
    BY <1>1, <2>1 DEF DeliveryInv
<1>8. exchange' > 0
  BY <1>1 DEF FlushTypes
<1>9. QED
  BY <1>3, <1>4, <1>5, <1>6, <1>7, <1>8 DEF FlushInv

\* Quiescence.
LEMMA EndFlushKept ==
  ASSUME FlushInv, Flush!EndFlush
  PROVE  FlushInv'
<1>1. /\ FlushTypes /\ PlanInv /\ NetInv /\ FlightInv /\ DeliveryInv /\ flushing /\ Flush!Quiescent
      /\ flushing' = FALSE /\ exchange' = exchange
      /\ window' = window /\ in_place' = in_place /\ messages' = messages /\ acks' = acks
      /\ particles' = particles /\ flush_plan' = flush_plan /\ flush_next' = flush_next
      /\ flush_outstanding' = flush_outstanding /\ asked' = asked /\ incoming' = incoming
  BY DEF FlushInv, Flush!EndFlush, Flush!netVars, Flush!readerVars
<1>2. \A q \in Readers : flush_plan[q] = << >>
  BY <1>1, PlanIsAwaited
<1>3. PlanInv'
  BY <1>1, <1>2 DEF PlanInv, Holding
<1>4. NetInv'
  BY <1>1 DEF NetInv, Flush!Quiescent
<1>5. FlightInv'
  BY <1>1 DEF FlightInv, Fits, Flight
<1>6. DeliveryInv'
  BY <1>1 DEF DeliveryInv, Delivered, Gone, Carried
<1>7. FlushTypes'
  BY <1>1 DEF FlushTypes
<1>8. QED
  BY <1>1, <1>3, <1>4, <1>5, <1>6, <1>7 DEF FlushInv

LEMMA FlushStays ==
  ASSUME FlushInv, UNCHANGED flushVars
  PROVE  FlushInv'
<1>1. /\ FlushTypes /\ PlanInv /\ NetInv /\ FlightInv /\ DeliveryInv
      /\ flushing' = flushing /\ exchange' = exchange
      /\ window' = window /\ in_place' = in_place /\ messages' = messages /\ acks' = acks
      /\ particles' = particles /\ flush_plan' = flush_plan /\ flush_next' = flush_next
      /\ flush_outstanding' = flush_outstanding /\ asked' = asked /\ incoming' = incoming
  BY DEF FlushInv, flushVars
<1>2. /\ Windowed' = Windowed
      /\ \A q \in Readers : Gone(q)' = Gone(q) /\ Flight(q)' = Flight(q)
      /\ \A q, k : (Carried(q, k)' <=> Carried(q, k)) /\ Letter(q, k)' = Letter(q, k)
  BY <1>1 DEF Windowed, Gone, Flight, Carried, Letter
<1>3. PlanInv'
  BY <1>1, <1>2 DEF PlanInv, Holding
<1>4. NetInv'
  BY <1>1, <1>2 DEF NetInv
<1>5. FlightInv'
  BY <1>1, <1>2 DEF FlightInv, Fits
<1>6. DeliveryInv'
  BY <1>1, <1>2 DEF DeliveryInv, Delivered
<1>7. FlushTypes'
  BY <1>1 DEF FlushTypes
<1>8. QED
  BY <1>1, <1>3, <1>4, <1>5, <1>6, <1>7 DEF FlushInv

LEMMA FlushInit == IterationInit => FlushInv
<1> SUFFICES ASSUME IterationInit PROVE FlushInv
  OBVIOUS
<1>1. /\ window \in {s.window : s \in Scenarios} /\ in_place \in BOOLEAN
      /\ particles = [r \in Readers |-> {}] /\ flush_plan = [r \in Readers |-> << >>]
      /\ flush_next = [r \in Readers |-> 0] /\ flush_outstanding = [r \in Readers |-> 0]
      /\ asked = {} /\ messages = {} /\ acks = {} /\ incoming = [t \in FlushPieces |-> {}]
      /\ exchange = 0 /\ flushing = FALSE
  BY DEF IterationInit, Flush!Init
<1>2. FlushTypes
  <2>1. 0 \in 0 .. Exchanges
    BY ChunksHold DEF Flush!FlushAssumption
  <2>2. << >> \in Seq(Nat)
    OBVIOUS
  <2>3. particles \in [Readers -> SUBSET Nat] /\ incoming \in [FlushPieces -> SUBSET Flush!ChunkIds]
    BY <1>1
  <2>4. flush_plan \in [Readers -> Seq(Nat)]
    BY <1>1, <2>2
  <2>5. QED
    BY <1>1, <2>1, <2>3, <2>4 DEF FlushTypes
<1>3. PlanInv
  <2>1. \A r \in Readers : 0 <= Len(Plans[r])
    BY ChunksHold
  <2>2. QED
    BY <1>1, <2>1 DEF PlanInv, Holding
<1>4. NetInv
  BY <1>1 DEF NetInv
<1>5. FlightInv
  <2>1. \A r \in Readers : Flight(r) = {}
    BY <1>1 DEF Flight
  <2>2. ASSUME NEW r \in Readers PROVE flush_outstanding[r] = Flush!Count(r, Flight(r))
    <3>1. Flush!Count(r, {}) = 0 /\ flush_outstanding[r] = 0
      BY <1>1, CountNone
    <3>2. QED
      BY <2>1, <3>1
  <2>3. ASSUME NEW r \in Readers PROVE Fits(r, flush_outstanding[r])
    BY <1>1 DEF Fits
  <2>4. QED
    BY <2>2, <2>3 DEF FlightInv
<1>6. DeliveryInv
  BY <1>1 DEF DeliveryInv
<1>7. QED
  BY <1>1, <1>2, <1>3, <1>4, <1>5, <1>6 DEF FlushInv

LEMMA FlushInvKept == FlushInv /\ [IterationNext]_iterationVars => FlushInv'
<1> SUFFICES ASSUME FlushInv, [IterationNext]_iterationVars PROVE FlushInv'
  OBVIOUS
<1>1. CASE UNCHANGED flushVars
  BY <1>1, FlushStays
<1>2. CASE FlushStep
  <2>1. \/ Flush!StartFlush \/ Flush!EndFlush
        \/ \E r \in Readers : Flush!Flush(r)
        \/ \E m \in messages : Flush!Receive(m)
        \/ \E a \in acks : Flush!FlushAck(a)
    BY <1>2 DEF FlushStep, Flush!Next
  <2>2. CASE Flush!StartFlush
    BY <2>2, StartFlushKept
  <2>3. CASE Flush!EndFlush
    BY <2>3, EndFlushKept
  <2>4. ASSUME NEW r \in Readers, Flush!Flush(r) PROVE FlushInv'
    BY <2>4, FlushKept
  <2>5. ASSUME NEW m \in messages, Flush!Receive(m) PROVE FlushInv'
    BY <2>5, ReceiveKept
  <2>6. ASSUME NEW a \in acks, Flush!FlushAck(a) PROVE FlushInv'
    BY <2>6, AckKept
  <2>7. QED
    BY <2>1, <2>2, <2>3, <2>4, <2>5, <2>6
<1>3. FlushStep \/ UNCHANGED flushVars
  BY DEF IterationNext, iterationVars, stageVars, GatherStep, ShipStep, LoadStep, DriveStep, HostStep
<1>4. QED
  BY <1>1, <1>2, <1>3

LEMMA FlushTyped == FlushInv => Flush!TypeOK
<1> SUFFICES ASSUME FlushInv PROVE Flush!TypeOK
  OBVIOUS
<1>1. FlushTypes /\ PlanInv /\ NetInv
  BY DEF FlushInv
<1>2. ASSUME NEW r \in Readers
      PROVE  /\ particles[r] \subseteq Flush!ChunksOf(r)
             /\ flush_plan[r] \in Seq(Flush!ChunksOf(r))
             /\ flush_next[r] \in 0 .. Flush!Cardinality(Flush!ChunksOf(r))
             /\ flush_outstanding[r] \in Nat
  <2>1. Holding(r)
    BY <1>1 DEF PlanInv
  <2>2. Flush!Cardinality(Flush!ChunksOf(r)) = Len(Plans[r])
    <3>1. Cardinality(1 .. Len(Plans[r])) = Len(Plans[r])
      BY ChunksHold, FS_Interval
    <3>2. QED
      BY <3>1, ChunksHold
  <2>3. flush_next[r] \in Nat /\ Len(Plans[r]) \in Nat /\ flush_outstanding[r] \in Nat
    BY <1>1, ChunksHold DEF FlushTypes
  <2>4. flush_next[r] \in 0 .. Flush!Cardinality(Flush!ChunksOf(r))
    BY <2>1, <2>2, <2>3 DEF Holding
  <2>5. flush_plan[r] \in Seq(Flush!ChunksOf(r))
    <3>1. << >> \in Seq(Flush!ChunksOf(r)) /\ Flush!PlanOf(r) \in Seq(Flush!ChunksOf(r))
      BY PlanIs
    <3>2. flush_plan[r] = << >> \/ flush_plan[r] = Flush!PlanOf(r)
      BY <2>1 DEF Holding
    <3>3. QED
      BY <3>1, <3>2, Zenon
  <2>6. QED
    BY <2>1, <2>3, <2>4, <2>5 DEF Holding
<1>3. \A m \in messages : m.content \in Flush!ChunkIds
  <2>1. ASSUME NEW m \in messages PROVE m.content \in Flush!ChunkIds
    <3>1. m.from \in Readers /\ m.chunk \in Gone(m.from) /\ m.content = <<m.from, m.chunk>>
      BY <1>1, LettersAre
    <3>2. m.chunk \in Flush!ChunksOf(m.from)
      BY <1>1, <3>1, GoneRemote, ChunksHold
    <3>3. QED
      BY <3>1, <3>2, IdsAre
  <2>2. QED
    BY <2>1
<1>4. \A a \in acks : a.to \in Readers
  BY <1>1, LettersAre
<1>5. \A t \in FlushPieces : incoming[t] \subseteq Flush!ChunkIds
  BY <1>1 DEF FlushTypes
<1>6. QED
  BY <1>1, <1>2, <1>3, <1>4, <1>5 DEF FlushTypes, Flush!TypeOK

\* A flush that is quiet is over.
LEMMA FlushNotQuiet == FlushInv => Flush!NeverQuietMidFlush
<1> SUFFICES ASSUME FlushInv, NEW r \in Readers, flush_next[r] < Len(flush_plan[r]) PROVE ~ Flush!Quiescent
  BY DEF Flush!NeverQuietMidFlush
<1>1. flush_plan[r] # << >>
  <2>1. flush_next[r] \in Nat /\ Len(<< >>) = 0
    BY DEF FlushInv, FlushTypes
  <2>2. QED
    BY <2>1
<1>2. QED
  BY <1>1, PlanIsAwaited

LEMMA FlushCounted == FlushInv => Flush!WindowHolds
<1> SUFFICES ASSUME FlushInv, NEW r \in Readers
             PROVE  /\ flush_outstanding[r] = Flush!InFlight(r)
                    /\ flush_outstanding[r] > 0 =>
                         \E i \in Flush!ChunksOf(r) : flush_outstanding[r] - Plans[r][i].count < window
  BY DEF Flush!WindowHolds
<1>1. Flush!InFlight(r) = Flush!Count(r, Flight(r))
  BY DEF Flush!InFlight, Flight
<1>2. flush_outstanding[r] = Flush!Count(r, Flight(r)) /\ Fits(r, flush_outstanding[r])
  BY DEF FlushInv, FlightInv
<1>3. QED
  BY <1>1, <1>2 DEF Fits

\* When nothing is under way every plan is through and every chunk has been delivered.
LEMMA FlushDelivers == FlushInv => Flush!AllDelivered
<1> SUFFICES ASSUME FlushInv, ~ flushing, exchange > 0
             PROVE  /\ \A t \in FlushPieces :
                         incoming[t] = {c \in Flush!ChunkIds : c[2] \in Flush!ChunksOf(c[1]) /\ Plans[c[1]][c[2]].dest = t}
                    /\ \A r \in Readers : particles[r] = {}
  BY DEF Flush!AllDelivered
<1>1. asked = {} /\ messages = {} /\ \A r \in Readers : flush_plan[r] = << >>
  BY DEF FlushInv, NetInv, PlanInv, Holding
<1>2. \A r \in Readers : \A i : Delivered(r, i)
  BY <1>1 DEF Delivered, Gone, Carried
<1>3. ASSUME NEW t \in FlushPieces, NEW c
      PROVE  c \in incoming[t] <=>
               c \in Flush!ChunkIds /\ c[2] \in Flush!ChunksOf(c[1]) /\ Plans[c[1]][c[2]].dest = t
  <2>1. c \in incoming[t] <=>
          \E r \in Readers : \E i \in Flush!ChunksOf(r) : c = <<r, i>> /\ Plans[r][i].dest = t
    BY <1>2 DEF FlushInv, DeliveryInv
  <2>2. ASSUME NEW r \in Readers, NEW i \in Flush!ChunksOf(r), c = <<r, i>>, Plans[r][i].dest = t
        PROVE  c \in Flush!ChunkIds /\ c[2] \in Flush!ChunksOf(c[1]) /\ Plans[c[1]][c[2]].dest = t
    BY <2>2, IdsAre
  <2>3. ASSUME c \in Flush!ChunkIds, c[2] \in Flush!ChunksOf(c[1]), Plans[c[1]][c[2]].dest = t
        PROVE  \E r \in Readers : \E i \in Flush!ChunksOf(r) : c = <<r, i>> /\ Plans[r][i].dest = t
    <3>1. c[1] \in Readers /\ c = <<c[1], c[2]>>
      BY <2>3 DEF Flush!ChunkIds
    <3>2. QED
      BY <2>3, <3>1
  <2>4. QED
    BY <2>1, <2>2, <2>3
<1>4. \A r \in Readers : particles[r] = {}
  BY <1>1 DEF FlushInv, PlanInv, Holding
<1>5. QED
  BY <1>3, <1>4

\* The exchange of particles, for any readers, chunks and windows and any number of
\* exchanges: it is not over while a chunk waits to be posted, after it every piece has
\* exactly its particles, and what a reader has in flight is what it counts, and is past
\* the window by less than a chunk.
THEOREM FlushIsSound == IterationSpec => []FlushSettles
<1>1. FlushInv => FlushSettles
  BY FlushTyped, FlushNotQuiet, FlushDelivers, FlushCounted DEF FlushSettles
<1>2. QED
  BY <1>1, FlushInit, FlushInvKept, PTL DEF IterationSpec
=============================================================================
