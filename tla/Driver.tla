-------------------------------- MODULE Driver --------------------------------
(***************************************************************************)
(* The particles of a simulation from one snapshot file to the next: the   *)
(* readers load them, the decomposition gives each to a tree piece and a   *)
(* partition, every iteration kicks and moves them, rebuilds or decomposes *)
(* anew and may balance the load, and the writers write them               *)
(* (src/Reader.C, src/NChiladaReader.C, src/Driver.h: decompose, run,      *)
(* src/Partition.h, src/TreePiece.h, src/Writer.C).                        *)
(*                                                                         *)
(* Which piece a particle's key falls to is left open, module Decompose is *)
(* about that; so is what moves it: a particle counts its kicks and moves. *)
(* A partition's leaves are here the particles that name it, in whichever  *)
(* piece they are (module LeafShipping).                                   *)
(***************************************************************************)
EXTENDS Integers, SequencesExt, BagsExt

CONSTANTS
  NPes,
  NElements,   \* tree pieces, and partitions if there are any
  Jobs,        \* the snapshots and configurations, see JobType
  KChunk       \* particles of a family staged at a time

PEs == 0 .. NPes - 1
Elements == 1 .. NElements
Families == 1 .. 3      \* gas, dark, star

JobType ==
  [format     : {"tipsy", "nchilada"},
   count      : [Families -> Nat],
   vel        : [Families -> {"absent", "constant", "full"}],   \* a field file
   reads      : BOOLEAN,                  \* read_velocity_and_soft
   mode       : {"single", "matching", "dual"},
   moves      : BOOLEAN,                  \* perturb_particles
   iterations : Nat, flush_period : Nat, lb_period : Nat,
   deletes    : SUBSET Nat,               \* orders the application may delete
   output     : SUBSET Nat]               \* iterations after which it writes files

DriverAssumption == Jobs \subseteq JobType /\ NPes > 0 /\ NElements > 0 /\ KChunk > 0

VARIABLES
  job, stage,
  driverIter,  \* iter of Driver::run
  todo,        \* the PEs or elements that have not had their part of the stage
  readers,     \* the bag of particles of every reader
  incoming,    \* incoming_particles of every piece
  held,        \* particles of every piece
  saved,       \* saved_particles of every partition
  home,        \* the PE of every partition, and of the piece bound to it
  part_iter,   \* Partition::iter
  doomed,      \* particle_delete_order of the partitions
  deleted,     \* what the application deleted in earlier iterations (history)
  universe,    \* particles in all and of each family
  complete_rebuild,
  mail,        \* particle messages on their way
  writers,     \* particles and iter_ of every writer
  token,       \* the write message: kind, pe, prefix_count, cur_dim
  file         \* what is in the output files

elementVars == <<incoming, held, saved, home, part_iter, doomed, deleted>>
outputVars == <<writers, token, file>>
driverVars == <<job, stage, driverIter, todo, readers, elementVars, universe, complete_rebuild, mail, outputVars>>

NoParticles == [e \in Elements |-> EmptyBag]
NoCounts == [n |-> 0, of |-> [f \in Families |-> 0]]
NoWriters == [q \in PEs |-> [parts |-> <<>>, iter |-> 0]]
NoToken == [kind |-> "none", pe |-> 0, prefix |-> 0, dim |-> 0]
Together(bags) == FoldFunction(LAMBDA b, sum : b (+) sum, EmptyBag, bags)
Where(b, Keep(_)) == [p \in {x \in DOMAIN b : Keep(x)} |-> b[p]]
Each(b, f(_)) == FoldSet(LAMBDA p, sum : sum (+) [x \in {f(p)} |-> b[p]], EmptyBag, DOMAIN b)
Home == [e \in Elements |-> (e - 1) % NPes]

-----------------------------------------------------------------------------
(* Loading.                                                                *)

Total(j) == j.count[1] + j.count[2] + j.count[3]
FirstOf(j, f) == FoldFunctionOnSet(+, 0, j.count, 1 .. f - 1)
EndOf(j, f) == FirstOf(j, f) + j.count[f]

\* myParticleRange: the excess goes to the first readers, one each.
ParticleRange(n, r) ==
  LET count == n \div NPes
      excess == n % NPes
  IN  IF r < excess THEN [start |-> count * r + r, count |-> count + 1]
                    ELSE [start |-> count * r + excess, count |-> count]

Overlap(lo, hi, a, b) == Max({0, Min({hi, b}) - Max({lo, a})})

\* readFlat: a constant field has no data but its value.
Value(j, f, i) ==
  CASE ~j.reads \/ j.vel[f] = "absent" -> <<>>
    [] j.reads /\ j.vel[f] = "constant" -> <<f>>
    [] j.reads /\ j.vel[f] = "full" -> <<f, i>>
ReadField(j, f, start, n) == [i \in 1 .. n |-> Value(j, f, start + i - 1)]

ChunkStart(start, done) == start + done

\* loadNCFamily: in chunks.
LoadFamily(j, f, start, count) ==
  FlattenSeq([c \in 1 .. (count + KChunk - 1) \div KChunk |->
                LET done == (c - 1) * KChunk
                    n == Min({KChunk, count - done})
                    vel == ReadField(j, f, ChunkStart(start, done), n)
                IN  [i \in 1 .. n |-> [type |-> f, vel |-> vel[i]]]])

\* loadNChilada: the reader's share of each family in turn.
LoadNChilada(j, range) ==
  LET lo == range.start
      hi == range.start + range.count
      Share(f) == LoadFamily(j, f, Max({lo, FirstOf(j, f)}) - FirstOf(j, f),
                             Overlap(lo, hi, FirstOf(j, f), EndOf(j, f)))
  IN  Share(1) \o Share(2) \o Share(3)

\* loadTipsy: one particle after the other, of the type its place has.
LoadTipsy(j, range) ==
  [i \in 1 .. range.count |->
     LET g == range.start + i - 1
         f == IF g < j.count[1] THEN 1 ELSE IF g < j.count[1] + j.count[2] THEN 2 ELSE 3
     IN  [type |-> f, vel |-> <<f, g - FirstOf(j, f)>>]]

Particle(order, p) ==
  [order |-> order, type |-> p.type, vel |-> p.vel, kicks |-> 0, moves |-> 0, part |-> 0, at |-> 0]

Load(j, r) ==
  LET range == ParticleRange(Total(j), r)
      ps == IF j.format = "tipsy" THEN LoadTipsy(j, range) ELSE LoadNChilada(j, range)
  IN  SetToBag({Particle(range.start + i - 1, ps[i]) : i \in DOMAIN ps})

\* The reduction of the bounding boxes.
CountOf(b) ==
  [n |-> BagCardinality(b),
   of |-> [f \in Families |-> BagCardinality(Where(b, LAMBDA p : p.type = f))]]
Sum(u, v) == [n |-> u.n + v.n, of |-> [f \in Families |-> u.of[f] + v.of[f]]]

-----------------------------------------------------------------------------
(* The stages of the driver.                                               *)

StartRun(j) ==
  /\ job = j
  /\ stage = "load" /\ todo = PEs
  /\ driverIter = 0
  /\ readers = [q \in PEs |-> EmptyBag]
  /\ incoming = NoParticles /\ held = NoParticles /\ saved = NoParticles
  /\ home = Home
  /\ part_iter = [e \in Elements |-> 1]
  /\ doomed = {} /\ deleted = {}
  /\ universe = NoCounts
  /\ complete_rebuild = FALSE
  /\ mail = EmptyBag
  /\ writers = NoWriters /\ token = NoToken
  /\ file = [tipsy |-> {}, acc |-> <<>>, den |-> <<>>]

Init == \E j \in Jobs : StartRun(j)

\* x does its part of stage s; after the last the next stage is for those of theirs.
DoesPart(x, s, next, theirs) ==
  /\ stage = s /\ x \in todo
  /\ stage' = IF todo = {x} THEN next ELSE s
  /\ todo' = IF todo = {x} THEN theirs ELSE todo \ {x}

LoadReader(r) ==
  /\ DoesPart(r, "load", "decompose", {})
  /\ readers' = [readers EXCEPT ![r] = Load(job, r)]
  /\ universe' = Sum(universe, CountOf(Load(job, r)))
  /\ UNCHANGED <<job, driverIter, elementVars, complete_rebuild, mail, outputVars>>

\* findSplitters and assignPartitions; the arrays are created.
Decompose ==
  /\ stage = "decompose"
  /\ stage' = "flush" /\ todo' = PEs
  /\ LET orders == {p.order : p \in DOMAIN Together(readers)}
         parts == IF job.mode = "dual" THEN Elements ELSE {0} IN
     \E at \in [orders -> Elements], part \in [orders -> parts] :
       readers' = [r \in PEs |->
                     Each(readers[r], LAMBDA p : [p EXCEPT !.at = at[p.order], !.part = part[p.order]])]
  /\ incoming' = NoParticles /\ held' = NoParticles
  /\ home' = Home
  /\ part_iter' = [e \in Elements |-> 1]
  /\ doomed' = {}
  /\ UNCHANGED <<job, driverIter, saved, deleted, universe, complete_rebuild, mail, outputVars>>

\* Reader::flush (module FlushWindow).
FlushReader(r) ==
  /\ DoesPart(r, "flush", "build", {})
  /\ incoming' = [e \in Elements |-> incoming[e] (+) Where(readers[r], LAMBDA p : p.at = e)]
  /\ readers' = [readers EXCEPT ![r] = EmptyBag]
  /\ UNCHANGED <<job, driverIter, held, saved, home, part_iter, doomed, deleted, universe, complete_rebuild,
                 mail, outputVars>>

\* buildTree swaps in what has arrived.
BuildTree ==
  /\ stage = "build"
  /\ stage' = "traverse"
  /\ held' = incoming /\ incoming' = held
  /\ UNCHANGED <<job, driverIter, todo, readers, saved, home, part_iter, doomed, deleted, universe,
                 complete_rebuild, mail, outputVars>>

Leaves(k) ==
  IF job.mode = "dual" THEN Where(Together(held), LAMBDA p : p.part = k) ELSE held[k]

LastIteration == driverIter + 1 = job.iterations
Kicked(b) == Each(b, LAMBDA p : [p EXCEPT !.kicks = @ + 1])
Moved(b) == Each(b, LAMBDA p : [p EXCEPT !.moves = @ + 1])
Everyone(s) == IF s = "output" THEN Elements ELSE {}
AfterPost == IF job.moves THEN "perturb" ELSE "balance"
ToPost == IF driverIter \in job.output THEN "output" ELSE AfterPost

\* The application's walk, in which it may delete particles of a partition; then the kick and the
\* decision to decompose anew: every flush_period iterations, or by the imbalance.
KickAll ==
  /\ stage = "traverse" /\ job.moves
  /\ stage' = ToPost /\ todo' = Everyone(ToPost)
  /\ \E D \in SUBSET IF job.mode = "single" THEN {} ELSE job.deletes : doomed' = doomed \cup D
  /\ held' = [e \in Elements |-> Kicked(held[e])]
  /\ complete_rebuild' \in
       IF LastIteration THEN {FALSE}
       ELSE IF job.flush_period = 0 THEN BOOLEAN
       ELSE {driverIter % job.flush_period = job.flush_period - 1}
  /\ UNCHANGED <<job, driverIter, readers, incoming, saved, home, part_iter, deleted, universe, mail, outputVars>>

NoKick ==
  /\ stage = "traverse" /\ ~job.moves
  /\ stage' = ToPost /\ todo' = Everyone(ToPost)
  /\ complete_rebuild' = FALSE
  /\ UNCHANGED <<job, driverIter, readers, elementVars, universe, mail, outputVars>>

-----------------------------------------------------------------------------
(* Output.                                                                 *)

\* Variant: rounded down.
RoundedDown(n) == Max({1, n \div NPes})

PerWriter(n) == (n + NPes - 1) \div NPes

InOrder(ps) == SortSeq(ps, LAMBDA p, q : p.order < q.order)

\* doOutput: a writer has the particles of a range of orders; it keeps the
\* iteration of the partition it hears of last.
DoOutput(k) ==
  LET mine(q) == Where(Leaves(k), LAMBDA p : p.order \div PerWriter(universe.n) = q) IN
  /\ stage = "output" /\ k \in todo
  /\ todo' = todo \ {k}
  /\ writers' = [q \in PEs |->
                   IF mine(q) = EmptyBag THEN writers[q]
                   ELSE [parts |-> writers[q].parts \o SetToSeq(DOMAIN mine(q)), iter |-> part_iter[k]]]
  /\ UNCHANGED <<job, stage, driverIter, readers, elementVars, universe, complete_rebuild, mail, token, file>>

\* outputTipsy, outputParticleAccelerations: at quiescence the first writer is told.
StartWriting ==
  /\ stage = "output" /\ todo = {}
  /\ stage' = "write"
  /\ token' = [NoToken EXCEPT !.kind = "tipsy"]
  /\ UNCHANGED <<job, driverIter, todo, readers, elementVars, universe, complete_rebuild, mail, writers, file>>

Sorted(q) == InOrder(writers[q].parts)

\* TipsyWriter::write: from prefix_count on; PE 0 creates the file.
WriteTipsy ==
  LET q == token.pe
      name == writers[q].iter
      kept == {x \in file.tipsy : ~(q = 0 /\ x.name = name)}
      slots == {token.prefix + i : i \in DOMAIN Sorted(q)} IN
  /\ stage = "write" /\ token.kind = "tipsy"
  /\ file' = [file EXCEPT !.tipsy =
                {x \in kept : ~(x.name = name /\ x.slot \in slots)} \cup
                {[name |-> name, slot |-> token.prefix + i, is |-> Sorted(q)[i]] : i \in DOMAIN Sorted(q)}]
  /\ token' = IF q = NPes - 1
                THEN [NoToken EXCEPT !.kind = "acc"]
                ELSE [token EXCEPT !.pe = q + 1, !.prefix = @ + Len(Sorted(q))]
  /\ UNCHANGED <<job, stage, driverIter, todo, readers, elementVars, universe, complete_rebuild, mail, writers>>

\* ParticleWriter::write: once around for each component of the acceleration.
NextWriter(t) ==
  IF t.pe # NPes - 1 THEN [t EXCEPT !.pe = @ + 1]
  ELSE IF t.dim = 2 THEN NoToken
  ELSE [t EXCEPT !.pe = 0, !.dim = @ + 1]

\* do_write: a line for each particle; PE 0 creates the files in the first round.
WriteAcc ==
  LET q == token.pe
      fresh == q = 0 /\ token.dim = 0
      lines == [i \in DOMAIN Sorted(q) |-> Sorted(q)[i].order]
      Appended(old) == (IF fresh THEN <<>> ELSE old) \o lines IN
  /\ stage = "write" /\ token.kind = "acc"
  /\ file' = [file EXCEPT !.acc = Appended(@), !.den = IF token.dim = 0 THEN Appended(@) ELSE @]
  /\ token' = NextWriter(token)
  /\ IF token' = NoToken THEN stage' = AfterPost /\ writers' = NoWriters
                         ELSE UNCHANGED <<stage, writers>>
  /\ UNCHANGED <<job, driverIter, todo, readers, elementVars, universe, complete_rebuild, mail>>

-----------------------------------------------------------------------------
(* Movement.                                                               *)

\* Partition::perturb copies its leaves without what was deleted; the pieces of a
\* single distribution move their own particles.
Perturb ==
  /\ stage = "perturb"
  /\ stage' = "rebuild" /\ todo' = Elements
  /\ IF job.mode = "single"
       THEN /\ held' = [e \in Elements |-> Moved(held[e])]
            /\ universe' = CountOf(Together(held))
            /\ UNCHANGED <<saved, part_iter>>
       ELSE /\ saved' = [k \in Elements |->
                           saved[k] (+) Moved(Where(Leaves(k), LAMBDA p : p.order \notin doomed))]
            /\ universe' = CountOf(Together(saved'))
            /\ part_iter' = [k \in Elements |-> part_iter[k] + 1]
            /\ UNCHANGED held
  /\ deleted' = deleted \cup doomed
  /\ UNCHANGED <<job, driverIter, readers, incoming, home, doomed, complete_rebuild, mail, outputVars>>

\* Partition::rebuild, TreePiece::rebucket: every particle gets its key in the new
\* universe and goes to a reader, or to the piece it is below.
Rebuild(e) ==
  LET source == IF job.mode = "single" THEN held[e] ELSE saved[e] IN
  /\ stage = "rebuild" /\ e \in todo
  /\ todo' = todo \ {e}
  /\ \E at \in [{p.order : p \in DOMAIN source} -> Elements] :
       LET keyed == Each(source, LAMBDA p : [p EXCEPT !.at = at[p.order]])
           to(d) == Where(keyed, LAMBDA p : p.at = d)
       IN  mail' = mail (+) SetToBag(
                     IF complete_rebuild THEN {[kind |-> "reader", to |-> home[e], parts |-> keyed]}
                     ELSE {[kind |-> "piece", to |-> d, parts |-> to(d)] :
                             d \in {x \in Elements : to(x) # EmptyBag}})
  /\ IF job.mode = "single" THEN held' = [held EXCEPT ![e] = EmptyBag] /\ UNCHANGED saved
                            ELSE saved' = [saved EXCEPT ![e] = EmptyBag] /\ UNCHANGED held
  /\ UNCHANGED <<job, stage, driverIter, readers, incoming, home, part_iter, doomed, deleted, universe,
                 complete_rebuild, outputVars>>

ReaderReceive(m) ==
  /\ m.kind = "reader"
  /\ readers' = [readers EXCEPT ![m.to] = @ (+) m.parts]
  /\ UNCHANGED <<held, incoming>>

\* Variant: what arrives is put with what the piece has.
IntoParticles(m) ==
  /\ m.kind = "piece"
  /\ held' = [held EXCEPT ![m.to] = @ (+) m.parts]
  /\ UNCHANGED <<readers, incoming>>

\* A piece that has not been told to rebuild yet puts aside what arrives.
PieceReceive(m) ==
  /\ m.kind = "piece"
  /\ incoming' = [incoming EXCEPT ![m.to] = @ (+) m.parts]
  /\ UNCHANGED <<readers, held>>

Receive ==
  \E m \in DOMAIN mail :
    /\ mail' = mail (-) SetToBag({m})
    /\ ReaderReceive(m) \/ PieceReceive(m)
    /\ UNCHANGED <<job, stage, driverIter, todo, saved, home, part_iter, doomed, deleted, universe,
                   complete_rebuild, outputVars>>

Rebuilt ==
  /\ stage = "rebuild" /\ todo = {} /\ mail = EmptyBag
  /\ stage' = "balance"
  /\ UNCHANGED <<job, driverIter, todo, readers, elementVars, universe, complete_rebuild, mail, outputVars>>

-----------------------------------------------------------------------------
(* Between iterations.                                                     *)

BalanceNow ==
  /\ ~complete_rebuild /\ job.lb_period > 0 /\ ~LastIteration
  /\ driverIter % job.lb_period = job.lb_period - 1

\* What pup leaves behind: iter of a partition, particles of a piece.  The pieces of
\* a decomposition of their own do not migrate.
Migrated(h) == {e \in Elements : h[e] # home[e]}

Balance ==
  /\ stage = "balance"
  /\ stage' = "reset"
  /\ \E h \in IF BalanceNow THEN [Elements -> PEs] ELSE {home} :
       /\ home' = h
       /\ part_iter' = [e \in Elements |-> IF e \in Migrated(h) THEN 1 ELSE part_iter[e]]
       /\ held' = [e \in Elements |-> IF job.mode # "dual" /\ e \in Migrated(h) THEN EmptyBag ELSE held[e]]
  /\ UNCHANGED <<job, driverIter, todo, readers, incoming, saved, doomed, deleted, universe, complete_rebuild, mail,
                 outputVars>>

\* Variant: the particles are dropped also when nothing has replaced them.
Dropped(e) == incoming[e]

\* TreePiece::reset: particles that have not moved are handed back.
HandedBack(e) == IF ~job.moves /\ incoming[e] = EmptyBag THEN held[e] ELSE incoming[e]

Reset ==
  /\ stage = "reset" /\ ~complete_rebuild
  /\ incoming' = [e \in Elements |-> HandedBack(e)]
  /\ held' = NoParticles
  /\ stage' = IF LastIteration THEN "done" ELSE "build"
  /\ driverIter' = driverIter + 1
  /\ UNCHANGED <<job, todo, readers, saved, home, part_iter, doomed, deleted, universe, complete_rebuild, mail,
                 outputVars>>

\* The arrays are destroyed, and the readers' particles decomposed.
Destroy ==
  /\ stage = "reset" /\ complete_rebuild
  /\ stage' = "decompose"
  /\ driverIter' = driverIter + 1
  /\ UNCHANGED <<job, todo, readers, elementVars, universe, complete_rebuild, mail, outputVars>>

Next ==
  \/ \E q \in PEs : LoadReader(q) \/ FlushReader(q)
  \/ \E e \in Elements : DoOutput(e) \/ Rebuild(e)
  \/ Decompose \/ BuildTree \/ KickAll \/ NoKick \/ StartWriting \/ WriteTipsy \/ WriteAcc
  \/ Perturb \/ Receive \/ Rebuilt \/ Balance \/ Reset \/ Destroy

Spec == Init /\ [][Next]_driverVars /\ WF_driverVars(Next)

-----------------------------------------------------------------------------
\* When a tree is built, every particle of the file that was not deleted is in one
\* piece, the one its key is below, once, with what the file says of it and all its
\* kicks and moves; and the universe counts just these.
InPieces == Together([e \in Elements |-> Each(held[e], LAMBDA p : [p EXCEPT !.at = IF @ = e THEN 0 ELSE e, !.part = 0])])
Steps == IF job.moves THEN driverIter ELSE 0
TrueParticle(o) ==
  LET f == CHOOSE g \in Families : FirstOf(job, g) <= o /\ o < EndOf(job, g)
      tipsy == job.format = "tipsy"
      vel == IF tipsy THEN <<f, o - FirstOf(job, f)>> ELSE Value(job, f, o - FirstOf(job, f))
  IN  [Particle(o, [type |-> f, vel |-> vel]) EXCEPT !.kicks = Steps, !.moves = Steps]

ParticlesKept ==
  stage = "traverse" =>
    /\ InPieces = SetToBag({TrueParticle(o) : o \in 0 .. Total(job) - 1 \ deleted})
    /\ universe = CountOf(Together(held))

\* A file that is complete has each particle in its place, once, as it is now.
\* (While no particle has been deleted and no partition has migrated: orders are
\* places only in the first case, and the files have one name only in the second.)
FilesExact ==
  /\ stage = AfterPost /\ driverIter \in job.output /\ deleted = {}
  /\ \A k \in Elements : part_iter[k] = part_iter[1]
  =>
  LET all == [i \in 1 .. Total(job) |-> CHOOSE p \in DOMAIN Together(held) : p.order = i - 1]
      orders == [i \in 1 .. Total(job) |-> i - 1]
  IN  /\ {x \in file.tipsy : x.name = part_iter[1]} =
           {[name |-> part_iter[1], slot |-> i, is |-> all[i]] : i \in DOMAIN all}
      /\ file.acc = orders \o orders \o orders
      /\ file.den = orders

=============================================================================
