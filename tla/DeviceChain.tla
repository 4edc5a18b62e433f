---------------------------- MODULE DeviceChain ----------------------------
\* Phase 1 of Friends-of-Friends on a GPU, around the kernels of
\* DeviceUnionFind: the PEs of a process count their particles, pack them and
\* their trees into the staging buffers, and take delivery of the labels
\* (deviceStage0 to deviceScatter of fof/FoFPhase1.h).  The PE that makes the last
\* of a stage's deposits goes on with what belongs to the process.  The driver
\* runs the chain once per iteration; the buffers of the device live on, and the
\* particles and their pieces move.
EXTENDS DeviceUnionFind

CONSTANT
  Runs      \* what may happen: records of rounds (a sequence of [pieces, pos]), PEs,
            \* release, verify and the parameters of a forest.  A piece has its pe,
            \* parts (the orders of its particles) and leaves (the live tree: for the
            \* key of a leaf where its particles begin and how many they are)

VARIABLES
  run,          \* one of Runs
  round,        \* the iteration
  at,           \* the message that waits for each PE, if any
  init_sent,    \* deviceInitOnHome waits for the home PE
  dev_base,     \* dev_base_ of every PE
  dev_total,    \* dev_total
  deposits,     \* dev_count_done, dev_pack_done, dev_scatter_done
  staged,       \* the device's host buffers: n, pos, order, n_nodes, nodes, roots
  h_top,        \* the top tree the device keeps: the boxes of the pieces, or <<>>
  group,        \* group_number of every particle
  pe_roots,     \* the representatives of every PE: <<rep_label, root_counts>>
  bad           \* mismatches counted by the mode that verifies

depositVars == <<run, round, at, init_sent, dev_base, dev_total, deposits>>
bufferVars == <<staged, h_top>>
resultVars == <<group, pe_roots, bad>>
chainVars == <<kernelVars, depositVars, bufferVars, resultVars>>

MyPEs == 0 .. run.pes - 1
Everyone(m) == [q \in MyPEs |-> m]
Now == run.rounds[round]
PiecesOf(q) == SelectSeq(Now.pieces, LAMBDA s : s.pe = q)
PartsOf(q) == FlattenSeq([k \in 1 .. Len(PiecesOf(q)) |-> PiecesOf(q)[k].parts])
SumOver(S, f(_)) == FoldSet(LAMBDA x, acc : acc + f(x), 0, S)

\* The labels of one union-find over the particles where they are now.
Exact(o) ==
  LET D == DOMAIN Now.pos
      near(p, q) == \E s \in {-run.period, 0, run.period} :
                      Abs(Now.pos[p] - Now.pos[q] + s) <= run.b
  IN  LeastReached({e \in D \X D : near(e[1], e[2])}, o, Cardinality(D))

-----------------------------------------------------------------------------
\* The flat tree of a piece (flattenTree, at tree build).  The keys of the live
\* nodes in increasing order are the tree breadth first; empty leaves are dropped.
Up(k) == {k \div (2 ^ d) : d \in 0 .. 4} \ {0}
FlatTree(s) ==
  LET full == {k \in DOMAIN s.leaves : s.leaves[k].n > 0}
      keys == UNION {Up(k) : k \in full}
      flat == [i \in 1 .. Cardinality(keys) |->
                 CHOOSE k \in keys : Cardinality({j \in keys : j < k}) = i - 1]
      under(k) == {l \in full : k \in Up(l)}
      kids(k) == SelectSeq(flat, LAMBDA c : c \in {2 * k, 2 * k + 1})
      place(c) == (CHOOSE i \in 1 .. Len(flat) : flat[i] = c) - 1
  IN  [i \in 1 .. Len(flat) |->
        [begin |-> Min({s.leaves[l].begin : l \in under(flat[i])}),
         n |-> SumOver(under(flat[i]), LAMBDA l : s.leaves[l].n),
         children |-> [j \in 1 .. Len(kids(flat[i])) |-> place(kids(flat[i])[j])]]]

\* The layout (devicePlanTree): the pieces one after the other, and each piece's
\* particles after those of its PE's pieces before it.
Places == 1 .. Len(Now.pieces)
NodeOff(k) == SumOver(1 .. k - 1, LAMBDA j : Len(FlatTree(Now.pieces[j])))
PartOff(k) ==
  LET s == Now.pieces[k] IN
  dev_base[s.pe] + SumOver({j \in 1 .. k - 1 : Now.pieces[j].pe = s.pe},
                           LAMBDA j : Len(Now.pieces[j].parts))
TotalNodes == NodeOff(Len(Now.pieces) + 1)
Planted == SelectSeq([k \in Places |-> k], LAMBDA k : FlatTree(Now.pieces[k]) # <<>>)

-----------------------------------------------------------------------------
NoDeposits == [count |-> 0, pack |-> 0, scatter |-> 0]
NoStaging == [n |-> 0, pos |-> <<>>, order |-> <<>>, n_nodes |-> 0, nodes |-> <<>>,
              roots |-> <<>>]
Uninitialized(n) == [i \in 0 .. n - 1 |-> None]

ChainInit ==
  /\ DeviceInit
  /\ run \in Runs
  /\ round = 0 /\ at = Everyone("contributed") /\ init_sent = FALSE
  /\ dev_base = Everyone(0) /\ dev_total = 0 /\ deposits = NoDeposits
  /\ staged = NoStaging /\ h_top = <<>>
  /\ group = <<>> /\ pe_roots = Everyone({}) /\ bad = 0

\* The driver: the next iteration, unless a mismatch ends the run; resetDevice, and
\* in the mode that verifies the whole CPU chain.
Cleared == NoDeposits
Begin ==
  /\ round < Len(run.rounds) /\ at = Everyone("contributed")
  /\ UNCHANGED <<kernelVars, run, init_sent, dev_base, bufferVars>>
  /\ \/ /\ bad # 0
        /\ at' = Everyone("aborted")
        /\ UNCHANGED <<round, deposits, dev_total, resultVars>>
     \/ /\ bad = 0
        /\ round' = round + 1 /\ at' = Everyone("stage0")
        /\ deposits' = Cleared /\ dev_total' = 0
        /\ group' = [o \in DOMAIN run.rounds[round + 1].pos |->
                       IF run.verify THEN Exact(o)' ELSE None]
        /\ UNCHANGED <<pe_roots, bad>>

\* deviceStage0: the slice of the process-flat index space, in the order of arrival.
DeviceStage0(q) ==
  /\ at[q] = "stage0"
  /\ at' = [at EXCEPT ![q] = "none"]
  /\ dev_base' = [dev_base EXCEPT ![q] = dev_total]
  /\ dev_total' = dev_total + Len(PartsOf(q))
  /\ deposits' = [deposits EXCEPT !.count = @ + 1]
  /\ init_sent' = (deposits.count + 1 = run.pes)
  /\ UNCHANGED <<kernelVars, run, round, bufferVars, resultVars>>

\* deviceInitOnHome: buffers of the size they have are kept with what is in them.
DeviceInitOnHome ==
  LET n == dev_total m == TotalNodes
      same == n = staged.n
      keep == m = 0 \/ (m = staged.n_nodes /\ Len(Planted) = Len(staged.roots))
  IN
  /\ init_sent /\ init_sent' = FALSE
  /\ staged' = [n |-> n,
       pos |-> IF same THEN staged.pos ELSE Uninitialized(n),
       order |-> IF same THEN staged.order ELSE Uninitialized(n),
       n_nodes |-> IF keep THEN staged.n_nodes ELSE m,
       nodes |-> IF keep THEN staged.nodes ELSE Uninitialized(m),
       roots |-> IF m = 0 THEN staged.roots
                 ELSE [i \in 1 .. Len(Planted) |-> NodeOff(Planted[i])]]
  /\ h_label' = IF same THEN h_label ELSE Uninitialized(n)
  /\ at' = Everyone("pack")
  /\ UNCHANGED <<deviceVars, run, round, dev_base, dev_total, deposits, h_top, resultVars>>

\* A PE's slices: its particles, and its trees with their links rebased.
Rebased(k) ==
  LET t == FlatTree(Now.pieces[k]) off == NodeOff(k) IN
  [i \in off .. off + Len(t) - 1 |->
    LET d == t[i - off + 1] IN
    [begin |-> d.begin + PartOff(k), n |-> d.n,
     children |-> [j \in 1 .. Len(d.children) |-> d.children[j] + off]]]
MyNodes(q) ==
  FoldSet(LAMBDA k, f : Rebased(k) @@ f, <<>>, {k \in Places : Now.pieces[k].pe = q})
Packed(q) ==
  LET base == dev_base[q] mine == PartsOf(q)
      slice(f(_)) == [i \in base .. base + Len(mine) - 1 |-> f(mine[i - base + 1])]
      order == slice(LAMBDA o : o) @@ staged.order
      pos == slice(LAMBDA o : Now.pos[o]) @@ staged.pos
      nodes == MyNodes(q) @@ staged.nodes
  IN  [staged EXCEPT !.order = order, !.pos = pos, !.nodes = nodes]

\* What the device computes of the tree that arrived (uploadTree).
Intact(st) ==
  /\ \A i \in DOMAIN st.nodes :
       LET d == st.nodes[i] kids == Range(d.children) IN
       /\ d.n > 0 /\ d.begin >= 0
       /\ kids # {} => /\ \A c \in kids : c > i
                       /\ SumOver(kids, LAMBDA c : st.nodes[c].n) = d.n
  /\ SumOver(DOMAIN st.roots, LAMBDA i : st.nodes[st.roots[i]].n) = dev_total

\* The top tree is built over the boxes of the pieces' roots, if there is none; an
\* upload drops the one of the tree before.
Dropped == <<>>
TopOf(old, st) ==
  IF old # <<>> THEN old
  ELSE [i \in DOMAIN st.roots |->
         LET d == st.nodes[st.roots[i]]
             here == {st.pos[p] : p \in d.begin .. d.begin + d.n - 1}
         IN  [lo |-> Min(here), hi |-> Max(here)]]

Forest(st) ==
  [pos |-> st.pos, order |-> st.order, nodes |-> st.nodes, roots |-> st.roots,
   top |-> h_top', b |-> run.b, cell |-> run.cell, gate |-> run.gate,
   least |-> run.least, period |-> run.period, lanes |-> run.lanes, kStack |-> run.kStack]

\* devicePack, and the launch by the PE that packs last; it waits for the kernels.
DevicePack(q) ==
  LET st == Packed(q) last == deposits.pack + 1 = run.pes IN
  /\ at[q] = "pack"
  /\ staged' = st
  /\ deposits' = [deposits EXCEPT !.pack = @ + 1]
  /\ \/ /\ ~last
        /\ at' = [at EXCEPT ![q] = "none"]
        /\ UNCHANGED <<deviceVars, h_top>>
     \/ /\ last /\ (TotalNodes = 0 \/ ~Intact(st))
        /\ at' = Everyone("aborted")
        /\ UNCHANGED <<deviceVars, h_top>>
     \/ /\ last /\ TotalNodes # 0 /\ Intact(st)
        /\ at' = [at EXCEPT ![q] = "complete"]
        /\ h_top' = TopOf(Dropped, st)
        /\ Prepare(Forest(st))
  /\ UNCHANGED <<h_label, run, round, init_sent, dev_base, dev_total, resultVars>>

\* deviceComplete: dropped work ends the run.
DeviceComplete(q) ==
  /\ at[q] = "complete" /\ Complete
  /\ at' = Everyone(IF overflows # 0 THEN "aborted" ELSE "scatter")
  /\ UNCHANGED <<run, round, init_sent, dev_base, dev_total, deposits, bufferVars, resultVars>>

\* deviceAdopt: a representative per run of equal labels.
RunsOf(ls) ==
  LET starts == {i \in 1 .. Len(ls) : i = 1 \/ ls[i] # ls[i - 1]}
      len(i) == Cardinality({j \in i .. Len(ls) : \A k \in i + 1 .. j : k \notin starts})
  IN  {<<i, ls[i], len(i)>> : i \in starts}

\* deviceScatter: its slice of the labels is adopted, or compared; the last PE to
\* read them lets the buffers go (releaseStaging keeps the labels).
DeviceScatter(q) ==
  LET mine == PartsOf(q)
      mylabels == [i \in 1 .. Len(mine) |-> h_label[dev_base[q] + i - 1]]
  IN
  /\ at[q] = "scatter"
  /\ at' = [at EXCEPT ![q] = "contributed"]
  /\ \/ /\ run.verify
        /\ bad' = bad + Cardinality({i \in 1 .. Len(mine) : mylabels[i] # group[mine[i]]})
        /\ UNCHANGED <<group, pe_roots>>
     \/ /\ ~run.verify
        /\ group' = [o \in DOMAIN group |->
                       IF \E i \in 1 .. Len(mine) : mine[i] = o
                       THEN mylabels[CHOOSE i \in 1 .. Len(mine) : mine[i] = o]
                       ELSE group[o]]
        /\ pe_roots' = [pe_roots EXCEPT ![q] = RunsOf(mylabels)]
        /\ UNCHANGED bad
  /\ deposits' = [deposits EXCEPT !.scatter = @ + 1]
  /\ IF run.release /\ deposits.scatter + 1 = run.pes
     THEN staged' = NoStaging /\ h_top' = <<>>
     ELSE UNCHANGED bufferVars
  /\ UNCHANGED <<kernelVars, run, round, init_sent, dev_base, dev_total>>

\* The kernels run while the PE that launched waits for the stream.
OnDevice == Kernels /\ UNCHANGED <<depositVars, bufferVars, resultVars>>

Ended == at = Everyone("aborted") \/ (round = Len(run.rounds) /\ at = Everyone("contributed"))

ChainNext ==
  \/ Begin \/ DeviceInitOnHome \/ OnDevice
  \/ \E q \in MyPEs : DeviceStage0(q) \/ DevicePack(q) \/ DeviceComplete(q) \/ DeviceScatter(q)

-----------------------------------------------------------------------------
\* Whatever order the PEs arrived, packed and scattered in, whatever the device
\* kept from the iteration before and however its lanes ran into each other: at the
\* end of an iteration every particle has the least order of its component, a PE's
\* representatives count its particles by label, and the CPU chain agrees.
LabelsDelivered ==
  round > 0 /\ at = Everyone("contributed") =>
    /\ bad = 0
    /\ \A o \in DOMAIN group : group[o] = Exact(o)
    /\ ~run.verify =>
         \A q \in MyPEs : \A l \in {r[2] : r \in pe_roots[q]} :
           SumOver({r \in pe_roots[q] : r[2] = l}, LAMBDA r : r[3])
             = Cardinality({i \in 1 .. Len(PartsOf(q)) : group[PartsOf(q)[i]] = l})

\* Every iteration has ended: no find follows links for ever, no deposit is the last
\* one twice or never.  A run stops short only over work the kernels dropped, or when
\* a process has no tree.
EndsWell == Ended /\ (at = Everyone("aborted") => overflows # 0 \/ TotalNodes = 0)
=============================================================================
