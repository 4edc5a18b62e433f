---------------------------- MODULE MCPlacement ----------------------------
(***************************************************************************)
(* Small decompositions of a binary tree of four levels, and load          *)
(* balancing of four partitions; the distributed balancer runs once on     *)
(* three PEs and twice on two.                                             *)
(***************************************************************************)
EXTENDS Placement

Rest ==
  [partition |-> "none", piece |-> "host", n |-> 2, at |-> <<>>, spacing |-> 1, side |-> 16, cell |-> <<>>, by |-> <<>>,
   mode |-> "block"]

Keys == 2^KeyBits .. AllOnes - 1

\* Four particles with every combination of keys; not more at one key than a
\* subtree may have (the keys of the code have 21 levels).  Pieces of unequal size are
\* dealt by size, those of at most one particle in blocks and in turn.
KeyJobs ==
  {[Rest EXCEPT !.partition = k, !.piece = "oct", !.n = n, !.at = s, !.mode = m] :
     k \in {"sfc", "oct"}, n \in {2, 3}, m \in {"block", "rr", "spread"},
     s \in {t \in [1 .. 4 -> Keys] : t[1] <= t[2] /\ t[2] <= t[3] /\ t[3] <= t[4]}}
Sparse(j) ==
  /\ j.partition = "sfc" => j.mode = "block"
  /\ j.partition = "oct" => (j.mode = "spread" <=> j.n = 2)
  /\ \A p \in 1 .. 4 : Cardinality({q \in 1 .. 4 : j.at[q] = j.at[p]}) <= 4 \div j.n

\* Four particles in two dimensions, coinciding or not; in the second they are at four
\* places or at two.
PosJobs ==
  {[Rest EXCEPT !.partition = k, !.piece = k, !.n = n, !.mode = "spread",
                !.at = [p \in 1 .. 4 |-> <<x[p], y[p]>>]] :
     k \in {"kd", "longest"}, n \in {2, 4},
     x \in {<<1, 3, 5, 15>>, <<1, 1, 3, 9>>, <<7, 7, 7, 7>>}, y \in {s \in [1 .. 4 -> {1, 3, 9, 15}] : Cardinality(Range(s)) # 3}}

\* Four particles on floats that are twice as far apart as the grain, and a universe of
\* four or five of them.
CoarseJobs ==
  {[Rest EXCEPT !.partition = "kd", !.piece = "kd", !.n = n, !.mode = "spread",
                !.spacing = 4, !.side = l, !.at = [p \in 1 .. 4 |-> <<x[p], y[p]>>]] :
     n \in {2, 4}, l \in {16, 20}, x \in {<<4, 4, 8, 12>>, <<8, 8, 8, 8>>, <<16, 16, 16, 16>>},
     y \in [1 .. 4 -> {4, 16}]}

\* Three particles staged in cells by three PEs, one of them perhaps across the face
\* of its cell; a cell inside another is refused.
HostJobs ==
  {[Rest EXCEPT !.at = s, !.cell = c, !.by = b] :
     b \in {<<0, 1, 1>>, <<3, 3, 0>>},
     c \in {<<1, 1, 1>>, <<2, 2, 2>>, <<2, 3, 3>>, <<5, 5, 6>>, <<2, 6, 7>>, <<12, 5, 7>>},
     s \in [1 .. 3 -> {16, 19, 23, 24, 27, 30}]}
Near(j) == Cardinality({p \in 1 .. 3 : ~IsKeyPrefix(j.cell[p], j.at[p])}) <= 1

MCJobs == {j \in KeyJobs : Sparse(j)} \cup PosJobs \cup CoarseJobs
            \cup {j \in HostJobs : Near(j)}

Pt(p, load, size, x) == [kind |-> "pt", pe |-> p, load |-> load, size |-> size, at |-> <<x>>]
Other(p, load) == [kind |-> "other", pe |-> p, load |-> load, size |-> 1, at |-> <<1>>]
Four(pes, w, x) == [i \in 1 .. 4 |-> Pt(pes[i], w[i], w[i], x[i])]

MCSettings ==
  {[balancer |-> "prefix", n_pes |-> 3, steps |-> 1, objs |-> Four(h, w, <<1, 2, 3, 4>>)] :
     h \in [1 .. 4 -> 0 .. 2], w \in {<<1, 1, 1, 1>>, <<1, 2, 1, 2>>, <<3, 1, 1, 1>>, <<1, 1, 1, 3>>}}
  \cup
  {[balancer |-> "orb", n_pes |-> 4, steps |-> 1, objs |-> Four(<<0, 0, 1, 2>>, w, x)] :
     w \in [1 .. 4 -> {1, 3}], x \in {<<1, 2, 3, 4>>, <<-1, -4, -2, -3>>}}
  \cup
  {[balancer |-> "distributed", n_pes |-> 3, steps |-> 1,
    objs |-> <<Pt(0, 1, 1, 1), Pt(1, 1, 1, 3), Pt(1, 3, 1, 7), Pt(2, 1, 1, 9),
               Other(0, 2), Other(1, 1), Other(2, 0)>>]}
  \cup
  {[balancer |-> "distributed", n_pes |-> 2, steps |-> 2,
    objs |-> <<Pt(0, w[1], 1, 1), Pt(0, 1, 1, 3), Pt(0, 3, 1, 7), Pt(h, 1, 1, 9), Other(0, w[2])>>] :
     h \in 0 .. 1, w \in {<<1, 2>>, <<5, 0>>}}
=============================================================================
