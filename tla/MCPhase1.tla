------------------------------ MODULE MCPhase1 ------------------------------
\* Three PEs and four pieces of one or two particles; one piece more than PEs,
\* so that somebody holds two, and a PE may hold none.  Below, the trees of the
\* walks: two pieces on one PE, a deeper one on another, eleven particles.
EXTENDS Phase1

CONSTANTS t1, t2, t3, t4

MCPEs == 0 .. 2
MCPieces == {t1, t2, t3, t4}
MCHome == (t1 :> 0) @@ (t2 :> 0) @@ (t3 :> 1) @@ (t4 :> 2)
MCParts == (t1 :> {1, 6}) @@ (t2 :> {2}) @@ (t3 :> {3, 5}) @@ (t4 :> {4})
MCNear == {{t1, t2}, {t1, t3}, {t2, t3}, {t3, t4}}

\* Two groups: one through three pieces, one that needs two particles of t1.
MCLayouts == {{<<6, 3>>, <<1, 6>>, <<4, 5>>, <<2, 5>>}}

\* One set, and the first two PEs against the third.
MCSplits == {[q \in MCPEs |-> 0], [q \in MCPEs |-> IF q = 2 THEN 1 ELSE 0]}

-----------------------------------------------------------------------------
MCKids == [n \in 1 .. 12 |-> <<<<2, 3>>, <<>>, <<4, 5, 6>>, <<>>, <<>>, <<>>, <<8, 9>>, <<>>,
                               <<11, 12>>, <<>>, <<>>, <<>>>>[n]]
MCLeafParts == [n \in 1 .. 12 |-> <<<<>>, <<3, 7>>, <<>>, <<1, 9>>, <<5>>, <<>>, <<>>, <<2, 8>>,
                                <<>>, <<6, 10>>, <<4>>, <<11>>>>[n]]
MCRoots == <<<<1, 10>>, <<7>>>>

Scatter(seed, m) ==
  [x \in 1 .. 11 |-> <<(seed * x * x + 3 * x) % m, (seed * x + x * x) % m, (7 * x + seed * x * x * x) % m>>]
Case(seed, m, period, grid, rootOnly, annotate, depth, size, factor, regions) ==
  [kids |-> MCKids, parts |-> MCLeafParts, roots |-> MCRoots, pos |-> Scatter(seed, m),
   period |-> <<period, 0, period>>, grid |-> grid, rootOnly |-> rootOnly, annotate |-> annotate,
   depth |-> depth, size |-> size, factor |-> factor, regions |-> regions]

\* A dense node in a piece that is not: the grid's second chance.
Clump == <<<<0, 0, 0>>, <<9, 0, 0>>, <<30, 30, 30>>, <<10, 4, 1>>, <<4, 4, 4>>, <<7, 5, 5>>,
           <<33, 30, 30>>, <<10, 10, 1>>, <<2, 3, 1>>, <<24, 26, 28>>, <<13, 8, 2>>>>

MCScenes ==
  {[Case(1, 4, 0, 10, FALSE, TRUE, 2, 0, 1, 2) EXCEPT !.pos = Clump]}
   \cup {Case(seed, m, 0, 10, m = 6, seed = 2, 2, 0, 1, 2) : seed \in 1 .. 3, m \in {4, 6, 9, 13}}
   \cup {Case(seed, m, m, 20, TRUE, TRUE, 1, seed % 2, 0, 0) : seed \in 1 .. 2, m \in {11, 13}}
=============================================================================
