------------------------------ MODULE MinUnion ------------------------------
\* The union-find that Friends-of-Friends uses at every level: the particles of
\* one PE (unite), the tips of one process (mergeBody), and the encoded tips of
\* the whole run (contractLocalEdges, the finisher of phase 3).  Each unites by
\* minimum, so a forest is determined by the root of each element, and the
\* forest with all its paths compressed stands for every forest it may be.
EXTENDS Integers, FiniteSets, FiniteSetsExt

\* Every element is its own root.
Alone(S) == [x \in S |-> x]

\* One union: the elements of the larger root take the smaller one.
Unite(root, e) ==
  LET lo == Min({root[e[1]], root[e[2]]})
      hi == Max({root[e[1]], root[e[2]]})
  IN  [x \in DOMAIN root |-> IF root[x] = hi THEN lo ELSE root[x]]

\* The unions of all the edges of E, in some order, on top of root.
UniteAll(root, E) ==
  LET United[F \in SUBSET E] ==
        [r \in [DOMAIN root -> DOMAIN root] |->
           IF F = {} THEN r
           ELSE LET e == CHOOSE f \in F : TRUE IN United[F \ {e}][Unite(r, e)]]
  IN  United[E][root]

\* An edge with the smaller end first (packTipPair of min and max).
Edge(a, b) == <<Min({a, b}), Max({a, b})>>

-----------------------------------------------------------------------------
\* The reference the unions are compared with: a breadth-first search.

Neighbours(E, R) ==
  R \cup {e[1] : e \in {f \in E : f[2] \in R}}
    \cup {e[2] : e \in {f \in E : f[1] \in R}}

\* The least element that a path of E joins to x, among at most n elements.
LeastReached(E, x, n) ==
  LET Ends == {x} \cup {e[1] : e \in E} \cup {e[2] : e \in E}
      Reached[k \in 0 .. n] ==
        [R \in SUBSET Ends |->
           LET further == Neighbours(E, R)
           IN  IF k = 0 \/ further = R THEN R ELSE Reached[k - 1][further]]
  IN  Min(Reached[n][{x}])
=============================================================================
