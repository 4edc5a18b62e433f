---------------------------- MODULE MCIteration ----------------------------
(***************************************************************************)
(* Small instances of the stages of an iteration, of whole runs and of the *)
(* calls of a host; while the settings of one vary the others keep those   *)
(* of Rest.                                                                *)
(***************************************************************************)
EXTENDS Iteration, TLC

CONSTANTS l1, l2, l3, a, b, t1, t2, t3, t4, c1, c2

\* Flush: reader a has a chunk for a piece of its own PE, chunks that fill the
\* window exactly and one that is larger than it; reader b has two chunks.
MCPlans ==
  [r \in {a, b} |->
     IF r = a
       THEN <<[dest |-> t1, count |-> 1], [dest |-> t2, count |-> 1],
              [dest |-> t3, count |-> 3], [dest |-> t4, count |-> 2]>>
       ELSE <<[dest |-> t1, count |-> 2], [dest |-> t2, count |-> 1], [dest |-> t3, count |-> 1]>>]

MCLocalTo == [r \in {a, b} |-> IF r = a THEN {t1} ELSE {t3}]

\* Leaf shipping: in Crossed each process has a piece and partitions of the
\* other's leaves; in Hosted one has three pieces, and two partitions of the
\* other want leaves of each; in Matched pieces and partitions are the same.
Crossed ==
  [matching |-> FALSE, pieceOn |-> <<c1, c2>>, partOn |-> <<c1, c2, c2>>,
   leaves |-> <<{{1}, {1, 2}, {3}}, {{2}, {1, 3}}>>]
Hosted ==
  [matching |-> FALSE, pieceOn |-> <<c1, c1, c1>>, partOn |-> <<c1, c2, c2>>,
   leaves |-> <<{{2}, {3}}, {{1}, {2, 3}}, {{1, 2}, {3}}>>]
Matched ==
  [matching |-> TRUE, pieceOn |-> <<c1, c2>>, partOn |-> <<c1, c2>>,
   leaves |-> <<{{1}}, {{2}}>>]

\* Canopy, with two children per node: a tree that deepens on one side, and a
\* tree that is one piece, in either order.  Of the numbers of nodes to share, 3
\* leaves the deepest level uncollected, 6 has room for more than there is and 0 is
\* unset.
Uneven == {2, 12, 13, 14, 15}
Single == {1}
MCDecompositions == {Uneven, Single}

\* Three or four particles, on three PEs.
Idle ==
  [format |-> "nchilada", count |-> <<1, 0, 2>>, vel |-> <<"full", "absent", "full">>,
   reads |-> TRUE, mode |-> "single", moves |-> TRUE, iterations |-> 2, flush_period |-> 0,
   lb_period |-> 1, deletes |-> {}, output |-> {}]
\* Every split of the families over the readers; an analysis, in which nothing moves.
LoadJobs ==
  {[Idle EXCEPT !.format = f, !.count = c, !.vel = v, !.reads = r, !.moves = FALSE, !.lb_period = 0] :
     f \in {"tipsy", "nchilada"}, c \in {<<2, 1, 1>>, <<0, 4, 0>>, <<1, 0, 3>>},
     v \in {<<"full", "absent", "constant">>, <<"constant", "full", "full">>}, r \in BOOLEAN}
MoveJobs ==
  {[Idle EXCEPT !.mode = m] : m \in {"single", "matching", "dual"}}
    \cup {[Idle EXCEPT !.mode = m, !.deletes = {1}] : m \in {"matching", "dual"}}
\* Files are written after both iterations; between them the pieces are kept, or
\* decomposed anew.
WriteJobs ==
  {[Idle EXCEPT !.mode = m, !.count = IF v THEN <<1, 1, 1>> ELSE <<1, 2, 1>>,
                !.output = {0, 1}, !.moves = v,
                !.lb_period = IF v THEN 1 ELSE 0, !.flush_period = 1] :
     m \in {"matching", "dual"}, v \in BOOLEAN}

\* Two PEs stage in different ways for two calls, with and without a filter.
Call(i, j, gs, least, catalog, clears) ==
  [ids |-> (0 :> i @@ 1 :> j), groups |-> [n \in UNION gs |-> CHOOSE g \in gs : n \in g],
   min_group_size |-> least, catalog |-> catalog, clears |-> clears]
Pairs == {{1, 3}, {2}}
MCHosts ==
  {<<Call(<<3, 1>>, <<2>>, Pairs, k, FALSE, x), Call(<<2>>, <<1, 3>>, {{1}, {2, 3}}, n, c, FALSE)>> :
     k \in {1, 2}, n \in {1, 2}, c \in BOOLEAN, x \in BOOLEAN}
Empty == <<Call(<<2>>, <<>>, {{2}}, 1, TRUE, TRUE), Call(<<>>, <<>>, {{2}}, 1, TRUE, TRUE)>>

Rest ==
  [stage |-> "load", window |-> 0, in_place |-> TRUE, layout |-> Matched, share |-> 0,
   job |-> Idle, host |-> Empty]

\* The window is off, of one particle, of two and never reached.
MCScenarios ==
  {Rest}
    \cup {[Rest EXCEPT !.stage = "flush", !.window = w, !.in_place = i] :
            w \in {0, 1, 2, 10}, i \in BOOLEAN}
    \cup {[Rest EXCEPT !.stage = "ship", !.layout = y] : y \in {Crossed, Hosted, Matched}}
    \cup {[Rest EXCEPT !.stage = "gather", !.share = n] : n \in {0, 3, 6}}
    \cup {[Rest EXCEPT !.stage = "drive", !.job = j] : j \in LoadJobs \cup MoveJobs \cup WriteJobs}
    \cup {[Rest EXCEPT !.stage = "host", !.host = h] : h \in MCHosts \cup {Empty}}
=============================================================================
