----------------------------- MODULE MCLabelling -----------------------------
(***************************************************************************)
(* Across: three processes, one of them with two PEs, and seven tips; a    *)
(* tip's particles may be on both PEs of its process.  On the device: ten  *)
(* runs, in which the orders of the particles run against their places     *)
(* where a root should move late.                                          *)
(***************************************************************************)
EXTENDS Labelling

CONSTANTS P, Q, R, P1, P2, Q1, R1

MCProcs == {P, Q, R}
MCPEs == {P1, P2, Q1, R1}
MCProcOf == (P1 :> P) @@ (P2 :> P) @@ (Q1 :> Q) @@ (R1 :> R)
MCTips == 1 .. 7
MCOwner == <<P, Q, R, P, Q, P, P>>
MCTipsOf == (P1 :> {1, 4, 7}) @@ (P2 :> {1, 6}) @@ (Q1 :> {2, 5}) @@ (R1 :> {3})

\* A component over all processes with a local edge of P in the middle, and a
\* component of P alone; a chain with a local edge of Q; and a component in
\* which two tips of P meet only at a tip of Q, and R has no part.
MCGraphs == {{<<2, 6>>, <<4, 6>>, <<3, 4>>, <<1, 7>>},
             {<<2, 5>>, <<3, 5>>, <<2, 4>>, <<1, 4>>},
             {<<1, 6>>, <<5, 6>>, <<5, 7>>}}

\* The library gets its edges after the walk, or as soon as a PE has found one or two.
MCModes ==
  {[kind |-> k, batch |-> 0] : k \in {"raw", "broadcast", "staged", "dist"}}
    \cup {[kind |-> "dist", batch |-> 2]}

\* The tips of an edge meet in the walk of the first tip's owner, and in that of
\* the second's too or not; in P it is P2, which is not the home PE.
MCFinders ==
  [e \in UNION MCGraphs |->
     LET first  == {q \in MCPEs \ {P1} : MCProcOf[q] = MCOwner[e[1]]}
         second == {q \in MCPEs \ {P1} : MCProcOf[q] = MCOwner[e[2]]}
     IN  {first, IF MCOwner[e[1]] = P /\ MCOwner[e[2]] = P THEN {P1, P2} ELSE first \cup second}]

MCRanks == (P :> <<P1, P2>>) @@ (Q :> <<Q1>>) @@ (R :> <<R1>>)
MCCount ==
  (P1 :> (1 :> 1 @@ 4 :> 2 @@ 7 :> 1)) @@ (P2 :> (1 :> 3 @@ 6 :> 1)) @@
  (Q1 :> (2 :> 1 @@ 5 :> 4)) @@ (R1 :> (3 :> 2))
\* No range of orders is compact (or a device did phase 1), or that of P and Q is.
MCWindowings == {{}, {P, Q}}
MCMix(l) == IF l < 0 THEN -l ELSE l

Base == [pes |-> 1, b |-> 2, cell |-> 1, gate |-> 0, least |-> 1, period |-> 0,
         lanes |-> 1, kStack |-> 6, release |-> FALSE, verify |-> FALSE, rounds |-> <<>>]

\* A piece of one or two leaves, and one whose second leaf has two halves.
One(q, os) == [pe |-> q, parts |-> os, leaves |-> (1 :> [begin |-> 0, n |-> Len(os)])]
Split(q, os, k) ==
  [pe |-> q, parts |-> os,
   leaves |-> (2 :> [begin |-> 0, n |-> k] @@ 3 :> [begin |-> k, n |-> Len(os) - k])]
Deep(q, os) ==
  [pe |-> q, parts |-> os,
   leaves |-> (2 :> [begin |-> 0, n |-> 1] @@ 6 :> [begin |-> 1, n |-> 1]
               @@ 7 :> [begin |-> 2, n |-> Len(os) - 2])]
Round(pieces, pos) == [pieces |-> pieces, pos |-> pos]

\* Two pieces under a top tree, whose particles are friends across the pieces.
Chain == [Base EXCEPT !.rounds =
  <<Round(<<Split(0, <<3, 1>>, 1), One(0, <<2, 4>>)>>, <<2, 4, 0, 9>>)>>]
\* Leaves inside one linking length: certificates, memos and suppression.
Certain == [Base EXCEPT !.b = 4, !.rounds =
  <<Round(<<Deep(0, <<4, 2, 3, 1>>)>>, <<3, 1, 2, 0>>)>>]
\* Teams of two lanes on the same.
Teams2 == [Base EXCEPT !.b = 4, !.lanes = 2, !.rounds =
  <<Round(<<Split(0, <<2, 1, 3>>, 1)>>, <<1, 0, 2>>)>>]
\* Dense nodes: cells of two, b of five, so that face-adjacent cells are friends.
Dense2 == [Base EXCEPT !.b = 5, !.cell = 2, !.gate = 1, !.least = 2, !.rounds =
  <<Round(<<Split(0, <<4, 3, 2, 1>>, 2)>>, <<8, 5, 2, 0>>)>>]
Wrapped == [Base EXCEPT !.period = 10, !.b = 2, !.cell = 1, !.gate = 1, !.least = 2, !.rounds =
  <<Round(<<Split(0, <<3, 1, 2>>, 1)>>, <<9, 8, 1>>)>>]
Shallow == [Base EXCEPT !.kStack = 1, !.rounds =
  <<Round(<<Split(0, <<1, 2>>, 1)>>, <<0, 9>>)>>]
\* Two PEs; between the rounds the particles move and the pieces change hands.
Moving == [Base EXCEPT !.pes = 2, !.rounds =
  <<Round(<<One(0, <<1, 2>>), One(1, <<3>>)>>, <<0, 1, 9>>),
    Round(<<One(0, <<3>>), One(1, <<2, 1>>)>>, <<5, 4, 3>>)>>]
Released == [Moving EXCEPT !.release = TRUE]
Verified == [Moving EXCEPT !.verify = TRUE, !.rounds[2] =
  Round(<<One(0, <<2, 1>>), One(1, <<>>)>>, <<10, 9>>)]
Emptied == [Moving EXCEPT !.rounds[2] = Round(<<One(1, <<>>)>>, <<>>)]

MCRuns == {Chain, Certain, Teams2, Dense2, Wrapped, Shallow, Moving, Released,
           Verified, Emptied}
MCForests == {}
=============================================================================
