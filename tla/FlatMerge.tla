----------------------------- MODULE FlatMerge -----------------------------
(***************************************************************************)
(* What the merge at the end of phase 3 promises (fof/FoFPhase3.h, the     *)
(* comment above runFoFPhase3Staged and the sign convention in             *)
(* runFoFPhase3): every PE's labels go, in one step, from the tips that    *)
(* phase 1 left to what one union-find over all edges says of them:        *)
(* -(least tip of the component + 2) for a tip that some edge touches, its *)
(* root included, and the tip itself for the others.                       *)
(***************************************************************************)
EXTENDS MinUnion

CONSTANTS
  PEs,        \* the PEs of all processes
  Tips,       \* the encoded tips
  TipsOf,     \* TipsOf[q]: the tips of the particles q has registered
  Graphs      \* the sets of edges there may be

VARIABLES
  edges,      \* the pairs of tips with particles within the linking length
  label       \* label[q][t]: the label of q's particles that phase 1 gave t

flatVars == <<edges, label>>

Touched == UNION {{e[1], e[2]} : e \in edges}
LeastOf == [E \in Graphs |-> [t \in Tips |-> LeastReached(E, t, Cardinality(Tips))]]
FinalLabel(t) == IF t \in Touched THEN -(LeastOf[edges][t] + 2) ELSE t

FlatInit == label = [q \in PEs |-> [t \in TipsOf[q] |-> t]]

Relabel(q) ==
  /\ label' = [label EXCEPT ![q] = [t \in TipsOf[q] |-> FinalLabel(t)]]
  /\ UNCHANGED edges

\* The next iteration has other tips and edges; every label is final by then.
Anew ==
  /\ \A q \in PEs : \A t \in TipsOf[q] : label[q][t] = FinalLabel(t)
  /\ label' = [q \in PEs |-> [t \in TipsOf[q] |-> t]]

FlatSpec == FlatInit /\ [][Anew \/ \E q \in PEs : Relabel(q)]_flatVars
=============================================================================
