------------------------------ MODULE MCCatalog ------------------------------
\* Two processes, {A1, A2} and {B1}: a group over both, one over the PEs of A, one
\* that is too small.
EXTENDS Catalog, TLC

CONSTANTS A1, A2, B1

MCMembers ==
  (A1 :> <<2, 1, 0>>) @@ (A2 :> <<0, 2, 1>>) @@ (B1 :> <<1, 0, 0>>)
MCOwnerOf ==
  (A1 :> <<B1, A1, A2>>) @@ (A2 :> <<B1, A1, A2>>) @@ (B1 :> <<B1, B1, B1>>)
=============================================================================
