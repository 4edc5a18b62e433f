------------------------------- MODULE MCOrb -------------------------------
(***************************************************************************)
(* OrbLB on seven and eight PEs, with one partition heavier than the       *)
(* others.                                                                 *)
(***************************************************************************)
EXTENDS Balance

MCSettings ==
  {[balancer |-> "orb", n_pes |-> n, steps |-> 1,
    objs |-> [i \in 1 .. 6 |->
                [kind |-> "pt", pe |-> 0, load |-> w[i], size |-> 1, at |-> <<i>>]]] :
     n \in {7, 8}, w \in [1 .. 6 -> {1, 9}]}
=============================================================================
