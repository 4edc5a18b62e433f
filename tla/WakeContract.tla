---------------------------- MODULE WakeContract ----------------------------
(***************************************************************************)
(* What the park / install contract of the tree cache promises a walker,   *)
(* with no lists, no atomics and no threads (treecache/TreeCacheCore.h,     *)
(* the comment above park and the one above swapIn):                        *)
(*                                                                         *)
(*   - a walker that registers while the slot still holds a placeholder    *)
(*     is remembered by the slot (debt);                                   *)
(*   - a walker that registers after the installation gets its wake-up     *)
(*     at once;                                                            *)
(*   - a remembered walker is forgotten only by giving it a wake-up, and   *)
(*     nobody is woken before the data is in the tree.                     *)
(***************************************************************************)
CONSTANT Walkers

VARIABLES
  filled,      \* the slot holds an installed node
  debt,        \* walkers the slot remembers
  awake        \* walkers with a wake-up on its way to them

contractVars == <<filled, debt, awake>>

ContractInit ==
  /\ filled = FALSE
  /\ debt = {}
  /\ awake = {}

\* A walker is remembered.  Registering again before the wake-up changes
\* nothing: one wake-up serves every registration that precedes it.
Remember(w) ==
  /\ debt' = debt \cup {w}
  /\ UNCHANGED <<filled, awake>>

\* A walker finds the list closed and wakes itself.
WakeSelf(w) ==
  /\ filled
  /\ awake' = awake \cup {w}
  /\ UNCHANGED <<filled, debt>>

Fill ==
  /\ filled' = TRUE
  /\ UNCHANGED <<debt, awake>>

\* An installer wakes walkers the slot remembered.
WakeRemembered(ws) ==
  /\ filled
  /\ ws # {}
  /\ ws \subseteq debt
  /\ debt' \subseteq debt
  /\ debt \ debt' \subseteq ws
  /\ awake' = awake \cup ws
  /\ UNCHANGED filled

\* The wake-up arrives.  Another one may still be on its way: a walker that
\* parked twice with somebody else between the two is woken twice.
Deliver(w) ==
  /\ w \in awake
  /\ awake' \in {awake, awake \ {w}}
  /\ UNCHANGED <<filled, debt>>

ContractNext ==
  \/ Fill
  \/ \E w \in Walkers : Remember(w) \/ WakeSelf(w) \/ Deliver(w)
  \/ \E ws \in SUBSET Walkers : WakeRemembered(ws)

ContractSpec == ContractInit /\ [][ContractNext]_contractVars
=============================================================================
