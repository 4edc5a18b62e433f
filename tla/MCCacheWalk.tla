----------------------------- MODULE MCCacheWalk -----------------------------
(***************************************************************************)
(* Layouts for CacheWalk.                                                  *)
(*   Shared: two elements on two lanes of process p meet in the nodes of   *)
(*     process q, one of them with two payloads; q walks nothing remote.   *)
(*   Mutual: p and q walk each other's trees; p's two elements share one   *)
(*     lane, and a reply brings a node together with its child.            *)
(*   Single: Mutual where q's element waits for two nodes at once, and one *)
(*     element of p has nothing remote to walk.                            *)
(*   Lonely: q only answers; no element is on it.                          *)
(***************************************************************************)
EXTENDS CacheWalk, TLC

CONSTANTS p, q, e1, e2, e3, l1, l2, l3, top, low, other, third, t1, t2

MCKids == top :> {low} @@ low :> {} @@ other :> {} @@ third :> {}
Alone == top :> {top} @@ low :> {low} @@ other :> {other} @@ third :> {third}
WithChild == top :> {top, low} @@ low :> {low} @@ other :> {other} @@ third :> {third}

Shared ==
  [laneOf |-> e1 :> l1 @@ e2 :> l2 @@ e3 :> l3,
   processOf |-> l1 :> p @@ l2 :> p @@ l3 :> q,
   kids |-> MCKids, shipped |-> Alone,
   seeds |-> e1 :> {<<top, t1>>, <<top, t2>>} @@ e2 :> {<<top, t1>>} @@ e3 :> {}]

Mutual ==
  [laneOf |-> e1 :> l1 @@ e2 :> l1 @@ e3 :> l3,
   processOf |-> l1 :> p @@ l2 :> p @@ l3 :> q,
   kids |-> MCKids, shipped |-> WithChild,
   seeds |-> e1 :> {<<top, t1>>} @@ e2 :> {<<top, t1>>} @@ e3 :> {<<other, t1>>}]

Single ==
  [laneOf |-> e1 :> l1 @@ e2 :> l1 @@ e3 :> l3,
   processOf |-> l1 :> p @@ l2 :> p @@ l3 :> q,
   kids |-> MCKids, shipped |-> WithChild,
   seeds |-> e1 :> {<<top, t1>>} @@ e2 :> {} @@ e3 :> {<<other, t1>>, <<third, t1>>}]

Lonely ==
  [laneOf |-> e1 :> l1 @@ e2 :> l2 @@ e3 :> l2,
   processOf |-> l1 :> p @@ l2 :> p @@ l3 :> q,
   kids |-> MCKids, shipped |-> Alone,
   seeds |-> e1 :> {<<top, t1>>} @@ e2 :> {} @@ e3 :> {}]

MCLayouts == {Shared, Mutual, Single, Lonely}
=============================================================================
