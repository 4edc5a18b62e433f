------------------------------- MODULE MCWalks -------------------------------
(***************************************************************************)
(* Three small trees, one per kind of walk; all are binary.                *)
(*   transposed: three canopies and four pieces, of which 4 and 7 are this *)
(*     process's; the targets are leaves of 4.                             *)
(*   bucket: two canopies, one local piece of two leaves under both, a     *)
(*     remote piece that is one leaf beside it and a remote piece of two   *)
(*     leaves on the other side; both local leaves are buckets.            *)
(*   dual: two canopies; pieces 1 (two leaves) and 2 (one leaf) are on two *)
(*     PEs of process 1, piece 3 (two leaves) is process 2's.              *)
(***************************************************************************)
EXTENDS Walks

AllKinds == {"transposed", "bucket", "dual"}

MCCanopies == {1, 2, 3}
MCLocal == {4, 8, 9, 7, 14, 15}
MCRemote == {5, 10, 11, 6}
MCLeaves == {8, 9, 10, 11, 6, 14, 15}
AllShipped == {MCCanopies}

MCBucketLeaf == <<8, 9>>
MCBucketPacks == {{1}, {1, 2}}

\* Every node is opened, or the second bucket is content with the far piece.
Contents == {{}, {<<3, 2>>}}

\* Pauses after every request, after the first bucket, and never.
MCBucketSettings ==
  {[kind |-> "upnd", request |-> 0, iter |-> 0, content |-> c] : c \in Contents}
    \cup {[kind |-> "basic", request |-> p[1], iter |-> p[2], content |-> c] :
            p \in {<<0, 0>>, <<1, 1>>, <<9, 0>>}, c \in Contents}

MCPieceAt == [n \in 1 .. 9 |-> <<0, 0, 3, 1, 2, 3, 3, 1, 1>>[n]]
MCLeafOf == <<8, 9, 9, 5, 6, 6, 7>>
MCProcessOf == <<1, 1, 2>>
MCRankOf == <<0, 1, 0>>
MCHomeRank == <<0, 1, 1>>
MCDualPacks == {{1}}

\* Groups that touch at the ends; groups that lie between each other; one lump.
Touching == <<0, 2, 3, 6, 8, 10, 14>>
Mixed == <<0, 1, 7, 2, 3, 6, 4>>
Lump == <<0, 1, 3, 1, 2, 2, 2>>

NoSets == [sets |-> 1, interleaved |-> TRUE, claimed |-> <<0, 1, 0>>]
TwoSets == [sets |-> 2, interleaved |-> FALSE, claimed |-> <<1, 0, 0>>]

Setting(x, period, mode, mix, s) ==
  [x |-> x, period |-> period, mode |-> mode, mix |-> mix,
   sets |-> s.sets, interleaved |-> s.interleaved, claimed |-> s.claimed]

\* Every mode, with and without a period and PE sets.
MCDualSettings ==
  {Setting(Touching, 16, "parity", 0, TwoSets), Setting(Touching, 0, "hash", 0, NoSets),
   Setting(Mixed, 0, "weighted", 5, NoSets), Setting(Lump, 0, "weighted", 5, TwoSets)}
=============================================================================
