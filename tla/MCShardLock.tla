---------------------------- MODULE MCShardLock ----------------------------
(* Small instances of ShardLock for TLC.                                   *)
EXTENDS ShardLock, TLC

CONSTANTS t1, t2, t3, k1, k2, k3, g1, g2

(* Two keys of one group and one of another.                               *)
ThreeKeys == (k1 :> g1) @@ (k2 :> g1) @@ (k3 :> g2)

TwoKeys == (k1 :> g1) @@ (k2 :> g2)

Symmetry == Permutations(Tran)

=============================================================================
