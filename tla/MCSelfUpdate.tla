---------------------------- MODULE MCSelfUpdate ----------------------------
(* A small instance of SelfUpdate for TLC: release 3 no longer accepts format  *)
(* 1, and formats go from 1 to 3 in two steps.                                 *)
EXTENDS SelfUpdate, TLC
CONSTANTS u, v, m, n

Formats == (1 :> {1, 2}) @@ (2 :> {1, 2, 3}) @@ (3 :> {2, 3})
Chain == <<<<1, 2>>, <<2, 3>>>>
Alike == Permutations({u, v}) \cup Permutations({m, n})
=============================================================================
