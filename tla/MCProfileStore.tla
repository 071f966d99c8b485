--------------------------- MODULE MCProfileStore ---------------------------
(* A small instance of ProfileStore for TLC; processes, channels and base urls *)
(* are interchangeable.                                                        *)
EXTENDS ProfileStore, TLC
CONSTANTS p, q, c, d, here, there

Alike == Permutations({p, q}) \cup Permutations({c, d}) \cup Permutations({here, there})
=============================================================================
