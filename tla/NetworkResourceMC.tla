------------------------- MODULE NetworkResourceMC --------------------------
(* Instances of NetworkResource for TLC. *)
EXTENDS NetworkResource, TLC

CONSTANTS r1, r2, r3

RequestSymmetry == Permutations(Reqs)
=============================================================================
