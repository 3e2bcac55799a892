------------------------- MODULE MeasurementStoreMC -------------------------
(* Instances of MeasurementStore for TLC. *)
EXTENDS MeasurementStore, TLC

CONSTANTS r1, r2, r3, m1, m2, events_cache

Symmetry == Permutations(Reqs) \cup Permutations(Mids \ {Catalog})
=============================================================================
