------------------------- MODULE MCCachePopulation -------------------------
(* Instances of CachePopulation for TLC. *)
EXTENDS CachePopulation, TLC

CONSTANTS p1, p2, k1, k2, s1, s2

\* Build identifiers in the same slot.
OneSlot == [k \in Keys |-> s1]

\* The callers have the same part in every action and property.
Symmetry == Permutations(Procs)
=============================================================================
