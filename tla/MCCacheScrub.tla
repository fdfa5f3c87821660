---------------------------- MODULE MCCacheScrub ----------------------------
(* Instances of CacheScrub for TLC. *)
EXTENDS CacheScrub, TLC

CONSTANTS p1, k1, k2, s1, m1, m2

OneSlot == [k \in Keys |-> s1]
=============================================================================
