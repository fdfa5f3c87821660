---------------------------- MODULE MCCachePrune ----------------------------
(* Instances of CachePrune for TLC. *)
EXTENDS CachePrune, TLC

CONSTANTS r1, r2

OwnSlots == [k \in Keys |-> k]
=============================================================================
