---------------------------- MODULE MCBulkConvert ----------------------------
(* Instances of BulkConvert for TLC. *)
EXTENDS BulkConvert
=============================================================================
