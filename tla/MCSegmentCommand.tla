--------------------------- MODULE MCSegmentCommand ---------------------------
(* Instances of SegmentCommand: the models of MCSegments.                      *)
EXTENDS SegmentCommand, MCSegments
==============================================================================
