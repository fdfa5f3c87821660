------------------------------ MODULE InlineTrees ------------------------------
(* What the converter and the encoder share about the ranges of inline nodes: a *)
(* range is a record [start, end), the ranges of a node are a sequence.         *)
EXTENDS Integers, Sequences, SequencesExt

CONSTANT MaxInlineDepth  \* deepest inline node (256)

Ascending(ranges) == \A i \in 1..Len(ranges) - 1 : ranges[i].end <= ranges[i + 1].start

Inside(range, parents) ==
  \E p \in Range(parents) : p.start <= range.start /\ range.end <= p.end

================================================================================
