--------------------------- MODULE MCDwarfReferences ---------------------------
(* Instances of DwarfReferences: DIEs with up to two references.               *)
EXTENDS DwarfReferences

Die(found, a, b) == [found |-> found, refs |-> [i \in {1, 2} |-> IF i = 1 THEN a ELSE b]]

\* Every DIE: it holds what is sought, or it refers to up to two others.
AllDies == {Die(TRUE, NoRef, NoRef)} \union {Die(FALSE, a, b) : a, b \in Refs}

\* Fewer DIEs: the second reference is absolute or to the supplementary file.
ForkedDies == {d \in AllDies : d.refs[2].kind \in {"none", "addr", "sup"}}
==============================================================================
