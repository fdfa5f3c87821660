------------------------------ MODULE MCSegments ------------------------------
(* Instances of Segments.  A decoded model is enumerated as a sorted sequence. *)
EXTENDS Segments

\* Every sorted model of at most three functions over the addresses 0..Top.
Ranges == {f \in [start : 0..Top, end : 0..Top, rank : {0, 1}] :
             f.start <= f.end /\ f.start < Top}
SmallModels == {s \in UNION {[1..n -> Ranges] : n \in 1..3} : Sorted(s)}

\* Files of equal functions: only the search matters.
Flat(n) == [i \in 1..n |-> [start |-> 0, end |-> 1, rank |-> 0]]
SmallAndFlat == SmallModels \union {Flat(0), Flat(12), Flat(18)}

\* Target sizes and lengths of encodings.
ZeroAndThree == {0, 3}
Uneven == {3, 20}
TwoOrFive == {2, 5}
==============================================================================
