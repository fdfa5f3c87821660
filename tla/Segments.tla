------------------------------- MODULE Segments -------------------------------
(* DecodedGsym::segments (src/src/transform.rs): splitting a decoded file into *)
(* shards near a target size, and the routing of an address to a shard.        *)
(*                                                                             *)
(* The search measures encodings: it doubles the window while the encoding     *)
(* fits, then narrows between the largest window that fits and the smallest    *)
(* that does not by interpolation, with a bisection on every third probe.  No  *)
(* window is encoded twice for the same shard, so the size of an encoding is   *)
(* chosen when it is measured: the search is checked for every size function,  *)
(* also for those that are not monotone (padding, string sharing).             *)
(*                                                                             *)
(* Windows are half open and indices count from zero, as in the code: the      *)
(* window <<from, to>> holds functions[from + 1] .. functions[to].             *)
EXTENDS Naturals, Sequences, FiniteSets, FiniteSetsExt

CONSTANTS
    Models,     \* decoded models: sequences of functions, in the sorted order
    Targets,    \* values of target_size, zero included
    Sizes,      \* lengths an encoding can have; never zero, a file has a header
    Top,        \* u64::MAX
    UsizeMax    \* largest product checked_mul returns

\* A function is its range and its rank: its place in the writer's ordering
\* (richness, name, tie-break) among the functions with that range.
Functions == [start : 0..Top, end : 0..Top, rank : Nat]

NotAfter(f, g) == \/ f.start < g.start
                  \/ f.start = g.start /\ f.end <= g.end

\* The stable sort by (start, end) that precedes the search.
Sorted(s) == \A i, j \in DOMAIN s : i < j => NotAfter(s[i], s[j])

ASSUME ModelsAssumption ==
    \A s \in Models : s \in Seq(Functions) /\ Sorted(s)
                      /\ \A i \in DOMAIN s : s[i].start <= s[i].end
ASSUME SizesAssumption == Sizes \subseteq Nat \ {0}
ASSUME TargetsAssumption == Targets \subseteq Nat
ASSUME WidthsAssumption == Top \in Nat /\ UsizeMax \in Nat

Unmeasured == 0     \* ceiling_size = None

VARIABLES
    functions,      \* the model's functions, sorted
    target,         \* target_size
    pc,             \* where the function is: validate, cut, grow, narrow, or ended
    start,          \* first function of the shard being cut
    best, bestSize,         \* largest window that is known to fit, its encoding
    ceiling, ceilingSize,   \* smallest window known not to fit, its size
    span,           \* doubling step of the growth
    low, high,      \* windows still to be decided
    probes,         \* windows measured while narrowing
    segments        \* shards cut so far

vars == <<functions, target, pc, start, best, bestSize, ceiling, ceilingSize,
          span, low, high, probes, segments>>
input == <<functions, target>>
search == <<best, bestSize, ceiling, ceilingSize, span, low, high, probes>>

Count == Len(functions)
Minimum == start + 1
Window(from, to) == from + 1..to
Segment(from, to) == [from |-> from, to |-> to]

-----------------------------------------------------------------------------
(* What a reader of one encoding answers (reader/lookup.rs).  A shard keeps   *)
(* every function of its window in the writer's order.                        *)

None == 0   \* no function covers the address

IsEmpty(i) == functions[i].start = functions[i].end
Covers(i, a) == functions[i].start <= a /\ a < functions[i].end

\* The order in which the writer stores functions that start together.
Precedes(i, j) ==
    LET f == functions[i]  g == functions[j] IN
    \/ f.end < g.end
    \/ f.end = g.end /\ f.rank < g.rank
    \/ f.end = g.end /\ f.rank = g.rank /\ i <= j

\* The functions whose start is the greatest one that is not above a.
Nearest(W, a) ==
    {i \in W : /\ functions[i].start <= a
               /\ \A j \in W : functions[j].start <= a
                               => functions[j].start <= functions[i].start}

\* The first of them that is empty or covers a.
Resolve(W, a) ==
    LET hits == {i \in Nearest(W, a) : IsEmpty(i) \/ Covers(i, a)} IN
    IF hits = {} THEN None
    ELSE CHOOSE i \in hits : \A j \in hits : Precedes(i, j)

-----------------------------------------------------------------------------
(* The address span a shard is published with, and the routing by it.        *)

FirstAddress(s) == functions[s.from + 1].start

\* Mutant: the last span stops at its own end, even when that is its start.
EndAddressClosed(s) ==
    IF s.to < Count THEN functions[s.to + 1].start
    ELSE Max({functions[i].end : i \in Window(s.from, s.to)})

EndAddress(s) ==
    IF s.to < Count THEN functions[s.to + 1].start
    ELSE IF IsEmpty(s.to) THEN Top
    ELSE Max({functions[i].end : i \in Window(s.from, s.to)})

Holds(s, a) == FirstAddress(s) <= a /\ a < EndAddress(s)

Routed(a) ==
    IF \E k \in DOMAIN segments : Holds(segments[k], a)
    THEN LET s == segments[CHOOSE k \in DOMAIN segments : Holds(segments[k], a)]
         IN Resolve(Window(s.from, s.to), a)
    ELSE None

Unsplit(a) == Resolve(Window(0, Count), a)

-----------------------------------------------------------------------------
(* The search.                                                               *)

Init ==
    /\ functions \in Models /\ target \in Targets
    /\ pc = "validate" /\ start = 0 /\ segments = <<>>
    /\ best = 0 /\ bestSize = Unmeasured
    /\ ceiling = 0 /\ ceilingSize = Unmeasured
    /\ span = 1 /\ low = 0 /\ high = 0 /\ probes = 0

\* An error leaves the caller with no shard at all.
Reject ==
    /\ pc' = "failed" /\ segments' = <<>>
    /\ UNCHANGED <<input, start, search>>

Validate ==
    /\ pc = "validate"
    /\ IF target = 0 \/ Count = 0 THEN Reject
       ELSE pc' = "cut" /\ UNCHANGED <<input, start, search, segments>>

\* A shard starts with one function, however large its encoding is.
Cut ==
    /\ pc = "cut" /\ start < Count
    /\ \E size \in Sizes :
        /\ best' = Minimum /\ bestSize' = size
    /\ ceiling' = Count + 1 /\ ceilingSize' = Unmeasured
    /\ span' = 1 /\ pc' = "grow"
    /\ UNCHANGED <<input, start, low, high, probes, segments>>

Return ==
    /\ pc = "cut" /\ ~(start < Count)
    /\ pc' = "done"
    /\ UNCHANGED <<input, start, search, segments>>

Candidate == IF Minimum + span <= Count THEN Minimum + span ELSE Count

\* Mutant: the windows still undecided leave out the largest of them.
NarrowShort(b, c) ==
    /\ low' = b + 1 /\ high' = c - 2 /\ probes' = 0
    /\ pc' = "narrow"

Narrow(b, c) ==
    /\ low' = b + 1 /\ high' = c - 1 /\ probes' = 0
    /\ pc' = "narrow"

Grow ==
    /\ pc = "grow" /\ best < Candidate
    /\ \E size \in Sizes :
        IF size > target
        THEN /\ ceiling' = Candidate /\ ceilingSize' = size
             /\ Narrow(best, Candidate)
             /\ UNCHANGED <<best, bestSize, span>>
        ELSE /\ best' = Candidate /\ bestSize' = size /\ span' = 2 * span
             /\ UNCHANGED <<pc, ceiling, ceilingSize, low, high, probes>>
    /\ UNCHANGED <<input, start, segments>>

\* Mutant: a window that no longer grows is tried again.
GrowSpins == pc = "grow" /\ Candidate <= best /\ UNCHANGED vars

GrowEnds ==
    /\ pc = "grow" /\ Candidate <= best
    /\ Narrow(best, ceiling)
    /\ UNCHANGED <<input, start, best, bestSize, ceiling, ceilingSize, span, segments>>

Midpoint == low + (high - low) \div 2
Clamp(i) == IF i < low THEN low ELSE IF i > high THEN high ELSE i

\* The checked subtractions and the division that give no estimate.
Estimable ==
    /\ ceilingSize > bestSize /\ target >= bestSize
    /\ (target - bestSize) * (ceiling - best) <= UsizeMax

Estimate ==
    Clamp(best + ((target - bestSize) * (ceiling - best)) \div (ceilingSize - bestSize))

\* Mutant: interpolation is never interrupted by a bisection.
MiddleGuessed == IF Estimable THEN Estimate ELSE Midpoint

Middle == IF probes % 3 # 2 /\ Estimable THEN Estimate ELSE Midpoint

Undecided == low <= high /\ high <= Count

Probe ==
    /\ pc = "narrow" /\ Undecided
    /\ probes' = probes + 1
    /\ \E size \in Sizes :
        IF size <= target
        THEN /\ best' = Middle /\ bestSize' = size /\ low' = Middle + 1
             /\ UNCHANGED <<ceiling, ceilingSize, high>>
        ELSE /\ ceiling' = Middle /\ ceilingSize' = size /\ high' = Middle - 1
             /\ UNCHANGED <<best, bestSize, low>>
    /\ UNCHANGED <<input, pc, start, span, segments>>

Close ==
    /\ pc = "narrow" /\ ~Undecided
    /\ segments' = Append(segments, Segment(start, best))
    /\ start' = best /\ pc' = "cut"
    /\ UNCHANGED <<input, search>>

\* Any encoding can fail: a missing file, a limit of the output version.
Encoding ==
    \/ pc = "cut" /\ start < Count
    \/ pc = "grow" /\ best < Candidate
    \/ pc = "narrow" /\ Undecided

EncodeFails == Encoding /\ Reject

Next == \/ Validate \/ Cut \/ Grow \/ GrowEnds \/ Probe \/ Close \/ Return
        \/ EncodeFails

\* One thread runs the function to its end.
Spec == Init /\ [][Next]_vars /\ WF_vars(Next)

-----------------------------------------------------------------------------
(* Properties.                                                               *)

\* Type invariant.
SegTypeOK ==
    /\ functions \in Models /\ target \in Targets
    /\ pc \in {"validate", "cut", "grow", "narrow", "done", "failed"}
    /\ start \in 0..Count /\ best \in 0..Count /\ ceiling \in 0..Count + 1
    /\ bestSize \in Sizes \union {Unmeasured}
    /\ ceilingSize \in Sizes \union {Unmeasured}
    /\ span \in Nat \ {0} /\ low \in 0..Count + 1 /\ high \in 0..Count
    /\ probes \in Nat
    /\ segments \in Seq([from : 0..Count, to : 0..Count])

\* A shard of several functions is at most the target: only a record that is
\* larger than the target on its own is emitted over it.
ShardsFit == [][Close /\ best > Minimum => bestSize <= target]_vars

\* When a shard is about to be closed, the window with one function more does
\* not exist or was encoded and did not fit: interpolation, whatever it
\* guesses, never closes a shard early.
LargestPrefix ==
    pc = "narrow" /\ ~Undecided =>
        \/ best = Count
        \/ ceiling = best + 1 /\ ceilingSize > target

\* The shards are non-empty, follow one another and end where the next one
\* starts; a result that is returned holds every function.
ShardsTile ==
    /\ \A k \in DOMAIN segments :
        /\ segments[k].from < segments[k].to
        /\ segments[k].from = IF k = 1 THEN 0 ELSE segments[k - 1].to
    /\ pc # "failed" => start = IF segments = <<>> THEN 0
                                ELSE segments[Len(segments)].to
    /\ pc = "done" => start = Count /\ segments # <<>>

\* The bisection on every third probe bounds the work for uneven records: the
\* undecided windows halve at least once in three probes, from less than half of
\* the last doubling step.
BoundedProbes ==
    pc = "narrow" /\ Undecided =>
        (high + 1 - low) * 2 ^ (probes \div 3) < span \div 2

\* The shard whose span holds an address answers for it as the unsplit file
\* does, and an address no span holds resolves nowhere in the unsplit file.
RoutesAt(a) == Routed(a) = Unsplit(a)

\* No shard boundary separates two functions that start together.
Uncut ==
    \A k \in 1..Len(segments) - 1 :
        functions[segments[k].to].start # functions[segments[k].to + 1].start

\* Moreover, if an empty function starts where the last one does then the last
\* one is empty.
Aligned ==
    /\ Uncut
    /\ (\E i \in 1..Count : functions[i].start = functions[Count].start /\ IsEmpty(i))
        => IsEmpty(Count)

\* The documentation's promise that the spans are enough to route an address,
\* where the boundaries are aligned and below u64::MAX, for overlapping, empty
\* and equal ranges alike.
RoutesWhenAligned == pc = "done" /\ Aligned => \A a \in 0..Top - 1 : RoutesAt(a)

\* The search ends, whatever the encodings measure.
SegmentsReturn == <>(pc \in {"done", "failed"})

==============================================================================
