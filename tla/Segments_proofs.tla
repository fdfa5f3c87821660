---------------------------- MODULE Segments_proofs ----------------------------
(* Proofs about Segments: the search keeps, for every model, target and size   *)
(* of an encoding, a window that fits below one that does not.                 *)
EXTENDS Segments, WellFoundedInduction, TLAPS

(* The shards so far follow one another and end where the next one starts.    *)
Chain ==
    /\ segments \in Seq([from : 0..Count, to : 0..Count])
    /\ \A k \in DOMAIN segments :
        /\ segments[k].from < segments[k].to
        /\ segments[k].from = IF k = 1 THEN 0 ELSE segments[k - 1].to
    /\ pc # "failed" => start = IF segments = <<>> THEN 0
                                ELSE segments[Len(segments)].to
    /\ pc = "failed" => segments = <<>>
    /\ pc # "validate" /\ pc # "failed" => Count > 0

(* What is known of the windows of the shard being cut.                       *)
Fits == best > Minimum => bestSize <= target

Growing ==
    pc = "grow" =>
        /\ start < Count /\ Minimum <= best /\ bestSize \in Sizes
        /\ best < Minimum + span /\ ceiling = Count + 1
        /\ Fits

Narrowing ==
    pc = "narrow" =>
        /\ start < Count /\ Minimum <= best /\ bestSize \in Sizes
        /\ best < ceiling /\ low = best + 1 /\ high = ceiling - 1
        /\ ceiling = Count + 1 => best = Count
        /\ ceiling <= Count => ceilingSize \in Sizes /\ ceilingSize > target
        /\ Fits

SearchInv == SegTypeOK /\ Chain /\ Growing /\ Narrowing

-----------------------------------------------------------------------------
(* Arithmetic of one probe: whatever the interpolation computes, the window   *)
(* probed is one of the undecided ones.                                       *)
LEMMA ClampRange ==
    ASSUME NEW l \in Nat, NEW h \in Nat, l <= h, NEW i \in Int
    PROVE  (IF i < l THEN l ELSE IF i > h THEN h ELSE i) \in l..h
  OBVIOUS

LEMMA MidpointRange ==
    ASSUME NEW l \in Nat, NEW h \in Nat, l <= h
    PROVE  l + (h - l) \div 2 \in l..h
  OBVIOUS

LEMMA QuotientInt ==
    ASSUME NEW p \in Int, NEW q \in Int, q > 0
    PROVE  p \div q \in Int
  OBVIOUS

LEMMA CountNat ==
    ASSUME SegTypeOK
    PROVE  /\ Count \in Nat /\ functions \in Seq(Functions)
           /\ start \in Nat /\ best \in Nat /\ ceiling \in Nat /\ low \in Nat
           /\ high \in Nat /\ target \in Nat /\ span \in Nat
           /\ bestSize \in Nat /\ ceilingSize \in Nat
  BY ModelsAssumption, SizesAssumption, TargetsAssumption DEF SegTypeOK, Count, Unmeasured

LEMMA MiddleUndecided ==
    ASSUME SegTypeOK, pc = "narrow", Undecided
    PROVE  Middle \in low..high
  <1> USE CountNat
  <1>0. low <= high
    BY DEF Undecided
  <1>1. Midpoint \in low..high
    BY <1>0, MidpointRange DEF Midpoint
  <1>2. ASSUME Estimable PROVE Estimate \in low..high
    <2> DEFINE p == (target - bestSize) * (ceiling - best)
    <2> DEFINE q == ceilingSize - bestSize
    <2>1. p \in Int /\ q \in Int /\ q > 0
      BY <1>2 DEF Estimable
    <2>2. p \div q \in Int
      <3> HIDE DEF p, q
      <3> QED BY <2>1, QuotientInt
    <2> HIDE DEF p, q
    <2> DEFINE r == p \div q
    <2>3. r \in Int
      BY <2>2
    <2> HIDE DEF r
    <2>4. best + r \in Int
      BY <2>3
    <2>5. Clamp(best + r) \in low..high
      BY <1>0, <2>4, ClampRange DEF Clamp
    <2> QED BY <2>5 DEF Estimate, p, q, r
  <1> QED BY <1>1, <1>2 DEF Middle

\* An index of the longer sequence that is not the new one is an old one.
LEMMA IndexBefore ==
    ASSUME NEW n \in Nat, NEW i \in 1..n + 1, i # n + 1
    PROVE  i \in 1..n /\ (i = 1 \/ i - 1 \in 1..n)
  OBVIOUS

-----------------------------------------------------------------------------
THEOREM SearchInit == Init => SearchInv
  BY ModelsAssumption, TargetsAssumption
     DEF Init, SearchInv, SegTypeOK, Chain, Growing, Narrowing, Count, Unmeasured

LEMMA RejectInv ==
    ASSUME SearchInv, Reject
    PROVE  SearchInv'
  BY DEF SearchInv, SegTypeOK, Chain, Growing, Narrowing, Reject, input, search, Count

LEMMA CutInv ==
    ASSUME SearchInv, Cut
    PROVE  SearchInv'
  <1> USE CountNat DEF SearchInv
  <1>1. SegTypeOK'
    BY DEF SegTypeOK, Cut, input, search, Count, Minimum, Unmeasured
  <1>2. Chain' /\ Growing' /\ Narrowing'
    BY SizesAssumption
       DEF SegTypeOK, Cut, input, Count, Minimum, Unmeasured, Chain, Growing, Narrowing, Fits
  <1> QED BY <1>1, <1>2

\* A candidate within one span stays within the doubled span.
LEMMA CandidateGrows ==
    ASSUME NEW lo \in Nat, NEW n \in Nat, NEW w \in Nat \ {0},
           NEW k \in lo + 1..n, k <= lo + w
    PROVE  lo <= k /\ k < lo + 2 * w
  OBVIOUS

LEMMA GrowInv ==
    ASSUME SearchInv, Grow
    PROVE  SearchInv'
  <1> USE CountNat DEF SearchInv
  <1>0. /\ start < Count /\ Minimum <= best /\ best < Minimum + span
        /\ ceiling = Count + 1 /\ bestSize \in Sizes /\ Fits
        /\ UNCHANGED <<functions, target, start, segments>> /\ best < Candidate
    BY DEF Grow, Growing, input
  <1>1. Candidate \in Minimum + 1..Count /\ Candidate <= Minimum + span
    BY <1>0 DEF Candidate, Minimum
  <1>2. PICK size \in Sizes :
            IF size > target
            THEN /\ ceiling' = Candidate /\ ceilingSize' = size
                 /\ Narrow(best, Candidate)
                 /\ UNCHANGED <<best, bestSize, span>>
            ELSE /\ best' = Candidate /\ bestSize' = size /\ span' = 2 * span
                 /\ UNCHANGED <<pc, ceiling, ceilingSize, low, high, probes>>
    BY DEF Grow
  <1>3. size \in Nat
    BY SizesAssumption
  <1>4. CASE size > target
    <2>1. SegTypeOK'
      BY <1>0, <1>1, <1>2, <1>3, <1>4 DEF SegTypeOK, Narrow, Count, Minimum
    <2>2. Chain'
      BY <1>0, <1>2, <1>4 DEF Chain, Narrow, Count, Grow
    <2>3. Growing' /\ Narrowing'
      BY <1>0, <1>1, <1>2, <1>3, <1>4 DEF Growing, Narrowing, Narrow, Count, Minimum, Fits
    <2> QED BY <2>1, <2>2, <2>3
  <1>5. CASE ~(size > target)
    <2>0. /\ best' = Candidate /\ bestSize' = size /\ span' = 2 * span /\ pc = "grow"
          /\ UNCHANGED <<pc, ceiling, ceilingSize, low, high, probes>>
      BY <1>2, <1>5 DEF Grow
    <2>1. SegTypeOK'
      BY <1>0, <1>1, <1>3, <2>0 DEF SegTypeOK, Count, Minimum
    <2>2. Chain'
      BY <1>0, <2>0 DEF Chain, Count
    <2>3. Narrowing'
      BY <2>0 DEF Narrowing
    <2>4. Growing'
      <3>1. Candidate <= Minimum + span /\ span \in Nat \ {0} /\ Minimum \in Nat
        BY <1>1 DEF SegTypeOK, Minimum
      <3>2. Minimum <= Candidate /\ Candidate < Minimum + 2 * span
        BY <1>1, <3>1, CandidateGrows
      <3>3. Minimum' = Minimum /\ Count' = Count
        BY <1>0 DEF Minimum, Count
      <3>4. Fits'
        BY <1>0, <1>3, <1>5, <2>0 DEF Fits
      <3> QED BY <1>0, <2>0, <3>2, <3>3, <3>4 DEF Growing
    <2> QED BY <2>1, <2>2, <2>3, <2>4
  <1> QED BY <1>4, <1>5

LEMMA GrowEndsInv ==
    ASSUME SearchInv, GrowEnds
    PROVE  SearchInv'
  <1> USE CountNat DEF SearchInv
  <1>1. best = Count
    BY DEF GrowEnds, Growing, Candidate, SegTypeOK, Minimum
  <1>2. SegTypeOK'
    BY <1>1 DEF SegTypeOK, GrowEnds, Growing, Narrow, input, Count
  <1>3. Chain'
    BY DEF Chain, GrowEnds, Narrow, input, Count
  <1>4. Growing' /\ Narrowing'
    BY <1>1 DEF Growing, Narrowing, GrowEnds, Narrow, input, Count, Minimum, Fits
  <1> QED BY <1>2, <1>3, <1>4

\* A fitting probe moves the lower bound up; nothing is left above the whole.
LEMMA ProbeFits ==
    ASSUME NEW lo \in Nat, NEW b \in Nat, NEW k \in Nat, NEW c \in Nat, NEW n \in Nat,
           lo <= b, b < k, k < c, k <= n, c = n + 1 => b = n
    PROVE  lo <= k /\ (c = n + 1 => k = n)
  OBVIOUS

\* What lies between the bounds of the search is strictly between its windows.
LEMMA StrictlyBetween ==
    ASSUME NEW b \in Nat, NEW c \in Nat, NEW n \in Nat, NEW l, NEW h,
           l = b + 1, h = c - 1, h <= n, NEW k \in l..h
    PROVE  k \in Nat /\ b < k /\ k < c /\ k <= n
  OBVIOUS

\* A window above the best one and below the end keeps every bound in range.
LEMMA AboveNatural ==
    ASSUME NEW b \in Nat, NEW k \in Nat, NEW n \in Nat, b < k, k <= n
    PROVE  k \in 0..n /\ k + 1 \in 0..n + 1 /\ k - 1 \in 0..n /\ k \in 0..n + 1
  OBVIOUS

LEMMA ProbeInv ==
    ASSUME SearchInv, Probe
    PROVE  SearchInv'
  <1> USE CountNat DEF SearchInv
  <1>0. /\ start < Count /\ Minimum <= best /\ bestSize \in Sizes
        /\ best < ceiling /\ low = best + 1 /\ high = ceiling - 1 /\ Fits
        /\ ceiling = Count + 1 => best = Count
        /\ ceiling <= Count => ceilingSize \in Sizes /\ ceilingSize > target
        /\ UNCHANGED <<functions, target, pc, start, span, segments>>
        /\ pc = "narrow" /\ Undecided /\ probes' = probes + 1
    BY DEF Probe, Narrowing, input
  <1>1. Middle \in low..high /\ low <= high /\ high <= Count
    BY <1>0, MiddleUndecided DEF Undecided
  <1> DEFINE m == Middle
  <1>2. PICK size \in Sizes :
            IF size <= target
            THEN /\ best' = m /\ bestSize' = size /\ low' = m + 1
                 /\ UNCHANGED <<ceiling, ceilingSize, high>>
            ELSE /\ ceiling' = m /\ ceilingSize' = size /\ high' = m - 1
                 /\ UNCHANGED <<best, bestSize, low>>
    BY DEF Probe
  <1>3. size \in Nat
    BY SizesAssumption
  <1> HIDE DEF m
  <1>4. m \in Nat /\ best < m /\ m < ceiling /\ m <= Count
    <2>1. m \in low..high /\ high <= Count
      BY <1>1 DEF m
    <2>2. best \in Nat /\ ceiling \in Nat /\ Count \in Nat
      BY DEF SegTypeOK
    <2> QED BY <1>0, <2>1, <2>2, StrictlyBetween
  <1>5. SegTypeOK'
    <2>1. /\ functions \in Models /\ target \in Targets /\ start \in 0..Count
          /\ best \in 0..Count /\ ceiling \in 0..Count + 1 /\ high \in 0..Count
          /\ low \in 0..Count + 1 /\ span \in Nat \ {0} /\ probes \in Nat
          /\ bestSize \in Sizes \cup {Unmeasured}
          /\ ceilingSize \in Sizes \cup {Unmeasured}
          /\ segments \in Seq([from : 0..Count, to : 0..Count])
      BY DEF SegTypeOK
    <2>2. Count' = Count
      BY <1>0 DEF Count
    <2>3. m \in 0..Count /\ m + 1 \in 0..Count + 1 /\ m - 1 \in 0..Count
          /\ m \in 0..Count + 1
      BY <1>4, <2>1, AboveNatural
    <2>4. best' \in 0..Count /\ ceiling' \in 0..Count + 1
      <3>1. CASE size <= target
        BY <1>2, <2>1, <2>3, <3>1
      <3>2. CASE ~(size <= target)
        BY <1>2, <2>1, <2>3, <3>2
      <3> QED BY <3>1, <3>2
    <2>5. /\ bestSize' \in Sizes \cup {Unmeasured}
          /\ ceilingSize' \in Sizes \cup {Unmeasured}
      <3>1. CASE size <= target
        BY <1>2, <2>1, <3>1
      <3>2. CASE ~(size <= target)
        BY <1>2, <2>1, <3>2
      <3> QED BY <3>1, <3>2
    <2>6. low' \in 0..Count + 1 /\ high' \in 0..Count
      <3>1. CASE size <= target
        BY <1>2, <2>1, <2>3, <3>1
      <3>2. CASE ~(size <= target)
        BY <1>2, <2>1, <2>3, <3>2
      <3> QED BY <3>1, <3>2
    <2>7. probes' \in Nat
      BY <1>0, <2>1
    <2> HIDE DEF SearchInv
    <2> QED BY <1>0, <2>1, <2>2, <2>4, <2>5, <2>6, <2>7 DEF SegTypeOK
  <1>6. Chain'
    BY <1>0 DEF Chain, Count
  <1>7. Growing'
    BY <1>0 DEF Growing
  <1>8. Narrowing'
    <2>1. Minimum' = Minimum /\ Count' = Count /\ start' < Count' /\ pc' = "narrow"
      BY <1>0 DEF Minimum, Count
    <2>2. /\ Minimum \in Nat /\ best \in Nat /\ ceiling \in Nat /\ target \in Nat
          /\ Count \in Nat
      BY TargetsAssumption DEF SegTypeOK, Minimum
    <2>3. CASE size <= target
      <3>1. /\ best' = m /\ bestSize' = size /\ low' = m + 1
            /\ ceiling' = ceiling /\ ceilingSize' = ceilingSize /\ high' = high
            /\ target' = target /\ start' = start
        BY <1>0, <1>2, <2>3
      <3>2. Minimum <= m /\ (ceiling = Count + 1 => m = Count)
        BY <1>0, <1>4, <2>2, ProbeFits
      <3>3. Fits'
        BY <2>3, <3>1 DEF Fits
      <3> QED BY <1>0, <1>4, <2>1, <3>1, <3>2, <3>3 DEF Narrowing
    <2>4. CASE ~(size <= target)
      <3>1. /\ ceiling' = m /\ ceilingSize' = size /\ high' = m - 1
            /\ best' = best /\ bestSize' = bestSize /\ low' = low
            /\ target' = target /\ start' = start
        BY <1>0, <1>2, <2>4
      <3>2. size > target /\ m # Count + 1
        BY <1>3, <1>4, <2>2, <2>4
      <3>3. Fits'
        BY <1>0, <3>1 DEF Fits, Minimum
      <3> QED BY <1>0, <1>4, <2>1, <3>1, <3>2, <3>3 DEF Narrowing
    <2> QED BY <2>3, <2>4
  <1> QED BY <1>5, <1>6, <1>7, <1>8

LEMMA CloseInv ==
    ASSUME SearchInv, Close
    PROVE  SearchInv'
  <1> USE CountNat DEF SearchInv
  <1> DEFINE s == Segment(start, best)
             S == [from : 0..Count, to : 0..Count]
  <1>1. s \in S /\ s.from = start /\ s.to = best /\ start < best
    BY DEF Close, Narrowing, SegTypeOK, Segment, Minimum
  <1>2. segments \in Seq(S) /\ segments' = Append(segments, s)
    BY DEF Chain, Close
  <1>3. /\ segments' \in Seq(S) /\ Len(segments') = Len(segments) + 1
        /\ Len(segments) \in Nat
        /\ segments'[Len(segments) + 1] = s
        /\ \A k \in 1..Len(segments) : segments'[k] = segments[k]
    <2> HIDE DEF s, S
    <2> QED BY <1>1, <1>2
  <1>4. /\ functions' = functions /\ target' = target /\ start' = best /\ pc' = "cut"
        /\ UNCHANGED <<best, bestSize, ceiling, ceilingSize, span, low, high, probes>>
        /\ pc = "narrow"
    BY DEF Close, input, search
  <1>5. SegTypeOK'
    BY <1>3, <1>4 DEF SegTypeOK, Count
  <1>6. Chain'
    <2>1. segments' # <<>>
      BY <1>3
    <2>2. ASSUME NEW k \in DOMAIN segments'
          PROVE  /\ segments'[k].from < segments'[k].to
                 /\ segments'[k].from = IF k = 1 THEN 0 ELSE segments'[k - 1].to
      <3>1. CASE k = Len(segments) + 1
        <4>1. start = IF segments = <<>> THEN 0 ELSE segments[Len(segments)].to
          BY <1>4 DEF Chain
        <4>2. segments'[k] = s
          BY <1>3, <3>1
        <4>3. CASE segments = <<>>
          BY <1>1, <3>1, <4>1, <4>2, <4>3
        <4>4. CASE segments # <<>>
          <5>1. Len(segments) >= 1
            BY <1>2, <1>3, <4>4
          <5>2. k - 1 = Len(segments) /\ k # 1 /\ Len(segments) \in 1..Len(segments)
            BY <1>3, <3>1, <5>1
          <5>3. segments'[k - 1] = segments[Len(segments)]
            BY <1>3, <5>2
          <5> QED BY <1>1, <4>1, <4>2, <4>4, <5>2, <5>3
        <4> QED BY <4>3, <4>4
      <3>2. CASE k # Len(segments) + 1
        <4>0. k \in 1..Len(segments) + 1
          <5>1. DOMAIN segments' = 1..Len(segments')
            BY <1>3
          <5> QED BY <1>3, <2>2, <5>1
        <4>1. k \in 1..Len(segments) /\ (k = 1 \/ k - 1 \in 1..Len(segments))
          BY <1>3, <3>2, <4>0, IndexBefore
        <4>2. segments'[k] = segments[k] /\ (k = 1 \/ segments'[k - 1] = segments[k - 1])
          BY <1>3, <4>1
        <4>3. k \in DOMAIN segments
          BY <1>2, <4>1
        <4> QED BY <4>2, <4>3 DEF Chain
      <3> QED BY <3>1, <3>2
    <2>3. start' = segments'[Len(segments')].to
      BY <1>1, <1>3, <1>4
    <2>4. Count' > 0 /\ segments' \in Seq([from : 0..Count', to : 0..Count'])
      BY <1>3, <1>4 DEF Chain, Count
    <2> QED BY <1>4, <2>1, <2>2, <2>3, <2>4 DEF Chain
  <1>7. Growing' /\ Narrowing'
    BY <1>4 DEF Growing, Narrowing
  <1> QED BY <1>5, <1>6, <1>7

LEMMA QuietInv ==
    ASSUME SearchInv, Validate \/ Return \/ EncodeFails \/ UNCHANGED vars
    PROVE  SearchInv'
  <1>1. CASE Reject
    BY <1>1, RejectInv
  <1>2. CASE Validate /\ ~Reject
    <2> USE CountNat DEF SearchInv
    <2>1. pc' = "cut" /\ UNCHANGED <<input, start, search, segments>> /\ Count # 0
          /\ pc = "validate"
      BY <1>2 DEF Validate
    <2> QED BY <2>1 DEF SegTypeOK, Chain, Growing, Narrowing, input, search, Count
  <1>3. CASE Return
    BY <1>3 DEF SearchInv, SegTypeOK, Chain, Growing, Narrowing, Return, input, search, Count
  <1>4. CASE UNCHANGED vars
    BY <1>4 DEF SearchInv, SegTypeOK, Chain, Growing, Narrowing, Fits, Minimum, vars, Count
  <1> QED BY <1>1, <1>2, <1>3, <1>4 DEF EncodeFails

THEOREM SearchStep == SearchInv /\ [Next]_vars => SearchInv'
  BY CutInv, GrowInv, GrowEndsInv, ProbeInv, CloseInv, QuietInv DEF Next

\* The search keeps its invariant.
THEOREM SearchHolds == Spec => []SearchInv
  BY SearchInit, SearchStep, PTL DEF Spec

\* The type invariant holds for every set of models, targets and sizes.
THEOREM TypeCorrect == Spec => []SegTypeOK
  <1>1. SearchInv => SegTypeOK
    BY DEF SearchInv
  <1> QED BY <1>1, SearchHolds, PTL

\* No shard is closed while the window with one function more is not known to
\* be too large, for every size function and every outcome of the estimate.
THEOREM PrefixIsLargest == Spec => []LargestPrefix
  <1>1. SearchInv => LargestPrefix
    <2> SUFFICES ASSUME SearchInv, pc = "narrow", ~Undecided
                 PROVE  best = Count \/ (ceiling = best + 1 /\ ceilingSize > target)
      BY DEF LargestPrefix
    <2> USE CountNat DEF SearchInv
    <2>1. ceiling = best + 1
      BY DEF SegTypeOK, Narrowing, Undecided
    <2> QED BY <2>1 DEF SegTypeOK, Narrowing
  <1> QED BY <1>1, SearchHolds, PTL

LEMMA DoneAtTheEnd == Spec => [](pc = "done" => start = Count)
  <1>1. Init => (pc = "done" => start = Count)
    BY DEF Init
  <1>2. SearchInv /\ (pc = "done" => start = Count) /\ [Next]_vars
        => (pc = "done" => start = Count)'
    <2> SUFFICES ASSUME SearchInv, pc = "done" => start = Count, [Next]_vars, pc' = "done"
                 PROVE  start' = Count'
      OBVIOUS
    <2>1. CASE Return
      BY <2>1, CountNat DEF SearchInv, SegTypeOK, Return, input, Count
    <2>2. CASE UNCHANGED vars
      BY <2>2 DEF vars, Count
    <2>3. CASE Validate \/ Cut \/ Grow \/ GrowEnds \/ Probe \/ Close \/ EncodeFails
      BY <2>3 DEF Validate, Reject, Cut, Grow, GrowEnds, Narrow, Probe, Close, EncodeFails
    <2> QED BY <2>1, <2>2, <2>3 DEF Next
  <1> QED BY <1>1, <1>2, SearchHolds, PTL DEF Spec

\* The shards are non-empty and tile the file; a result holds every function.
THEOREM Tiled == Spec => []ShardsTile
  <1>1. SearchInv /\ (pc = "done" => start = Count) => ShardsTile
    <2> SUFFICES ASSUME SearchInv, pc = "done" => start = Count
                 PROVE  ShardsTile
      OBVIOUS
    <2>1. pc = "done" => segments # <<>>
      BY CountNat DEF SearchInv, Chain
    <2> QED BY <2>1 DEF SearchInv, Chain, ShardsTile
  <1> QED BY <1>1, DoneAtTheEnd, SearchHolds, PTL

\* A shard of several functions is at most the target.
THEOREM Fitting == Spec => ShardsFit
  <1>1. SearchInv /\ [Next]_vars => [Close /\ best > Minimum => bestSize <= target]_vars
    BY DEF SearchInv, Close, Narrowing, Fits
  <1> QED BY <1>1, SearchHolds, PTL DEF Spec, ShardsFit

-----------------------------------------------------------------------------
(* Routing.  A shard's span keeps out every function of the other shards that *)
(* could be nearest to an address it holds.                                   *)
LEMMA LeastOf ==
    ASSUME NEW S, S \subseteq Nat, S # {}
    PROVE  \E x \in S : \A y \in S : x <= y
  <1> DEFINE R == {ss \in Nat \X Nat : ss[1] < ss[2]}
  <1>1. IsWellFoundedOn(R, Nat)
    BY NatLessThanWellFounded DEF OpToRel
  <1>2. PICK x \in S : \A y \in S : <<y, x>> \notin R
    <2> HIDE DEF R
    <2> QED BY <1>1, WFMin
  <1>3. ASSUME NEW y \in S PROVE x <= y
    <2>1. x \in Nat /\ y \in Nat /\ ~(y < x)
      BY <1>2
    <2> QED BY <2>1
  <1> QED BY <1>3

LEMMA GreatestOf ==
    ASSUME NEW b \in Nat, NEW S, S \subseteq 0..b, S # {}
    PROVE  \E x \in S : \A y \in S : y <= x
  <1> DEFINE T == {b - x : x \in S}
  <1>1. PICK t \in T : \A y \in T : t <= y
    <2>1. T \subseteq Nat /\ T # {}
      OBVIOUS
    <2> HIDE DEF T
    <2> QED BY <2>1, LeastOf
  <1>2. PICK x \in S : t = b - x
    OBVIOUS
  <1>3. ASSUME NEW y \in S PROVE y <= x
    <2>1. x \in 0..b /\ y \in 0..b /\ b - y \in T
      OBVIOUS
    <2> HIDE DEF T
    <2>2. b - x <= b - y
      BY <1>1, <1>2, <2>1
    <2> QED BY <2>1, <2>2
  <1> QED BY <1>3

LEMMA ElementOf ==
    ASSUME NEW T, NEW s \in Seq(T), NEW i \in 1..Len(s)
    PROVE  s[i] \in T
  OBVIOUS

\* The sorted functions: starts do not decrease, and no function ends before it
\* starts.
LEMMA FunctionsOrdered ==
    ASSUME SegTypeOK
    PROVE  /\ \A i \in 1..Count : /\ functions[i].start \in 0..Top
                                  /\ functions[i].end \in 0..Top
                                  /\ functions[i].start <= functions[i].end
           /\ \A i, j \in 1..Count : i <= j => functions[i].start <= functions[j].start
  <1>1. functions \in Seq(Functions) /\ Sorted(functions) /\ DOMAIN functions = 1..Count
        /\ \A i \in DOMAIN functions : functions[i].start <= functions[i].end
    BY ModelsAssumption DEF SegTypeOK, Count
  <1>2. ASSUME NEW i \in 1..Count
        PROVE  functions[i].start \in 0..Top /\ functions[i].end \in 0..Top
    <2>1. functions[i] \in Functions
      BY <1>1, ElementOf DEF Count
    <2> QED BY <2>1 DEF Functions
  <1>3. ASSUME NEW i \in 1..Count, NEW j \in 1..Count, i <= j
        PROVE  functions[i].start <= functions[j].start
    <2>1. functions[i].start \in Nat /\ functions[j].start \in Nat
      BY <1>2, WidthsAssumption
    <2>2. i < j => NotAfter(functions[i], functions[j])
      BY <1>1 DEF Sorted
    <2>3. i \in Nat /\ j \in Nat /\ (i < j \/ i = j)
      BY <1>3
    <2> QED BY <2>1, <2>2, <2>3 DEF NotAfter
  <1> QED BY <1>1, <1>2, <1>3

LEMMA WindowWithin ==
    ASSUME NEW c \in Nat, NEW m \in 0..c, NEW n \in 0..c, m < n
    PROVE  m + 1 \in 1..c /\ n \in 1..c /\ m + 1..n \subseteq 1..c
  OBVIOUS

\* What a caller gets: shards that tile the file.
Returned == SegTypeOK /\ ShardsTile /\ Chain /\ pc = "done" /\ start = Count /\ Count > 0

LEMMA ShardWindow ==
    ASSUME Returned, NEW k \in DOMAIN segments
    PROVE  /\ segments[k].from \in 0..Count /\ segments[k].to \in 0..Count
           /\ segments[k].from < segments[k].to
           /\ segments[k].from + 1 \in 1..Count /\ segments[k].to \in 1..Count
           /\ Window(segments[k].from, segments[k].to) \subseteq 1..Count
           /\ k = Len(segments) => segments[k].to = Count
           /\ k # Len(segments) =>
                /\ k + 1 \in DOMAIN segments /\ segments[k + 1].from = segments[k].to
                /\ segments[k].to < Count /\ k \in 1..Len(segments) - 1
           /\ segments[k].from # 0 =>
                k - 1 \in 1..Len(segments) - 1 /\ segments[k - 1].to = segments[k].from
  <1>1. segments \in Seq([from : 0..Count, to : 0..Count]) /\ DOMAIN segments = 1..Len(segments)
        /\ Count \in Nat /\ Len(segments) \in Nat
    BY CountNat DEF Returned, Chain
  <1>2. \A j \in 1..Len(segments) : segments[j].from \in 0..Count /\ segments[j].to \in 0..Count
    <2>1. \A j \in 1..Len(segments) : segments[j] \in [from : 0..Count, to : 0..Count]
      BY <1>1, ElementOf
    <2> QED BY <2>1
  <1>3. \A j \in 1..Len(segments) :
            /\ segments[j].from < segments[j].to
            /\ segments[j].from = IF j = 1 THEN 0 ELSE segments[j - 1].to
    BY <1>1 DEF Returned, ShardsTile
  <1>4. segments[Len(segments)].to = Count
    BY <1>1 DEF Returned, ShardsTile
  <1>5. k \in Nat /\ 1 <= k /\ k <= Len(segments)
    BY <1>1
  <1>6. /\ segments[k].from + 1 \in 1..Count /\ segments[k].to \in 1..Count
        /\ Window(segments[k].from, segments[k].to) \subseteq 1..Count
    <2>1. segments[k].from \in 0..Count /\ segments[k].to \in 0..Count
          /\ segments[k].from < segments[k].to
      BY <1>1, <1>2, <1>3
    <2> QED BY <1>1, <2>1, WindowWithin DEF Window
  <1>7. ASSUME k # Len(segments)
        PROVE  /\ k + 1 \in DOMAIN segments /\ segments[k + 1].from = segments[k].to
               /\ segments[k].to < Count /\ k \in 1..Len(segments) - 1
    <2>1. k + 1 \in 1..Len(segments) /\ k \in 1..Len(segments) - 1 /\ k + 1 # 1 /\ k + 1 - 1 = k
      BY <1>1, <1>5, <1>7
    <2>2. segments[k + 1].from = segments[k].to
      BY <1>3, <2>1
    <2>3. segments[k].to < Count
      BY <1>1, <1>2, <1>3, <2>1, <2>2
    <2> QED BY <1>1, <2>1, <2>2, <2>3
  <1>8. ASSUME segments[k].from # 0
        PROVE  k - 1 \in 1..Len(segments) - 1 /\ segments[k - 1].to = segments[k].from
    <2>1. k # 1
      BY <1>3, <1>5, <1>8
    <2>2. k - 1 \in 1..Len(segments) - 1
      BY <1>1, <1>5, <2>1
    <2>3. segments[k].from = segments[k - 1].to
      BY <1>1, <1>3, <2>1
    <2> QED BY <2>2, <2>3
  <1> QED BY <1>1, <1>2, <1>3, <1>4, <1>5, <1>6, <1>7, <1>8

\* No function of an earlier shard starts where a shard does.
LEMMA EarlierStartBelow ==
    ASSUME Returned, Uncut, NEW k \in DOMAIN segments, NEW i \in 1..Count, i <= segments[k].from
    PROVE  functions[i].start < functions[segments[k].from + 1].start
  <1> DEFINE m == segments[k].from
  <1>1. m \in 1..Count /\ m + 1 \in 1..Count /\ i <= m /\ m <= m + 1
    BY ShardWindow, CountNat DEF Returned
  <1>2. functions[m].start # functions[m + 1].start
    <2>1. m # 0
      BY <1>1
    <2>2. k - 1 \in 1..Len(segments) - 1 /\ segments[k - 1].to = m
      BY <2>1, ShardWindow
    <2> QED BY <2>2 DEF Uncut
  <1>3. functions[i].start <= functions[m].start /\ functions[m].start <= functions[m + 1].start
    BY <1>1, FunctionsOrdered DEF Returned
  <1> HIDE DEF m
  <1>4. functions[i].start \in Nat /\ functions[m].start \in Nat /\ functions[m + 1].start \in Nat
    BY <1>1, FunctionsOrdered, WidthsAssumption DEF Returned
  <1>5. functions[i].start < functions[m + 1].start
    BY <1>2, <1>3, <1>4
  <1> QED BY <1>5 DEF m

\* The shard that holds an address sees the same nearest functions as the
\* unsplit file.
LEMMA SameNearest ==
    ASSUME Returned, Uncut, NEW k \in DOMAIN segments, NEW a \in Nat,
           functions[segments[k].from + 1].start <= a,
           segments[k].to < Count => a < functions[segments[k].to + 1].start
    PROVE  Nearest(Window(segments[k].from, segments[k].to), a) = Nearest(1..Count, a)
  <1> DEFINE m == segments[k].from
             n == segments[k].to
             W == m + 1..n
  <1>1. m \in Nat /\ n \in Nat /\ Count \in Nat /\ m < n /\ n <= Count /\ m + 1 \in W
        /\ W \subseteq 1..Count /\ functions[m + 1].start <= a
        /\ (n < Count => a < functions[n + 1].start)
    <2>1. m \in 0..Count /\ n \in 1..Count /\ Count \in Nat /\ m < n
      BY ShardWindow, CountNat DEF Returned
    <2> HIDE DEF m, n
    <2>2. m + 1 \in W /\ W \subseteq 1..Count
      BY <2>1
    <2> QED BY <2>1, <2>2 DEF m, n
  <1>2. \A i \in 1..Count : i <= m => functions[i].start < functions[m + 1].start
    BY EarlierStartBelow
  <1> HIDE DEF m, n
  <1>3. \A i \in 1..Count : functions[i].start \in Nat
    BY FunctionsOrdered, WidthsAssumption DEF Returned
  <1>4. ASSUME NEW i \in 1..Count, functions[i].start <= a PROVE i <= n
    <2> SUFFICES ASSUME ~(i <= n) PROVE FALSE
      OBVIOUS
    <2>1. n + 1 \in 1..Count /\ n + 1 <= i /\ n < Count
      BY <1>1
    <2>2. functions[n + 1].start <= functions[i].start
      BY <2>1, FunctionsOrdered DEF Returned
    <2> QED BY <1>1, <1>3, <1>4, <2>1, <2>2
  <1>5. ASSUME NEW i \in 1..Count, functions[i].start <= a,
               functions[m + 1].start <= functions[i].start
        PROVE  i \in W
    <2>1. i <= n
      BY <1>4, <1>5
    <2>2. ~(i <= m)
      BY <1>1, <1>2, <1>3, <1>5
    <2> QED BY <1>1, <2>1, <2>2
  <1>6. ASSUME NEW i \in Nearest(W, a) PROVE i \in Nearest(1..Count, a)
    <2>1. i \in W /\ functions[i].start <= a
          /\ \A j \in W : functions[j].start <= a => functions[j].start <= functions[i].start
      BY DEF Nearest
    <2>2. functions[m + 1].start <= functions[i].start
      BY <1>1, <2>1
    <2>3. ASSUME NEW j \in 1..Count, functions[j].start <= a
          PROVE  functions[j].start <= functions[i].start
      <3>1. CASE j \in W
        BY <2>1, <2>3, <3>1
      <3>2. CASE j \notin W
        <4>1. ~(functions[m + 1].start <= functions[j].start)
          BY <1>5, <2>3, <3>2
        <4> QED BY <1>1, <1>3, <2>1, <2>2, <4>1
      <3> QED BY <3>1, <3>2
    <2> QED BY <1>1, <2>1, <2>3 DEF Nearest
  <1>7. ASSUME NEW i \in Nearest(1..Count, a) PROVE i \in Nearest(W, a)
    <2>1. i \in 1..Count /\ functions[i].start <= a
          /\ \A j \in 1..Count : functions[j].start <= a => functions[j].start <= functions[i].start
      BY DEF Nearest
    <2>2. i \in W
      BY <1>1, <1>5, <2>1
    <2> QED BY <1>1, <2>1, <2>2 DEF Nearest
  <1>8. Nearest(W, a) = Nearest(1..Count, a)
    BY <1>6, <1>7 DEF Nearest
  <1> QED BY <1>8 DEF Window, m, n

\* The largest end of a window is one of its ends.
LEMMA LargestEnd ==
    ASSUME Returned, NEW W, W \subseteq 1..Count, NEW i \in W
    PROVE  /\ functions[i].end <= Max({functions[j].end : j \in W})
           /\ Max({functions[j].end : j \in W}) \in {functions[j].end : j \in W}
  <1> DEFINE S == {functions[j].end : j \in W}
  <1>1. S \subseteq 0..Top /\ S # {}
    BY FunctionsOrdered DEF Returned
  <1>2. \A x, y \in 0..Top : x <= y => y >= x
    BY WidthsAssumption
  <1>3. PICK x \in S : \A y \in S : y <= x
    <2> HIDE DEF S
    <2> QED BY <1>1, GreatestOf, WidthsAssumption
  <1>4. \E z \in S : \A y \in S : z >= y
    <2> HIDE DEF S
    <2> QED BY <1>1, <1>2, <1>3
  <1>5. Max(S) \in S /\ \A y \in S : Max(S) >= y
    BY <1>4 DEF Max
  <1>6. functions[i].end \in S
    OBVIOUS
  <1> HIDE DEF S
  <1>7. functions[i].end <= Max(S)
    BY <1>1, <1>5, <1>6, WidthsAssumption
  <1> QED BY <1>5, <1>7 DEF S

\* The shard whose first function is the last one that starts a shard at or
\* below the address.
LEMMA LastStarting ==
    ASSUME Returned, NEW a \in Nat, functions[1].start <= a
    PROVE  \E k \in DOMAIN segments :
               /\ functions[segments[k].from + 1].start <= a
               /\ segments[k].to < Count => a < functions[segments[k].to + 1].start
  <1> DEFINE S == {k \in DOMAIN segments : functions[segments[k].from + 1].start <= a}
  <1>0. a \in Nat
    OBVIOUS
  <1>1. Len(segments) \in Nat /\ DOMAIN segments = 1..Len(segments) /\ segments # <<>>
    BY DEF Returned, SegTypeOK, ShardsTile
  <1>2. S \subseteq 0..Len(segments) /\ S # {}
    <2>1. 1 \in DOMAIN segments
      BY <1>1 DEF Returned, SegTypeOK
    <2>2. segments[1].from = 0
      BY <2>1 DEF Returned, ShardsTile
    <2> QED BY <1>1, <2>1, <2>2
  <1>3. PICK k \in S : \A j \in S : j <= k
    <2> HIDE DEF S
    <2> QED BY <1>1, <1>2, GreatestOf
  <1>4. ASSUME segments[k].to < Count PROVE a < functions[segments[k].to + 1].start
    <2>1. k + 1 \in DOMAIN segments /\ segments[k + 1].from = segments[k].to
      <3>1. k # Len(segments)
        BY <1>4, ShardWindow, CountNat DEF Returned
      <3> QED BY <3>1, ShardWindow
    <2>2. k + 1 \notin S
      <3>1. k \in Nat
        BY <1>1
      <3>2. ~(k + 1 <= k)
        BY <3>1
      <3> QED BY <1>3, <3>2
    <2>3. ~(functions[segments[k].to + 1].start <= a)
      BY <2>1, <2>2
    <2>4. functions[segments[k].to + 1].start \in Nat
      <3>1. k \in DOMAIN segments /\ Count \in Nat
        BY CountNat DEF Returned
      <3>2. segments[k].to \in 1..Count
        BY <3>1, ShardWindow
      <3>3. segments[k].to + 1 \in 1..Count
        BY <1>4, <3>1, <3>2
      <3> QED BY <3>3, FunctionsOrdered, WidthsAssumption DEF Returned
    <2> QED BY <1>0, <2>3, <2>4
  <1> QED BY <1>4

\* An address that no span holds is answered by no function of the file.
LEMMA UnheldIsNowhere ==
    ASSUME Returned, Aligned, NEW a \in 0..Top - 1,
           \A k \in DOMAIN segments : ~Holds(segments[k], a)
    PROVE  Unsplit(a) = None
  <1>0. a \in Nat /\ Count \in Nat /\ Top \in Nat /\ a < Top /\ 1 \in 1..Count
    BY WidthsAssumption, CountNat DEF Returned
  <1>1. \A i \in 1..Count : functions[i].start \in Nat /\ functions[i].end \in Nat
                            /\ functions[i].start <= functions[i].end
    BY FunctionsOrdered, WidthsAssumption DEF Returned
  <1> SUFFICES ASSUME NEW i \in Nearest(1..Count, a), IsEmpty(i) \/ Covers(i, a)
               PROVE  FALSE
    <2>1. Window(0, Count) = 1..Count
      BY <1>0 DEF Window
    <2> QED BY <2>1 DEF Unsplit, Resolve
  <1>2. i \in 1..Count /\ functions[i].start <= a
        /\ \A j \in 1..Count : functions[j].start <= a => functions[j].start <= functions[i].start
    BY DEF Nearest
  <1>3. functions[1].start <= a
    <2>1. functions[1].start <= functions[i].start
      BY <1>0, <1>2, FunctionsOrdered DEF Returned
    <2> QED BY <1>0, <1>1, <1>2, <2>1
  <1>4. PICK k \in DOMAIN segments :
               /\ functions[segments[k].from + 1].start <= a
               /\ segments[k].to < Count => a < functions[segments[k].to + 1].start
    BY <1>0, <1>3, LastStarting
  <1>5. segments[k].to = Count
    <2>1. ~(segments[k].to < Count)
      BY <1>4 DEF Holds, FirstAddress, EndAddress
    <2> QED BY <1>0, <2>1, ShardWindow
  <1>6. ~IsEmpty(Count)
    BY <1>0, <1>4, <1>5 DEF Holds, FirstAddress, EndAddress
  <1> DEFINE W == Window(segments[k].from, segments[k].to)
  <1>7. ASSUME NEW j \in W PROVE functions[j].end <= a
    <2>1. W \subseteq 1..Count
      BY ShardWindow
    <2>2. functions[j].end <= EndAddress(segments[k])
      <3>1. EndAddress(segments[k]) = Max({functions[l].end : l \in W})
        BY <1>0, <1>5, <1>6 DEF EndAddress
      <3> HIDE DEF W
      <3> QED BY <2>1, <3>1, LargestEnd
    <2>3. ~(a < EndAddress(segments[k]))
      BY <1>4 DEF Holds, FirstAddress
    <2>4. EndAddress(segments[k]) \in Nat
      <3>1. EndAddress(segments[k]) = Max({functions[l].end : l \in W})
        BY <1>0, <1>5, <1>6 DEF EndAddress
      <3>2. Max({functions[l].end : l \in W}) \in {functions[l].end : l \in W}
        <4> HIDE DEF W
        <4> QED BY <2>1, <1>7, LargestEnd
      <3>3. {functions[l].end : l \in W} \subseteq Nat
        <4> HIDE DEF W
        <4> QED BY <1>1, <2>1
      <3> QED BY <3>1, <3>2, <3>3
    <2>5. functions[j].end \in Nat
      BY <1>1, <2>1
    <2> QED BY <1>0, <2>2, <2>3, <2>4, <2>5
  <1>8. i \in W /\ Count \in W
    <2>1. Nearest(W, a) = Nearest(1..Count, a)
      BY <1>0, <1>4, SameNearest DEF Aligned
    <2>2. i \in W
      BY <2>1 DEF Nearest
    <2>3. Count \in W
      BY <1>0, <1>5, ShardWindow DEF Window
    <2> QED BY <2>2, <2>3
  <1>9. functions[i].start = functions[Count].start
    <2>1. Count \in 1..Count /\ i <= Count
      BY <1>0, <1>2
    <2>2. functions[Count].start <= a
      BY <1>0, <1>1, <1>7, <1>8, <2>1
    <2>3. functions[Count].start <= functions[i].start
      BY <1>2, <2>1, <2>2
    <2>4. functions[i].start <= functions[Count].start
      BY <1>2, <2>1, FunctionsOrdered DEF Returned
    <2> QED BY <1>1, <1>2, <2>1, <2>3, <2>4
  <1>10. ~IsEmpty(i)
    BY <1>2, <1>6, <1>9 DEF Aligned
  <1>11. ~Covers(i, a)
    BY <1>0, <1>1, <1>2, <1>7, <1>8 DEF Covers
  <1> QED BY <1>10, <1>11

\* Where no boundary cuts between functions that start together, and the last
\* function is empty if one that starts with it is, the published spans route
\* every address below u64::MAX to a shard that answers as the unsplit file.
THEOREM SpansRoute == Spec => []RoutesWhenAligned
  <1>1. SearchInv /\ ShardsTile /\ (pc = "done" => start = Count) => RoutesWhenAligned
    <2> SUFFICES ASSUME SearchInv, ShardsTile, pc = "done" => start = Count, pc = "done", Aligned,
                        NEW a \in 0..Top - 1
                 PROVE  RoutesAt(a)
      BY DEF RoutesWhenAligned
    <2>1. Returned
      BY DEF SearchInv, Chain, Returned
    <2>2. a \in Nat /\ Count \in Nat
      BY <2>1, CountNat DEF Returned
    <2>3. CASE \E k \in DOMAIN segments : Holds(segments[k], a)
      <3> DEFINE k == CHOOSE l \in DOMAIN segments : Holds(segments[l], a)
      <3>1. k \in DOMAIN segments /\ Holds(segments[k], a)
        BY <2>3
      <3>2. Routed(a) = Resolve(Window(segments[k].from, segments[k].to), a)
        BY <2>3 DEF Routed
      <3> HIDE DEF k
      <3>3. /\ functions[segments[k].from + 1].start <= a
            /\ segments[k].to < Count => a < functions[segments[k].to + 1].start
        BY <3>1 DEF Holds, FirstAddress, EndAddress
      <3>4. Nearest(Window(segments[k].from, segments[k].to), a) = Nearest(Window(0, Count), a)
        <4>1. Window(0, Count) = 1..Count
          BY <2>2 DEF Window
        <4> QED BY <2>1, <2>2, <3>1, <3>3, <4>1, SameNearest DEF Aligned
      <3> QED BY <3>2, <3>4 DEF RoutesAt, Unsplit, Resolve
    <2>4. CASE ~\E k \in DOMAIN segments : Holds(segments[k], a)
      <3>1. Routed(a) = None
        BY <2>4 DEF Routed
      <3>2. Unsplit(a) = None
        BY <2>1, <2>4, UnheldIsNowhere
      <3> QED BY <3>1, <3>2 DEF RoutesAt
    <2> QED BY <2>3, <2>4
  <1> QED BY <1>1, DoneAtTheEnd, SearchHolds, Tiled, PTL
==============================================================================
