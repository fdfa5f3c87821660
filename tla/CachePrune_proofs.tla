--------------------------- MODULE CachePrune_proofs ---------------------------
(***************************************************************************)
(* Pruning, for any entries, readers, populations, batch size and clock:   *)
(* what it takes is in nobody's slot, was not hit lately, and is older     *)
(* than what it leaves.                                                    *)
(***************************************************************************)
EXTENDS CachePrune, FiniteSetTheorems, WellFoundedInduction, TLAPS

Trying == pc \in PruneHolds \union {"lock"}

\* The heap is built from nothing, one candidate at a time.
PruneTyped == TypeOK /\ IsFiniteSet(heap)

LEMMA PruneTypedInit == Init => PruneTyped
  <1>1. IsFiniteSet({}) /\ Cardinality({}) = 0
    BY FS_EmptySet
  <1>2. ASSUME Init PROVE PruneTyped
    <2>. USE <1>2, PruneAssumption DEF Init, PruneHolds
    <2>1. /\ mtime \in [Keys -> Times] /\ len \in [Keys -> Lengths]
          /\ marker \in [Keys -> Times] /\ hit \in [Keys -> Nat]
      <3>1. InitialTimes \subseteq Times
        BY DEF Times
      <3>2. Missing \in Times /\ 0 \in Nat
        BY DEF Times
      <3>. QED BY <3>1, <3>2
    <2>2. /\ owners \subseteq Keys /\ now \in StartTime..MaxNow /\ start \in 0..now
          /\ \A j, k \in owners : SlotOf[j] = SlotOf[k] => j = k
      OBVIOUS
    <2>3. /\ rpc \in [Readers -> {"idle", "stat", "open", "touch"}]
          /\ rkey \in [Readers -> Keys] /\ rnow \in [Readers -> Nat]
          /\ linked \in [Readers -> BOOLEAN]
      <3>1. (CHOOSE k \in Keys : TRUE) \in Keys
        OBVIOUS
      <3>2. rkey \in [Readers -> Keys]
        <4>1. {CHOOSE k \in Keys : TRUE} \subseteq Keys
          BY <3>1
        <4>. QED BY <4>1
      <3>. QED BY <3>2
    <2>4. /\ before \in Stats /\ after \in Stats /\ busySlots \subseteq Slots
          /\ todo \subseteq Keys /\ gone \subseteq Keys /\ fresh \subseteq Keys
          /\ heap \subseteq [key : Keys, used : Nat, len : Lengths]
          /\ Cardinality(heap) <= BatchSize /\ IsFiniteSet(heap)
      BY <1>1 DEF Stats, NoStats
    <2>. QED BY <2>1, <2>2, <2>3, <2>4 DEF PruneTyped, TypeOK
  <1>. QED BY <1>2

\* Readers and populations disturb nothing of the prune but its histories.
LEMMA BesideThePrune ==
  ASSUME PruneTyped,
         UNCHANGED <<pc, start, before, after, busySlots, todo, heap, cand, mode,
                     advanced, changed, retried>>,
         mtime' \in [Keys -> Times], len' \in [Keys -> Lengths], marker' \in [Keys -> Times],
         owners' \subseteq Keys, now' \in StartTime..MaxNow, now <= now',
         \A j, k \in owners' : SlotOf[j] = SlotOf[k] => j = k,
         rpc' \in [Readers -> {"idle", "stat", "open", "touch"}],
         rkey' \in [Readers -> Keys], rnow' \in [Readers -> Nat],
         linked' \in [Readers -> BOOLEAN],
         gone' \subseteq Keys, fresh' \subseteq Keys, hit' \in [Keys -> Nat],
         disturbed' \in BOOLEAN
  PROVE  PruneTyped'
  BY PruneAssumption DEF PruneTyped, TypeOK, PruneHolds

LEMMA ReadersTyped ==
  ASSUME PruneTyped, NEW r \in Readers, ReaderStep(r)
  PROVE  PruneTyped'
  <1>. USE PruneAssumption
       DEF PruneTyped, TypeOK, pruning, progress, scan, try, flags, cache
  <1>1. /\ UNCHANGED <<mtime, len, owners, now, pc, start, before, after, busySlots, todo, gone,
                       heap, cand, mode, advanced, changed, retried, disturbed>>
    BY DEF ReaderStep, Hit, StatMarker, OpenMarker, TouchMarker, RecordsHit, ReturnsToCaller
  <1>2. /\ rpc' \in [Readers -> {"idle", "stat", "open", "touch"}]
        /\ rkey' \in [Readers -> Keys] /\ rnow' \in [Readers -> Nat]
        /\ linked' \in [Readers -> BOOLEAN]
    <2>1. /\ \E at \in {"idle", "stat", "open", "touch"} : rpc' = [rpc EXCEPT ![r] = at]
          /\ rkey' = rkey \/ \E k \in Keys : rkey' = [rkey EXCEPT ![r] = k]
          /\ rnow' \in {rnow, [rnow EXCEPT ![r] = 0], [rnow EXCEPT ![r] = now]}
          /\ linked' \in {linked, [linked EXCEPT ![r] = TRUE], [linked EXCEPT ![r] = FALSE]}
      BY DEF ReaderStep, Hit, StatMarker, OpenMarker, TouchMarker, RecordsHit, ReturnsToCaller
    <2>2. rpc' \in [Readers -> {"idle", "stat", "open", "touch"}]
      BY <2>1
    <2>3. rkey' \in [Readers -> Keys] /\ rnow' \in [Readers -> Nat]
      BY <2>1
    <2>4. linked' \in [Readers -> BOOLEAN]
      BY <2>1
    <2>. QED BY <2>2, <2>3, <2>4
  <1>3. rkey[r] \in Keys /\ rnow[r] \in Nat /\ now \in Nat
    OBVIOUS
  <1>4. hit' = hit \/ hit' = [hit EXCEPT ![rkey[r]] = rnow[r]]
    BY DEF ReaderStep, Hit, StatMarker, OpenMarker, TouchMarker, RecordsHit, ReturnsToCaller
  <1>5. hit' \in [Keys -> Nat]
    BY <1>3, <1>4
  <1>6. \/ marker' = marker \/ marker' = [marker EXCEPT ![rkey[r]] = rnow[r]]
        \/ marker' = [marker EXCEPT ![rkey[r]] = now]
    BY DEF ReaderStep, Hit, StatMarker, OpenMarker, TouchMarker, RecordsHit, ReturnsToCaller
  <1>7. marker' \in [Keys -> Times]
    BY <1>3, <1>6 DEF Times
  <1>8. fresh' \subseteq Keys
    BY <1>3 DEF ReaderStep, Hit, StatMarker, OpenMarker, TouchMarker, RecordsHit, ReturnsToCaller
  <1>. QED
    BY <1>1, <1>2, <1>5, <1>7, <1>8, BesideThePrune

LEMMA PopulationsTyped ==
  ASSUME PruneTyped, NEW k \in Keys, PopulationStep(k)
  PROVE  PruneTyped'
  <1>. USE PruneAssumption
       DEF PruneTyped, TypeOK, pruning, progress, scan, try, flags, cache, reading
  <1>1. /\ UNCHANGED <<now, pc, start, before, after, busySlots, todo, heap, cand, mode,
                       advanced, changed, retried, rpc, rkey, rnow, hit>>
    BY DEF PopulationStep, Own, PublishObject, RemoveCorrupt, Release
  <1>2. /\ \A j, i \in owners' : SlotOf[j] = SlotOf[i] => j = i
        /\ owners' \subseteq Keys
    <2>1. /\ owners \subseteq Keys
          /\ \A j, i \in owners : SlotOf[j] = SlotOf[i] => j = i
      OBVIOUS
    <2>2. CASE Own(k)
      <3>1. owners' = owners \union {k} /\ \A j \in owners : SlotOf[j] # SlotOf[k]
        BY <2>2 DEF Own, Occupied
      <3>. HIDE DEF PruneTyped, TypeOK
      <3>. QED BY <2>1, <3>1
    <2>3. CASE ~Own(k)
      <3>1. owners' \subseteq owners
        BY <2>3 DEF PopulationStep, PublishObject, RemoveCorrupt, Release
      <3>. HIDE DEF PruneTyped, TypeOK
      <3>. QED BY <2>1, <3>1
    <2>. QED BY <2>2, <2>3
  <1>3. gone' \subseteq Keys /\ fresh' \subseteq Keys /\ disturbed' \in BOOLEAN
    <2>1. gone \subseteq Keys /\ fresh \subseteq Keys /\ disturbed \in BOOLEAN
      OBVIOUS
    <2>2. /\ gone' = gone \/ gone' = gone \union {k}
          /\ fresh' = fresh \/ fresh' = fresh \union {k}
          /\ disturbed' = disturbed \/ disturbed' = TRUE
      BY DEF PopulationStep, Own, PublishObject, RemoveCorrupt, Release
    <2>. HIDE DEF PruneTyped, TypeOK
    <2>. QED BY <2>1, <2>2
  <1>4. mtime' \in [Keys -> Times]
    <2>1. mtime' = mtime \/ mtime' = [mtime EXCEPT ![k] = now] \/ mtime' = [mtime EXCEPT ![k] = Missing]
      BY DEF PopulationStep, Own, PublishObject, RemoveCorrupt, Release
    <2>. QED BY <2>1 DEF Times
  <1>5. len' \in [Keys -> Lengths]
    BY DEF PopulationStep, Own, PublishObject, RemoveCorrupt, Release
  <1>6. marker' \in [Keys -> Times] /\ linked' \in [Readers -> BOOLEAN]
    <2>1. \/ UNCHANGED <<marker, linked>>
          \/ /\ marker' = [marker EXCEPT ![k] = Missing]
             /\ linked' = [r \in Readers |-> linked[r] /\ rkey[r] # k]
      BY DEF PopulationStep, Own, PublishObject, RemoveCorrupt, Release, UnlinkMarker
    <2>2. marker' \in [Keys -> Times]
      BY <2>1 DEF Times
    <2>3. linked' \in [Readers -> BOOLEAN]
      BY <2>1, Zenon
    <2>. QED BY <2>2, <2>3
  <1>. QED
    BY <1>1, <1>2, <1>3, <1>4, <1>5, <1>6, BesideThePrune

LEMMA CandidateTyped ==
  ASSUME TypeOK, NEW k \in Present
  PROVE  Candidate(k) \in [key : Keys, used : Nat, len : Lengths]
  BY PruneAssumption DEF Candidate, LastUsed, Present, TypeOK, Times

LEMMA AddTyped ==
  ASSUME NEW stats \in Stats, TypeOK, NEW k \in Keys
  PROVE  Add(stats, k) \in Stats
  <1>1. len[k] \in Nat
    BY PruneAssumption DEF TypeOK
  <1>. QED BY <1>1 DEF Add, Stats

LEMMA SubtractTyped ==
  ASSUME NEW stats \in Stats, NEW l \in Nat
  PROVE  Subtract(stats, l) \in Stats
  BY DEF Subtract, Monus, Stats

\* A full heap stays full: the newest candidate makes room for an older one.
LEMMA RetainTyped ==
  ASSUME NEW cs, IsFiniteSet(cs), Cardinality(cs) <= BatchSize, NEW c,
         Cardinality(cs) = BatchSize => Newest(cs) \in cs
  PROVE  /\ IsFiniteSet(RetainOldest(cs, c))
         /\ Cardinality(RetainOldest(cs, c)) <= BatchSize
         /\ RetainOldest(cs, c) \subseteq cs \union {c}
  <1>. USE PruneAssumption DEF RetainOldest
  <1>1. Cardinality(cs) \in Nat
    BY FS_CardinalityType
  <1>2. /\ IsFiniteSet(cs \union {c})
        /\ Cardinality(cs \union {c}) = IF c \in cs THEN Cardinality(cs) ELSE Cardinality(cs) + 1
    BY FS_AddElement
  <1>3. CASE Cardinality(cs) < BatchSize
    BY <1>1, <1>2, <1>3
  <1>4. CASE Cardinality(cs) = BatchSize /\ Before(c, Newest(cs))
    <2>. DEFINE rest == cs \ {Newest(cs)}
    <2>1. IsFiniteSet(rest) /\ Cardinality(rest) = Cardinality(cs) - 1
      BY <1>4, FS_RemoveElement
    <2>2. /\ IsFiniteSet(rest \union {c})
          /\ Cardinality(rest \union {c}) =
               IF c \in rest THEN Cardinality(rest) ELSE Cardinality(rest) + 1
      BY <2>1, FS_AddElement
    <2>. QED BY <1>1, <1>4, <2>1, <2>2
  <1>5. CASE Cardinality(cs) = BatchSize /\ ~Before(c, Newest(cs))
    BY <1>5
  <1>. QED BY <1>1, <1>3, <1>4, <1>5

-----------------------------------------------------------------------------
(* The order of candidates: strict and total, so a heap has a newest and   *)
(* an oldest one.                                                          *)

CandidateSet == [key : Nat, used : Nat, len : Nat]

LEMMA BeforeIsStrict ==
  ASSUME NEW c \in CandidateSet, NEW d \in CandidateSet, NEW e \in CandidateSet
  PROVE  /\ ~Before(c, c)
         /\ Before(c, d) /\ Before(d, e) => Before(c, e)
         /\ c = d \/ Before(c, d) \/ Before(d, c)
  BY DEF CandidateSet, Before

\* A minimal set of predecessors: a smaller one would belong to a predecessor.
LEMMA MinimalElement ==
  ASSUME NEW S, IsFiniteSet(S), S # {}, NEW R,
         \A x \in S : <<x, x>> \notin R,
         \A x, y, z \in S : <<x, y>> \in R /\ <<y, z>> \in R => <<x, z>> \in R
  PROVE  \E x \in S : \A y \in S : <<y, x>> \notin R
  <1>. DEFINE Below(x) == {y \in S : <<y, x>> \in R}
              T == {Below(x) : x \in S}
  <1>1. T \subseteq FiniteSubsetsOf(S) /\ T # {}
    <2>1. \A x \in S : Below(x) \in FiniteSubsetsOf(S)
      <3>1. \A x \in S : IsFiniteSet(Below(x))
        BY FS_Subset
      <3>. QED BY <3>1 DEF FiniteSubsetsOf
    <2>. HIDE DEF Below
    <2>. QED BY <2>1
  <1>2. PICK m \in T : \A t \in T : <<t, m>> \notin StrictSubsetOrdering(S)
    <2>1. IsWellFoundedOn(StrictSubsetOrdering(S), FiniteSubsetsOf(S))
      BY FS_StrictSubsetOrderingWellFounded
    <2>. HIDE DEF T
    <2>. QED BY <1>1, <2>1, WFMin
  <1>3. PICK x \in S : m = Below(x)
    OBVIOUS
  <1>4. ASSUME NEW y \in S, <<y, x>> \in R PROVE FALSE
    <2>1. Below(y) \subseteq Below(x) /\ y \in Below(x) /\ y \notin Below(y)
      BY <1>4
    <2>2. <<Below(y), Below(x)>> \in StrictSubsetOrdering(S)
      BY <2>1 DEF StrictSubsetOrdering
    <2>. QED BY <1>2, <1>3, <2>2
  <1>. QED BY <1>4

LEMMA OldestExists ==
  ASSUME NEW cs, IsFiniteSet(cs), cs # {}, cs \subseteq CandidateSet
  PROVE  Oldest(cs) \in cs /\ \A d \in cs \ {Oldest(cs)} : Before(Oldest(cs), d)
  <1>. DEFINE R == {e \in cs \X cs : Before(e[1], e[2])}
  <1>1. PICK x \in cs : \A y \in cs : <<y, x>> \notin R
    <2>1. \A x \in cs : <<x, x>> \notin R
      BY BeforeIsStrict
    <2>2. \A x, y, z \in cs : <<x, y>> \in R /\ <<y, z>> \in R => <<x, z>> \in R
      BY BeforeIsStrict
    <2>. HIDE DEF R
    <2>. QED BY <2>1, <2>2, MinimalElement
  <1>2. \A d \in cs \ {x} : Before(x, d)
    BY <1>1, BeforeIsStrict
  <1>. QED BY <1>2 DEF Oldest

LEMMA NewestExists ==
  ASSUME NEW cs, IsFiniteSet(cs), cs # {}, cs \subseteq CandidateSet
  PROVE  Newest(cs) \in cs /\ \A d \in cs \ {Newest(cs)} : Before(d, Newest(cs))
  <1>. DEFINE R == {e \in cs \X cs : Before(e[2], e[1])}
  <1>1. PICK x \in cs : \A y \in cs : <<y, x>> \notin R
    <2>1. \A x \in cs : <<x, x>> \notin R
      BY BeforeIsStrict
    <2>2. \A x, y, z \in cs : <<x, y>> \in R /\ <<y, z>> \in R => <<x, z>> \in R
      BY BeforeIsStrict
    <2>. HIDE DEF R
    <2>. QED BY <2>1, <2>2, MinimalElement
  <1>2. \A d \in cs \ {x} : Before(d, x)
    BY <1>1, BeforeIsStrict
  <1>. QED BY <1>2 DEF Newest

\* What the prune keeps of the entries is ordered.
LEMMA HeapOrdered ==
  ASSUME PruneTyped
  PROVE  heap \subseteq CandidateSet /\ IsFiniteSet(heap)
  BY PruneAssumption DEF PruneTyped, TypeOK, CandidateSet

LEMMA HeapFullHasNewest ==
  ASSUME PruneTyped, Cardinality(heap) = BatchSize
  PROVE  Newest(heap) \in heap /\ \A d \in heap \ {Newest(heap)} : Before(d, Newest(heap))
  <1>1. heap # {}
    BY FS_EmptySet, PruneAssumption
  <1>. QED BY <1>1, HeapOrdered, NewestExists

\* The prune disturbs nothing beside it but what it removes.
LEMMA WithinThePrune ==
  ASSUME PruneTyped, UNCHANGED <<len, owners, now, rpc, rkey, rnow, hit>>,
         mtime' \in [Keys -> Times], marker' \in [Keys -> Times], linked' \in [Readers -> BOOLEAN],
         pc' \in {"idle", "count", "age", "loop", "scan", "batch", "lock", "done"} \union PruneHolds,
         start' \in 0..now, before' \in Stats, after' \in Stats, busySlots' \subseteq Slots,
         todo' \subseteq Keys, gone' \subseteq Keys, fresh' \subseteq Keys,
         heap' \subseteq [key : Keys, used : Nat, len : Lengths],
         Cardinality(heap') <= BatchSize, IsFiniteSet(heap'),
         pc' \in PruneHolds \union {"lock"} => cand' \in [key : Keys, used : Nat, len : Lengths],
         mode' \in {"age", "batch"}, advanced' \in BOOLEAN, changed' \in BOOLEAN,
         retried' \in BOOLEAN, disturbed' \in BOOLEAN
  PROVE  PruneTyped'
  BY DEF PruneTyped, TypeOK

\* The prune's own steps, which read the cache and remove from it.
LEMMA PruneTypedStep ==
  ASSUME PruneTyped, StartPrune \/ PruneStep
  PROVE  PruneTyped'
  <1>. USE PruneAssumption
       DEF PruneTyped, TypeOK, PruneHolds, progress, scan, try, flags, cache, reading
  <1>1. CASE StartPrune
    <2>1. IsFiniteSet({}) /\ Cardinality({}) = 0 /\ NoStats \in Stats
      BY FS_EmptySet DEF NoStats, Stats
    <2>2. pc' \in {"count", "age"} /\ start' = now /\ before' = NoStats /\ after' = NoStats
      BY <1>1 DEF StartPrune
    <2>3. start' \in 0..now'
      BY <1>1 DEF StartPrune
    <2>4. Cardinality({}) <= BatchSize
      BY <2>1
    <2>. QED
      BY <1>1, <2>1, <2>2, <2>3, <2>4, WithinThePrune DEF StartPrune
  <1>2. ASSUME NEW k \in Keys, Skip(k) PROVE PruneTyped'
    BY <1>2 DEF Skip
  <1>3. ASSUME NEW k \in Keys, Count(k) PROVE PruneTyped'
    <2>1. Add(before, k) \in Stats /\ Add(after, k) \in Stats
      BY AddTyped
    <2>. QED BY <1>3, <2>1 DEF Count
  <1>4. ASSUME NEW k \in Keys, CountOrTry(k) PROVE PruneTyped'
    <2>1. Add(before, k) \in Stats /\ Add(after, k) \in Stats
      BY AddTyped
    <2>2. Candidate(k) \in [key : Keys, used : Nat, len : Lengths]
      BY <1>4, CandidateTyped DEF CountOrTry
    <2>3. \/ UNCHANGED <<pc, cand>>
          \/ pc' = "lock" /\ cand' = Candidate(k)
      BY <1>4 DEF CountOrTry
    <2>. HIDE DEF PruneHolds
    <2>. QED BY <1>4, <2>1, <2>2, <2>3 DEF CountOrTry
  <1>5. ASSUME NEW k \in Keys, Consider(k) PROVE PruneTyped'
    <2>1. Candidate(k) \in [key : Keys, used : Nat, len : Lengths]
      BY <1>5, CandidateTyped DEF Consider
    <2>2. /\ IsFiniteSet(RetainOldest(heap, Candidate(k)))
          /\ Cardinality(RetainOldest(heap, Candidate(k))) <= BatchSize
          /\ RetainOldest(heap, Candidate(k)) \subseteq heap \union {Candidate(k)}
      BY RetainTyped, HeapFullHasNewest
    <2>3. heap' \in {heap, RetainOldest(heap, Candidate(k))}
      BY <1>5 DEF Consider
    <2>4. /\ heap' \subseteq [key : Keys, used : Nat, len : Lengths]
          /\ Cardinality(heap') <= BatchSize /\ IsFiniteSet(heap')
      BY <2>1, <2>2, <2>3
    <2>. QED BY <1>5, <2>4 DEF Consider
  <1>6. CASE Decide
    <2>1. IsFiniteSet({}) /\ Cardinality({}) = 0
      BY FS_EmptySet
    <2>2. Cardinality({}) <= BatchSize
      BY <2>1
    <2>3. /\ UNCHANGED <<mtime, len, marker, owners, now, rpc, rkey, rnow, linked, hit, start,
                         before, after, busySlots, cand, disturbed, retried>>
          /\ \/ /\ pc' = "scan" /\ todo' = Keys /\ gone' = {} /\ fresh' = {} /\ heap' = {}
                /\ mode' = "batch" /\ advanced' = FALSE /\ changed' = FALSE
             \/ pc' = "done" /\ UNCHANGED <<todo, gone, heap, fresh, mode, advanced, changed>>
      BY <1>6 DEF Decide
    <2>. QED BY <2>1, <2>2, <2>3, WithinThePrune
  <1>7. CASE EndScan
    BY <1>7 DEF EndScan
  <1>8. CASE NextCandidate
    <2>. DEFINE c == Oldest(heap)
    <2>1. c \in heap
      BY <1>8, HeapOrdered, OldestExists DEF NextCandidate
    <2>2. IsFiniteSet(heap \ {c}) /\ Cardinality(heap \ {c}) = Cardinality(heap) - 1
      BY <2>1, FS_RemoveElement
    <2>3. Cardinality(heap) \in Nat
      BY FS_CardinalityType
    <2>4. /\ heap' = heap \ {c} /\ pc = "batch"
          /\ \/ UNCHANGED <<pc, cand>>
             \/ pc' = "lock" /\ cand' = c
          /\ UNCHANGED <<mtime, len, marker, owners, now, rpc, rkey, rnow, linked, hit, start,
                         before, after, busySlots, todo, gone, fresh, mode, advanced, changed,
                         retried, disturbed>>
      BY <1>8 DEF NextCandidate
    <2>. HIDE DEF c
    <2>5. heap' \subseteq [key : Keys, used : Nat, len : Lengths] /\ Cardinality(heap') <= BatchSize
      BY <2>2, <2>3, <2>4
    <2>6. pc' \in PruneHolds \union {"lock"} => cand' \in [key : Keys, used : Nat, len : Lengths]
      BY <2>1, <2>4
    <2>. QED BY <2>2, <2>4, <2>5, <2>6, WithinThePrune
  <1>9. CASE EndRound
    BY <1>9 DEF EndRound
  <1>10. CASE LockCandidate
    <2>1. SlotOf[cand.key] \in Slots /\ pc = "lock"
      BY <1>10 DEF LockCandidate
    <2>2. \/ pc' \in {"age", "batch"} /\ cand' = Missing
          \/ pc' = "recheck" /\ cand' = cand
      BY <1>10 DEF LockCandidate, Back
    <2>3. busySlots' \subseteq Slots
      BY <1>10, <2>1 DEF LockCandidate
    <2>4. advanced' \in BOOLEAN
      <3>1. (advanced \/ (mode = "batch" /\ SlotOf[cand.key] \notin busySlots)) \in BOOLEAN
        OBVIOUS
      <3>. QED BY <1>10, <3>1 DEF LockCandidate
    <2>. QED BY <1>10, <2>1, <2>2, <2>3, <2>4, WithinThePrune DEF LockCandidate
  <1>11. CASE Recheck
    BY <1>11 DEF Recheck, GiveUp, Back
  <1>12. CASE RemoveObject
    <2>1. mtime' \in [Keys -> Times] /\ gone' \subseteq Keys
      <3>1. \/ UNCHANGED <<mtime, gone>>
            \/ /\ mtime' = [mtime EXCEPT ![cand.key] = Missing]
               /\ gone' = gone \union {cand.key}
        BY <1>12 DEF RemoveObject
      <3>2. cand.key \in Keys
        BY <1>12 DEF RemoveObject
      <3>3. mtime \in [Keys -> Times] /\ gone \subseteq Keys
        OBVIOUS
      <3>. HIDE DEF PruneTyped, TypeOK
      <3>. QED BY <3>1, <3>2, <3>3 DEF Times
    <2>. QED BY <1>12, <2>1 DEF RemoveObject, GiveUp, Back
  <1>13. CASE ClearAndCount
    <2>1. Subtract(after, cand.len) \in Stats
      BY <1>13, SubtractTyped DEF ClearAndCount
    <2>2. marker' \in [Keys -> Times]
      BY <1>13 DEF ClearAndCount, UnlinkMarker, Times
    <2>3. linked' \in [Readers -> BOOLEAN]
      BY <1>13, Zenon DEF ClearAndCount, UnlinkMarker
    <2>4. pc' \in {"age", "batch"} /\ mode' = mode
      BY <1>13 DEF ClearAndCount, Back
    <2>. HIDE DEF PruneHolds
    <2>. QED BY <1>13, <2>1, <2>2, <2>3, <2>4 DEF ClearAndCount, PruneHolds
  <1>. HIDE DEF PruneTyped
  <1>. QED
    BY <1>1, <1>2, <1>3, <1>4, <1>5, <1>6, <1>7, <1>8, <1>9, <1>10, <1>11, <1>12, <1>13
    DEF PruneStep

LEMMA PruneTypedNext == PruneTyped /\ [Next]_vars => PruneTyped'
  <1>. SUFFICES ASSUME PruneTyped, [Next]_vars PROVE PruneTyped'
    OBVIOUS
  <1>1. CASE StartPrune \/ PruneStep
    BY <1>1, PruneTypedStep
  <1>2. CASE Tick \/ UNCHANGED vars
    <2>1. /\ UNCHANGED <<mtime, len, marker, owners, rpc, rkey, rnow, linked, hit>>
          /\ UNCHANGED <<pc, start, before, after, busySlots, todo, gone, heap, fresh, cand, mode,
                         advanced, changed, retried, disturbed>>
          /\ now' = now \/ (now < MaxNow /\ now' = now + 1)
      BY <1>2 DEF Tick, vars, cache, reading, progress, scan, flags, try, pruning
    <2>2. now' \in StartTime..MaxNow /\ now <= now'
      BY <2>1, PruneAssumption DEF PruneTyped, TypeOK
    <2>. QED BY <2>1, <2>2, BesideThePrune DEF PruneTyped, TypeOK
  <1>. QED
    BY <1>1, <1>2, ReadersTyped, PopulationsTyped, PruneAssumption DEF Next

LEMMA PruneTypedAlways == Spec => []PruneTyped
  BY PruneTypedInit, PruneTypedNext, PTL DEF Spec

-----------------------------------------------------------------------------
(* Slots: from the lock on, the slot is the prune's, so what it removed    *)
(* stays removed until it lets go.                                         *)

SlotInv ==
  /\ pc \in PruneHolds => \A j \in owners : SlotOf[j] # SlotOf[cand.key]
  /\ pc = "clear" => mtime[cand.key] = Missing

LEMMA SlotNext == PruneTyped /\ SlotInv /\ [Next]_vars => SlotInv'
  <1>. SUFFICES ASSUME PruneTyped, SlotInv, [Next]_vars PROVE SlotInv'
    OBVIOUS
  <1>. USE DEF SlotInv, PruneHolds, progress, scan, try, flags, cache, reading
  <1>1. ASSUME NEW r \in Readers, ReaderStep(r) PROVE SlotInv'
    <2>1. UNCHANGED <<pc, cand, owners, mtime>>
      BY <1>1 DEF ReaderStep, Hit, StatMarker, OpenMarker, TouchMarker, ReturnsToCaller, pruning
    <2>. QED BY <2>1
  <1>2. ASSUME NEW k \in Keys, PopulationStep(k) PROVE SlotInv'
    <2>. USE DEF pruning
    <2>1. CASE Own(k)
      BY <2>1 DEF Own, Occupied
    <2>2. ASSUME NEW l \in Lengths, PublishObject(k, l) PROVE SlotInv'
      <3>1. /\ k \in owners /\ mtime' = [mtime EXCEPT ![k] = now]
            /\ UNCHANGED <<pc, cand, owners>>
        BY <2>2 DEF PublishObject
      <3>2. pc = "clear" => cand.key # k
        BY <3>1
      <3>3. pc = "clear" => mtime'[cand.key] = mtime[cand.key]
        BY <3>1, <3>2 DEF PruneTyped, TypeOK
      <3>. QED BY <3>1, <3>3
    <2>3. CASE RemoveCorrupt(k)
      <3>1. mtime' = [mtime EXCEPT ![k] = Missing] /\ UNCHANGED <<pc, cand, owners>>
        BY <2>3 DEF RemoveCorrupt
      <3>2. pc = "clear" => mtime'[cand.key] = Missing
        BY <3>1 DEF PruneTyped, TypeOK
      <3>. QED BY <3>1, <3>2
    <2>4. CASE Release(k)
      BY <2>4 DEF Release
    <2>. QED BY <1>2, <2>1, <2>2, <2>3, <2>4 DEF PopulationStep
  <1>3. CASE StartPrune \/ \E k \in Keys : Skip(k) \/ Count(k) \/ CountOrTry(k) \/ Consider(k)
    <2>1. pc' \notin PruneHolds
      BY <1>3 DEF StartPrune, Skip, Count, CountOrTry, Consider
    <2>. QED BY <2>1
  <1>4. CASE Decide \/ EndScan \/ NextCandidate \/ EndRound
    <2>1. pc' \notin PruneHolds
      BY <1>4 DEF Decide, EndScan, NextCandidate, EndRound
    <2>. QED BY <2>1
  <1>5. CASE LockCandidate
    BY <1>5 DEF LockCandidate, Occupied, Back
  <1>6. CASE Recheck
    BY <1>6 DEF Recheck, GiveUp, Back
  <1>7. CASE RemoveObject
    BY <1>7 DEF RemoveObject, GiveUp, Back, PruneTyped, TypeOK
  <1>8. CASE ClearAndCount
    <2>1. pc' \notin PruneHolds
      BY <1>8 DEF ClearAndCount, Back
    <2>. QED BY <2>1
  <1>9. CASE Tick \/ UNCHANGED vars
    BY <1>9 DEF Tick, vars, pruning
  <1>. QED
    BY <1>1, <1>2, <1>3, <1>4, <1>5, <1>6, <1>7, <1>8, <1>9, PruneAssumption DEF Next, PruneStep

LEMMA SlotAlways == Spec => []SlotInv
  <1>1. Init => SlotInv
    BY DEF Init, SlotInv, PruneHolds
  <1>. QED BY <1>1, SlotNext, PruneTypedAlways, PTL DEF Spec

\* Only remove_object moves the prune from the removal to what follows it.
LEMMA RemovalStep ==
  ASSUME PruneTyped, [Next]_vars, pc = "remove", pc' = "clear"
  PROVE  RemoveObject
  <1>1. CASE \E r \in Readers : ReaderStep(r)
    BY <1>1 DEF ReaderStep, Hit, StatMarker, OpenMarker, TouchMarker, pruning
  <1>2. CASE \E k \in Populated : PopulationStep(k)
    BY <1>2 DEF PopulationStep, Own, PublishObject, RemoveCorrupt, Release, pruning
  <1>3. CASE StartPrune \/ Tick \/ UNCHANGED vars
    BY <1>3 DEF StartPrune, Tick, vars, pruning
  <1>4. CASE PruneStep
    BY <1>4 DEF PruneStep, Skip, Count, CountOrTry, Consider, Decide, EndScan, NextCandidate,
                EndRound, LockCandidate, Recheck, ClearAndCount
  <1>. QED BY <1>1, <1>2, <1>3, <1>4 DEF Next

\* A prune removes no object whose slot a population holds: try_entry_lock
\* stands between them whatever the scan saw.
THEOREM OwnedEntriesAreLeft == Spec => OwnedUntouched
  <1>1. PruneTyped /\ SlotInv /\ [Next]_vars =>
          (\A k \in Present :
             pc = "remove" /\ pc' = "clear" /\ mtime'[k] = Missing =>
               \A j \in owners : SlotOf[j] # SlotOf[k])
    <2>. SUFFICES ASSUME PruneTyped, SlotInv, [Next]_vars, NEW k \in Present,
                         pc = "remove", pc' = "clear", mtime'[k] = Missing
                  PROVE  \A j \in owners : SlotOf[j] # SlotOf[k]
      OBVIOUS
    <2>1. mtime' = [mtime EXCEPT ![cand.key] = Missing]
      BY RemovalStep DEF RemoveObject, GiveUp, Back
    <2>2. k = cand.key
      BY <2>1 DEF Present, PruneTyped, TypeOK
    <2>. QED BY <2>2 DEF SlotInv, PruneHolds
  <1>. QED BY <1>1, PruneTypedAlways, SlotAlways, PTL DEF Spec, OwnedUntouched

-----------------------------------------------------------------------------
(* Hits: a marker is at most the debouncing interval behind the last       *)
(* record of a hit; where there is none, the object is younger than that.  *)

ReaderInv(r) ==
  /\ rnow[r] <= now
  /\ linked[r] => rpc[r] = "touch" /\ marker[rkey[r]] # Missing

HitInv(k) ==
  hit[k] # 0 =>
    /\ hit[k] <= now
    /\ marker[k] # Missing => hit[k] - marker[k] <= AccessInterval
    /\ marker[k] = Missing /\ mtime[k] # Missing => hit[k] <= mtime[k]

AgeInv ==
  /\ pc = "age" => UnusedAge # Missing /\ mode = "age"
  /\ mode = "age" /\ Trying => UnusedAge # Missing /\ Monus(start, cand.used) >= UnusedAge
  /\ pc \in {"scan", "batch"} => mode = "batch"

ProtectInv == (\A r \in Readers : ReaderInv(r)) /\ (\A k \in Keys : HitInv(k)) /\ AgeInv

\* An access that is recorded leaves a marker no further behind than the
\* debouncing interval.
LEMMA ReadersProtect ==
  ASSUME PruneTyped, ProtectInv, NEW r \in Readers, ReaderStep(r)
  PROVE  ProtectInv'
  <1>. USE PruneAssumption DEF ProtectInv, PruneTyped, TypeOK
  <1>1. /\ UNCHANGED <<mtime, now, pc, mode, cand, start>>
        /\ rkey[r] \in Keys /\ rnow[r] \in Nat /\ now \in Nat
    BY DEF ReaderStep, Hit, StatMarker, OpenMarker, TouchMarker, ReturnsToCaller,
           cache, pruning, progress, scan, try, flags
  <1>2. AgeInv'
    BY <1>1 DEF AgeInv, Trying, PruneHolds
  <1>3. ASSUME NEW k \in Keys, Hit(r, k) PROVE ProtectInv'
    <2>1. /\ rpc' = [rpc EXCEPT ![r] = "stat"] /\ rpc[r] = "idle"
          /\ rkey' = [rkey EXCEPT ![r] = k] /\ rnow' = [rnow EXCEPT ![r] = now]
          /\ UNCHANGED <<marker, linked, hit>>
      BY <1>3 DEF Hit, cache
    <2>2. ASSUME NEW q \in Readers PROVE ReaderInv(q)'
      BY <1>1, <2>1 DEF ReaderInv
    <2>3. ASSUME NEW j \in Keys PROVE HitInv(j)'
      BY <1>1, <2>1 DEF HitInv
    <2>. QED BY <1>2, <2>2, <2>3
  <1>4. CASE StatMarker(r) /\ MarkerIsRecent(r)
    <2>1. /\ rpc[r] = "stat" /\ rpc' = [rpc EXCEPT ![r] = "idle"]
          /\ rnow' = [rnow EXCEPT ![r] = 0]
          /\ hit' = [hit EXCEPT ![rkey[r]] = rnow[r]] /\ UNCHANGED <<marker, linked, rkey>>
      BY <1>4 DEF StatMarker, RecordsHit, ReturnsToCaller
    <2>2. ASSUME NEW q \in Readers PROVE ReaderInv(q)'
      BY <1>1, <2>1 DEF ReaderInv
    <2>3. ASSUME NEW j \in Keys PROVE HitInv(j)'
      <3>1. CASE j = rkey[r]
        <4>1. hit'[j] = rnow[r] /\ rnow[r] <= now /\ marker'[j] \in Nat
          BY <1>4, <2>1, <3>1 DEF ReaderInv, MarkerIsRecent, Times
        <4>2. rnow[r] - marker'[j] <= AccessInterval
          BY <1>4, <2>1, <3>1, <4>1 DEF MarkerIsRecent
        <4>. QED BY <1>1, <4>1, <4>2 DEF HitInv
      <3>2. CASE j # rkey[r]
        BY <1>1, <2>1, <3>2 DEF HitInv
      <3>. QED BY <3>1, <3>2
    <2>. QED BY <1>2, <2>2, <2>3
  <1>5. CASE StatMarker(r) /\ ~MarkerIsRecent(r)
    <2>1. /\ rpc[r] = "stat" /\ rpc' = [rpc EXCEPT ![r] = "open"]
          /\ UNCHANGED <<marker, linked, rkey, rnow, hit>>
      BY <1>5 DEF StatMarker, cache
    <2>2. ASSUME NEW q \in Readers PROVE ReaderInv(q)'
      BY <1>1, <2>1 DEF ReaderInv
    <2>3. ASSUME NEW j \in Keys PROVE HitInv(j)'
      BY <1>1, <2>1 DEF HitInv
    <2>. QED BY <1>2, <2>2, <2>3
  <1>6. CASE OpenMarker(r) /\ marker[rkey[r]] # Missing
    <2>1. /\ rpc[r] = "open" /\ rpc' = [rpc EXCEPT ![r] = "touch"]
          /\ linked' = [linked EXCEPT ![r] = TRUE]
          /\ UNCHANGED <<marker, rkey, rnow, hit>>
      BY <1>6 DEF OpenMarker, cache
    <2>2. ASSUME NEW q \in Readers PROVE ReaderInv(q)'
      BY <1>1, <1>6, <2>1 DEF ReaderInv
    <2>3. ASSUME NEW j \in Keys PROVE HitInv(j)'
      BY <1>1, <2>1 DEF HitInv
    <2>. QED BY <1>2, <2>2, <2>3
  <1>7. CASE OpenMarker(r) /\ marker[rkey[r]] = Missing
    <2>1. /\ rpc[r] = "open" /\ rpc' = [rpc EXCEPT ![r] = "idle"]
          /\ rnow' = [rnow EXCEPT ![r] = 0]
          /\ marker' = [marker EXCEPT ![rkey[r]] = now]
          /\ hit' = [hit EXCEPT ![rkey[r]] = rnow[r]] /\ UNCHANGED <<linked, rkey>>
      BY <1>7 DEF OpenMarker, RecordsHit, ReturnsToCaller
    <2>2. ASSUME NEW q \in Readers PROVE ReaderInv(q)'
      BY <1>1, <2>1 DEF ReaderInv
    <2>3. ASSUME NEW j \in Keys PROVE HitInv(j)'
      <3>1. CASE j = rkey[r]
        <4>1. hit'[j] = rnow[r] /\ rnow[r] <= now /\ marker'[j] = now
          BY <2>1, <3>1 DEF ReaderInv
        <4>. QED BY <1>1, <4>1 DEF HitInv
      <3>2. CASE j # rkey[r]
        BY <1>1, <2>1, <3>2 DEF HitInv
      <3>. QED BY <3>1, <3>2
    <2>. QED BY <1>2, <2>2, <2>3
  <1>8. CASE TouchMarker(r)
    <2>1. /\ rpc[r] = "touch" /\ rpc' = [rpc EXCEPT ![r] = "idle"]
          /\ rnow' = [rnow EXCEPT ![r] = 0] /\ linked' = [linked EXCEPT ![r] = FALSE]
          /\ rkey' = rkey
          /\ \/ /\ marker' = [marker EXCEPT ![rkey[r]] = rnow[r]]
                /\ hit' = [hit EXCEPT ![rkey[r]] = rnow[r]]
             \/ UNCHANGED <<marker, hit>>
      BY <1>8 DEF TouchMarker, RecordsHit, ReturnsToCaller
    <2>2. \A k \in Keys : marker[k] # Missing => marker'[k] # Missing
      BY <1>1, <2>1
    <2>3. ASSUME NEW q \in Readers PROVE ReaderInv(q)'
      <3>1. CASE q = r
        BY <1>1, <2>1, <3>1 DEF ReaderInv
      <3>2. CASE q # r
        <4>1. /\ rnow'[q] = rnow[q] /\ linked'[q] = linked[q] /\ rpc'[q] = rpc[q]
              /\ rkey'[q] = rkey[q] /\ rkey[q] \in Keys
          BY <2>1, <3>2
        <4>. QED BY <1>1, <2>2, <4>1 DEF ReaderInv
      <3>. QED BY <3>1, <3>2
    <2>4. ASSUME NEW j \in Keys PROVE HitInv(j)'
      <3>1. CASE hit'[j] = rnow[r] /\ marker'[j] = rnow[r]
        <4>1. rnow[r] <= now
          BY DEF ReaderInv
        <4>. QED BY <1>1, <3>1, <4>1 DEF HitInv
      <3>2. CASE hit'[j] = hit[j] /\ marker'[j] = marker[j]
        BY <1>1, <3>2 DEF HitInv
      <3>. QED BY <1>1, <2>1, <3>1, <3>2
    <2>. QED BY <1>2, <2>3, <2>4
  <1>. QED
    BY <1>3, <1>4, <1>5, <1>6, <1>7, <1>8 DEF ReaderStep, StatMarker, OpenMarker

\* Where a marker goes, the object has gone; a later one is younger than any
\* hit recorded before.
LEMMA UnlinkProtects ==
  ASSUME PruneTyped, ProtectInv, NEW k \in Keys, mtime'[k] = Missing,
         \A j \in Keys : j # k => mtime'[j] = mtime[j], UnlinkMarker(k),
         UNCHANGED <<now, rpc, rkey, rnow, hit>>
  PROVE  (\A r \in Readers : ReaderInv(r)') /\ (\A j \in Keys : HitInv(j)')
  <1>. USE DEF ProtectInv, PruneTyped, TypeOK
  <1>1. \/ UNCHANGED <<marker, linked>>
        \/ /\ marker' = [marker EXCEPT ![k] = Missing]
           /\ linked' = [r \in Readers |-> linked[r] /\ rkey[r] # k]
    BY DEF UnlinkMarker
  <1>2. \A r \in Readers : linked'[r] => linked[r] /\ marker'[rkey[r]] = marker[rkey[r]]
    <2>1. \A r \in Readers : rkey[r] \in Keys
      OBVIOUS
    <2>2. marker \in [Keys -> Times]
      OBVIOUS
    <2>. HIDE DEF ProtectInv, PruneTyped, TypeOK
    <2>3. CASE UNCHANGED <<marker, linked>>
      BY <2>3
    <2>4. CASE /\ marker' = [marker EXCEPT ![k] = Missing]
               /\ linked' = [r \in Readers |-> linked[r] /\ rkey[r] # k]
      <3>1. \A r \in Readers : linked'[r] => linked[r] /\ rkey[r] # k
        BY <2>4, Zenon
      <3>2. \A j \in Keys : j # k => marker'[j] = marker[j]
        BY <2>2, <2>4
      <3>. QED BY <2>1, <3>1, <3>2
    <2>. QED BY <1>1, <2>3, <2>4
  <1>3. \A j \in Keys : (j # k \/ marker'[j] # Missing) => marker'[j] = marker[j]
    BY <1>1
  <1>4. ASSUME NEW r \in Readers PROVE ReaderInv(r)'
    BY <1>2 DEF ReaderInv
  <1>5. ASSUME NEW j \in Keys PROVE HitInv(j)'
    BY <1>3 DEF HitInv
  <1>. QED BY <1>4, <1>5

LEMMA PopulationsProtect ==
  ASSUME PruneTyped, ProtectInv, NEW k \in Keys, PopulationStep(k)
  PROVE  ProtectInv'
  <1>. USE PruneAssumption DEF ProtectInv, PruneTyped, TypeOK
  <1>1. UNCHANGED <<now, pc, mode, cand, start, rpc, rkey, rnow, hit>> /\ now \in Nat
    BY DEF PopulationStep, Own, PublishObject, RemoveCorrupt, Release,
           reading, pruning, progress, scan, try, flags
  <1>2. AgeInv'
    BY <1>1 DEF AgeInv, Trying, PruneHolds
  <1>3. CASE Own(k) \/ Release(k)
    <2>1. UNCHANGED <<mtime, marker, linked>>
      BY <1>3 DEF Own, Release, cache, reading
    <2>. QED BY <1>1, <1>2, <2>1 DEF ReaderInv, HitInv
  <1>4. ASSUME NEW l \in Lengths, PublishObject(k, l) PROVE ProtectInv'
    <2>1. mtime' = [mtime EXCEPT ![k] = now] /\ UNCHANGED <<marker, linked>>
      BY <1>4 DEF PublishObject, reading
    <2>2. ASSUME NEW r \in Readers PROVE ReaderInv(r)'
      BY <1>1, <2>1 DEF ReaderInv
    <2>3. ASSUME NEW j \in Keys PROVE HitInv(j)'
      BY <1>1, <2>1 DEF HitInv
    <2>. QED BY <1>2, <2>2, <2>3
  <1>5. CASE RemoveCorrupt(k)
    <2>1. mtime' = [mtime EXCEPT ![k] = Missing] /\ UnlinkMarker(k)
      BY <1>5 DEF RemoveCorrupt
    <2>2. mtime'[k] = Missing /\ \A j \in Keys : j # k => mtime'[j] = mtime[j]
      BY <2>1
    <2>. QED BY <1>1, <1>2, <2>1, <2>2, UnlinkProtects
  <1>. QED
    BY <1>3, <1>4, <1>5 DEF PopulationStep

\* What the prune itself does to the markers it does under the slot, to entries
\* it has removed.
LEMMA PruneProtects ==
  ASSUME PruneTyped, SlotInv, ProtectInv, StartPrune \/ PruneStep
  PROVE  ProtectInv'
  <1>. USE PruneAssumption
       DEF ProtectInv, PruneTyped, TypeOK, Trying, PruneHolds, progress, scan, try, flags, cache, reading
  <1>1. UNCHANGED <<now, rpc, rkey, rnow, hit>> /\ now \in Nat
    BY DEF StartPrune, PruneStep, Skip, Count, CountOrTry, Consider, Decide, EndScan, NextCandidate,
           EndRound, LockCandidate, Recheck, RemoveObject, ClearAndCount
  <1>2. CASE UNCHANGED <<mtime, marker, linked>>
    <2>1. ASSUME NEW r \in Readers PROVE ReaderInv(r)'
      BY <1>1, <1>2 DEF ReaderInv
    <2>2. ASSUME NEW j \in Keys PROVE HitInv(j)'
      BY <1>1, <1>2 DEF HitInv
    <2>3. AgeInv'
      <3>. USE DEF AgeInv
      <3>1. CASE StartPrune
        BY <3>1 DEF StartPrune
      <3>2. ASSUME NEW k \in Keys, Skip(k) \/ Count(k) \/ Consider(k) PROVE AgeInv'
        BY <3>2 DEF Skip, Count, Consider
      <3>3. ASSUME NEW k \in Keys, CountOrTry(k) PROVE AgeInv'
        <4>1. \/ UNCHANGED <<pc, cand, mode, start>>
              \/ /\ pc' = "lock" /\ cand' = Candidate(k) /\ Aged(k)
                 /\ UnusedAge # Missing /\ UNCHANGED <<mode, start>>
          BY <3>3 DEF CountOrTry
        <4>2. Aged(k) => Monus(start, Candidate(k).used) >= UnusedAge
          BY DEF Aged, Candidate
        <4>. QED BY <4>1, <4>2
      <3>4. CASE Decide \/ EndScan \/ EndRound
        BY <3>4 DEF Decide, EndScan, EndRound
      <3>5. CASE NextCandidate
        BY <3>5 DEF NextCandidate
      <3>6. CASE LockCandidate
        BY <3>6 DEF LockCandidate, Back
      <3>7. CASE Recheck
        BY <3>7 DEF Recheck, GiveUp, Back
      <3>8. CASE RemoveObject
        BY <3>8 DEF RemoveObject, GiveUp, Back
      <3>9. CASE ClearAndCount
        BY <3>9 DEF ClearAndCount, Back
      <3>. QED
        BY <3>1, <3>2, <3>3, <3>4, <3>5, <3>6, <3>7, <3>8, <3>9 DEF PruneStep
    <2>. QED BY <2>1, <2>2, <2>3
  <1>3. CASE RemoveObject /\ UNCHANGED <<marker, linked>>
    <2>1. \A k \in Keys : mtime'[k] \in {mtime[k], Missing}
      BY <1>3 DEF RemoveObject
    <2>2. ASSUME NEW r \in Readers PROVE ReaderInv(r)'
      BY <1>1, <1>3 DEF ReaderInv
    <2>3. ASSUME NEW j \in Keys PROVE HitInv(j)'
      BY <1>1, <1>3, <2>1 DEF HitInv
    <2>4. AgeInv'
      BY <1>3 DEF AgeInv, RemoveObject, GiveUp, Back
    <2>. QED BY <2>2, <2>3, <2>4
  <1>4. CASE ClearAndCount
    <2>1. mtime' = mtime /\ mtime[cand.key] = Missing /\ UnlinkMarker(cand.key) /\ cand.key \in Keys
      BY <1>4 DEF ClearAndCount, SlotInv
    <2>2. (\A r \in Readers : ReaderInv(r)') /\ (\A j \in Keys : HitInv(j)')
      BY <1>1, <2>1, UnlinkProtects
    <2>3. AgeInv'
      BY <1>4 DEF AgeInv, ClearAndCount, Back
    <2>. QED BY <2>2, <2>3
  <1>5. \/ UNCHANGED <<mtime, marker, linked>>
        \/ RemoveObject /\ UNCHANGED <<marker, linked>>
        \/ ClearAndCount
    BY DEF StartPrune, PruneStep, Skip, Count, CountOrTry, Consider, Decide, EndScan, NextCandidate,
           EndRound, LockCandidate, Recheck, RemoveObject
  <1>. HIDE DEF ProtectInv
  <1>. QED BY <1>2, <1>3, <1>4, <1>5

LEMMA ProtectNext == PruneTyped /\ SlotInv /\ ProtectInv /\ [Next]_vars => ProtectInv'
  <1>. SUFFICES ASSUME PruneTyped, SlotInv, ProtectInv, [Next]_vars PROVE ProtectInv'
    OBVIOUS
  <1>1. CASE Tick \/ UNCHANGED vars
    <2>1. /\ UNCHANGED <<mtime, marker, rpc, rkey, rnow, linked, hit, pc, mode, cand, start>>
          /\ now' \in Nat /\ now <= now' /\ now \in Nat
      BY <1>1, PruneAssumption DEF Tick, vars, cache, reading, pruning, progress, scan, try, flags,
                                   PruneTyped, TypeOK
    <2>2. ASSUME NEW r \in Readers PROVE ReaderInv(r)'
      BY <2>1 DEF ReaderInv, ProtectInv, PruneTyped, TypeOK
    <2>3. ASSUME NEW j \in Keys PROVE HitInv(j)'
      BY <2>1 DEF HitInv, ProtectInv, PruneTyped, TypeOK
    <2>4. AgeInv'
      BY <2>1 DEF AgeInv, ProtectInv, Trying, PruneHolds
    <2>. QED BY <2>2, <2>3, <2>4 DEF ProtectInv
  <1>. QED
    BY <1>1, ReadersProtect, PopulationsProtect, PruneProtects, PruneAssumption DEF Next

LEMMA ProtectAlways == Spec => []ProtectInv
  <1>1. Init => ProtectInv
    BY PruneAssumption DEF Init, ProtectInv, ReaderInv, HitInv, AgeInv, Trying, PruneHolds
  <1>. QED BY <1>1, ProtectNext, PruneTypedAlways, SlotAlways, PTL DEF Spec

\* Only current_candidate_path lets a candidate through to its removal.
LEMMA DecisionStep ==
  ASSUME PruneTyped, [Next]_vars, Decided
  PROVE  cand.key \in Present /\ Candidate(cand.key) = cand
  <1>. USE DEF Decided
  <1>1. CASE \E r \in Readers : ReaderStep(r)
    BY <1>1 DEF ReaderStep, Hit, StatMarker, OpenMarker, TouchMarker, pruning
  <1>2. CASE \E k \in Populated : PopulationStep(k)
    BY <1>2 DEF PopulationStep, Own, PublishObject, RemoveCorrupt, Release, pruning
  <1>3. CASE StartPrune \/ Tick \/ UNCHANGED vars
    BY <1>3 DEF StartPrune, Tick, vars, pruning
  <1>4. CASE PruneStep
    BY <1>4 DEF PruneStep, Skip, Count, CountOrTry, Consider, Decide, EndScan, NextCandidate,
                EndRound, LockCandidate, Recheck, GiveUp, Back, RemoveObject, ClearAndCount
  <1>. QED BY <1>1, <1>2, <1>3, <1>4 DEF Next

\* The last recorded hit protects an entry from ageing out, up to the
\* debouncing interval of record_access.  A policy of age zero takes every
\* entry whatever was recorded of it.
THEOREM RecordedHitsProtect ==
  ASSUME UnusedAge # 0
  PROVE  Spec => HitsProtect
  <1>1. PruneTyped /\ ProtectInv /\ [Next]_vars =>
          (AgeOut /\ hit[cand.key] # 0 =>
             start - hit[cand.key] >= UnusedAge - AccessInterval)
    <2>. SUFFICES ASSUME PruneTyped, ProtectInv, [Next]_vars, AgeOut, hit[cand.key] # 0
                  PROVE  start - hit[cand.key] >= UnusedAge - AccessInterval
      OBVIOUS
    <2>. DEFINE k == cand.key
    <2>1. k \in Keys /\ k \in Present /\ LastUsed(k) = cand.used
      BY DecisionStep DEF AgeOut, Present, Candidate
    <2>2. UnusedAge \in Nat \ {0} /\ Monus(start, cand.used) >= UnusedAge
      BY PruneAssumption DEF AgeOut, Decided, ProtectInv, AgeInv, Trying, PruneHolds
    <2>3. start \in Nat /\ hit[k] \in Nat /\ mtime[k] \in Nat /\ marker[k] \in Nat \union {Missing}
      <3>. HIDE DEF k
      <3>1. mtime[k] \in Times /\ marker[k] \in Times /\ hit[k] \in Nat /\ mtime[k] # Missing
        BY <2>1 DEF PruneTyped, TypeOK, Present
      <3>2. start \in Nat
        BY PruneAssumption DEF PruneTyped, TypeOK
      <3>. QED BY <3>1, <3>2 DEF Times
    <2>4. HitInv(k)
      BY <2>1 DEF ProtectInv
    <2>. HIDE DEF k
    <2>5. hit[k] # 0
      BY DEF k
    <2>6. cand.used \in Nat
      BY <2>1, <2>3 DEF LastUsed
    <2>7. start - cand.used >= UnusedAge
      BY <2>2, <2>3, <2>6 DEF Monus
    <2>8. CASE marker[k] = Missing
      <3>1. hit[k] <= cand.used
        BY <2>1, <2>3, <2>4, <2>5, <2>8 DEF HitInv, LastUsed, Present
      <3>. QED BY <2>2, <2>3, <2>6, <2>7, <3>1, PruneAssumption DEF k
    <2>9. CASE marker[k] # Missing
      <3>1. marker[k] \in Nat /\ hit[k] - marker[k] <= AccessInterval
        BY <2>3, <2>4, <2>5, <2>9 DEF HitInv
      <3>2. cand.used = marker[k]
        BY <2>1, <2>2, <2>3, <2>7, <2>9, <3>1 DEF LastUsed
      <3>. QED BY <2>2, <2>3, <2>7, <3>1, <3>2, PruneAssumption DEF k
    <2>. QED BY <2>8, <2>9
  <1>. QED BY <1>1, PruneTypedAlways, ProtectAlways, PTL DEF Spec, HitsProtect

-----------------------------------------------------------------------------
(* Order: whatever the scan has passed and nobody touched is among the     *)
(* candidates, or younger than all of them.                                *)

Settled == {k \in Present \ fresh : k \notin todo /\ SlotOf[k] \notin busySlots}
Left == heap \union (IF Trying THEN {cand} ELSE {})
InBatch == pc = "batch" \/ (mode = "batch" /\ Trying)

ScanInv ==
  pc = "scan" =>
    /\ \A c \in heap : c.key \notin todo
    /\ \A k \in Settled :
         \/ Candidate(k) \in heap
         \/ Cardinality(heap) = BatchSize /\ \A c \in heap : Before(c, Candidate(k))

BatchInv ==
  InBatch =>
    /\ todo = {}
    /\ \A k \in Settled : Candidate(k) \in Left \/ \A c \in Left : Before(c, Candidate(k))
    /\ Trying => \A c \in heap : Before(cand, c)

\* What was recorded of an entry that nobody touched is still true.
RecordedInv ==
  pc = "scan" \/ InBatch =>
    \A c \in Left : c.key \in Present \ fresh => Candidate(c.key) = c

OrderInv == ScanInv /\ BatchInv /\ RecordedInv

\* A settled entry keeps its time and length for as long as it is settled.
LEMMA OrderKept ==
  ASSUME OrderInv,
         UNCHANGED <<pc, cand, mode, heap, todo, busySlots>>,
         \A k \in Keys : k \in Present' \ fresh' =>
           k \in Present \ fresh /\ Candidate(k)' = Candidate(k)
  PROVE  OrderInv'
  <1>1. /\ Trying' <=> Trying
        /\ InBatch' <=> InBatch
        /\ Left' = Left
    BY DEF Trying, PruneHolds, InBatch, Left
  <1>2. \A k \in Settled' : k \in Settled /\ Candidate(k)' = Candidate(k)
    BY DEF Settled, Present
  <1>3. ScanInv'
    BY <1>2 DEF OrderInv, ScanInv
  <1>4. BatchInv'
    BY <1>1, <1>2 DEF OrderInv, BatchInv
  <1>5. RecordedInv'
    <2>. SUFFICES ASSUME pc' = "scan" \/ InBatch', NEW c \in Left', c.key \in Present' \ fresh'
                  PROVE  Candidate(c.key)' = c
      BY DEF RecordedInv
    <2>1. c.key \in Keys
      BY DEF Present
    <2>2. c \in Left /\ c.key \in Present \ fresh /\ Candidate(c.key)' = Candidate(c.key)
      BY <1>1, <2>1
    <2>. QED BY <1>1, <2>2 DEF OrderInv, RecordedInv
  <1>. QED BY <1>3, <1>4, <1>5 DEF OrderInv

LEMMA BesideKeepsOrder ==
  ASSUME PruneTyped, OrderInv,
         \/ \E r \in Readers : ReaderStep(r)
         \/ \E k \in Keys : PopulationStep(k)
         \/ Tick \/ UNCHANGED vars
  PROVE  OrderInv'
  <1>. USE DEF PruneTyped, TypeOK, cache, reading, pruning, progress, scan, try, flags
  <1>1. UNCHANGED <<pc, start, cand, mode, heap, todo, busySlots>>
    BY DEF ReaderStep, Hit, StatMarker, OpenMarker, TouchMarker, ReturnsToCaller,
           PopulationStep, Own, PublishObject, RemoveCorrupt, Release, Tick, vars
  <1>2. ASSUME NEW r \in Readers, ReaderStep(r), NEW k \in Keys, k \in Present' \ fresh'
        PROVE  k \in Present \ fresh /\ Candidate(k)' = Candidate(k)
    <2>1. UNCHANGED <<mtime, len>>
      BY <1>2 DEF ReaderStep, Hit, StatMarker, OpenMarker, TouchMarker, ReturnsToCaller
    <2>2. \/ UNCHANGED <<marker, fresh>>
          \/ /\ fresh' = fresh \union {rkey[r]}
             /\ \A j \in Keys : j # rkey[r] => marker'[j] = marker[j]
      BY <1>2 DEF ReaderStep, Hit, StatMarker, OpenMarker, TouchMarker
    <2>3. k \in Present \ fresh /\ marker'[k] = marker[k]
      BY <1>2, <2>1, <2>2 DEF Present
    <2>. QED BY <1>1, <2>1, <2>3 DEF Candidate, LastUsed
  <1>3. ASSUME NEW j \in Keys, PopulationStep(j), NEW k \in Keys, k \in Present' \ fresh'
        PROVE  k \in Present \ fresh /\ Candidate(k)' = Candidate(k)
    <2>1. \/ UNCHANGED <<mtime, len, marker, fresh>>
          \/ /\ fresh' = fresh \union {j}
             /\ \A i \in Keys : i # j => /\ mtime'[i] = mtime[i] /\ len'[i] = len[i]
                                         /\ marker'[i] = marker[i]
      BY <1>3 DEF PopulationStep, Own, PublishObject, RemoveCorrupt, Release, UnlinkMarker
    <2>2. /\ k \in Present \ fresh
          /\ mtime'[k] = mtime[k] /\ len'[k] = len[k] /\ marker'[k] = marker[k]
      BY <1>3, <2>1 DEF Present
    <2>. QED BY <1>1, <2>2 DEF Candidate, LastUsed
  <1>4. ASSUME Tick \/ UNCHANGED vars, NEW k \in Keys, k \in Present' \ fresh'
        PROVE  k \in Present \ fresh /\ Candidate(k)' = Candidate(k)
    BY <1>4 DEF Tick, vars, Present, Candidate, LastUsed
  <1>. QED BY <1>1, <1>2, <1>3, <1>4, OrderKept

\* The prune's steps keep every settled entry as it is; what they remove is not
\* settled any more.
LEMMA PruneKeepsEntries ==
  ASSUME PruneTyped, SlotInv, PruneStep, NEW k \in Keys, k \in Present'
  PROVE  k \in Present /\ Candidate(k)' = Candidate(k)
  <1>. USE DEF PruneTyped, TypeOK, cache, progress, scan, try, flags
  <1>1. CASE UNCHANGED <<mtime, len, marker, start>>
    BY <1>1 DEF Present, Candidate, LastUsed
  <1>2. CASE RemoveObject
    <2>1. /\ mtime' = mtime \/ mtime' = [mtime EXCEPT ![cand.key] = Missing]
          /\ UNCHANGED <<len, marker, start>>
      BY <1>2 DEF RemoveObject
    <2>2. mtime[k] = mtime'[k]
      BY <2>1 DEF Present
    <2>. QED BY <2>1, <2>2 DEF Present, Candidate, LastUsed
  <1>3. CASE ClearAndCount
    <2>1. /\ UNCHANGED <<mtime, len, start>>
          /\ marker' = marker \/ marker' = [marker EXCEPT ![cand.key] = Missing]
          /\ mtime[cand.key] = Missing
      BY <1>3 DEF ClearAndCount, UnlinkMarker, SlotInv
    <2>2. marker'[k] = marker[k]
      BY <2>1 DEF Present
    <2>. QED BY <2>1, <2>2 DEF Present, Candidate, LastUsed
  <1>. QED
    BY <1>1, <1>2, <1>3 DEF PruneStep, Skip, Count, CountOrTry, Consider, Decide, EndScan,
      NextCandidate, EndRound, LockCandidate, Recheck, reading

LEMMA CandidateOrdered ==
  ASSUME PruneTyped, NEW k \in Present
  PROVE  Candidate(k) \in CandidateSet /\ Candidate(k).key = k /\ k \in Keys
  <1>1. Candidate(k) \in [key : Keys, used : Nat, len : Lengths]
    BY CandidateTyped DEF PruneTyped
  <1>. QED BY <1>1, PruneAssumption DEF CandidateSet, Candidate, Present

\* retain_oldest: what it drops is younger than all it keeps.
LEMMA RetainKeepsOldest ==
  ASSUME PruneTyped, NEW c \in CandidateSet, c \notin heap, NEW d \in CandidateSet,
         \/ d \in heap \/ d = c
         \/ Cardinality(heap) = BatchSize /\ \A e \in heap : Before(e, d)
  PROVE  \/ d \in RetainOldest(heap, c)
         \/ /\ Cardinality(RetainOldest(heap, c)) = BatchSize
            /\ \A e \in RetainOldest(heap, c) : Before(e, d)
  <1>1. heap \subseteq CandidateSet /\ IsFiniteSet(heap) /\ Cardinality(heap) \in Nat
        /\ Cardinality(heap) <= BatchSize /\ BatchSize \in Nat
    BY HeapOrdered, FS_CardinalityType, PruneAssumption DEF PruneTyped, TypeOK
  <1>2. CASE Cardinality(heap) < BatchSize
    BY <1>1, <1>2 DEF RetainOldest
  <1>3. CASE Cardinality(heap) = BatchSize
    <2>. DEFINE n == Newest(heap)
                rest == heap \ {n}
    <2>1. n \in heap /\ \A e \in rest : Before(e, n)
      BY <1>3, HeapFullHasNewest
    <2>2. n \in CandidateSet
      BY <1>1, <2>1
    <2>3. RetainOldest(heap, c) = IF Before(c, n) THEN rest \union {c} ELSE heap
      BY <1>1, <1>3 DEF RetainOldest
    <2>. HIDE DEF n
    <2>4. CASE Before(c, n)
      <3>1. Cardinality(RetainOldest(heap, c)) = BatchSize
        <4>1. IsFiniteSet(rest) /\ Cardinality(rest) = Cardinality(heap) - 1
          BY <1>1, <2>1, FS_RemoveElement
        <4>2. Cardinality(rest \union {c}) =
                IF c \in rest THEN Cardinality(rest) ELSE Cardinality(rest) + 1
          BY <4>1, FS_AddElement
        <4>. QED BY <1>1, <1>3, <2>3, <2>4, <4>1, <4>2
      <3>2. CASE d \in rest \/ d = c
        BY <2>3, <2>4, <3>2
      <3>3. CASE d = n
        BY <2>1, <2>3, <2>4, <3>1, <3>3
      <3>4. CASE \A e \in heap : Before(e, d)
        <4>1. Before(c, d)
          BY <2>1, <2>2, <2>4, <3>4, BeforeIsStrict
        <4>. QED BY <2>3, <2>4, <3>1, <3>4, <4>1
      <3>. QED BY <3>2, <3>3, <3>4
    <2>5. CASE ~Before(c, n)
      <3>1. Before(n, c)
        BY <2>1, <2>2, <2>5, BeforeIsStrict
      <3>2. ASSUME NEW e \in heap PROVE Before(e, c)
        BY <1>1, <2>1, <2>2, <3>1, BeforeIsStrict
      <3>. QED BY <1>3, <2>3, <2>5, <3>2
    <2>. QED BY <2>4, <2>5
  <1>. QED BY <1>1, <1>2, <1>3

\* What a step of the prune may do to the entries it has settled: settle no more
\* of them, and leave them and the rest of the batch as they are.
LEMMA BatchKept ==
  ASSUME OrderInv, PruneTyped, SlotInv, PruneStep, pc # "scan", pc' # "scan", InBatch,
         todo' = todo, fresh' = fresh, busySlots \subseteq busySlots', Left' \subseteq Left,
         Trying' => \A c \in heap' : Before(cand', c),
         \A k \in Settled' : Candidate(k) \in Left => Candidate(k) \in Left'
  PROVE  OrderInv'
  <1>1. \A k \in Keys : k \in Present' => k \in Present /\ Candidate(k)' = Candidate(k)
    BY PruneKeepsEntries
  <1>2. \A k \in Settled' : k \in Settled /\ Candidate(k)' = Candidate(k)
    BY <1>1 DEF Settled, Present
  <1>3. ScanInv'
    BY DEF ScanInv
  <1>4. BatchInv'
    BY <1>2 DEF OrderInv, BatchInv
  <1>5. RecordedInv'
    BY <1>1 DEF OrderInv, RecordedInv, Present
  <1>. QED BY <1>3, <1>4, <1>5 DEF OrderInv

LEMMA ScanKeepsOrder ==
  ASSUME PruneTyped, ProtectInv, OrderInv,
         \/ Decide \/ EndScan
         \/ \E k \in Keys : Skip(k) \/ Count(k) \/ CountOrTry(k) \/ Consider(k)
  PROVE  OrderInv'
  <1>. USE DEF PruneTyped, TypeOK, cache, progress, scan, try, flags
  <1>1. UNCHANGED <<mtime, len, marker, start, busySlots>>
    BY DEF Decide, EndScan, Skip, Count, CountOrTry, Consider
  <1>2. Present' = Present /\ \A k \in Keys : Candidate(k)' = Candidate(k)
    BY <1>1 DEF Present, Candidate, LastUsed
  <1>3. pc \in {"count", "age", "loop"} => mode = "age" \/ ~InBatch
    BY DEF InBatch, Trying, PruneHolds
  <1>4. CASE Decide
    <2>1. CASE pc' = "done"
      BY <1>4, <2>1 DEF OrderInv, ScanInv, BatchInv, RecordedInv, InBatch, Trying, PruneHolds, Decide
    <2>2. CASE pc' = "scan" /\ todo' = Keys /\ heap' = {}
      <3>1. Settled' = {} /\ ~InBatch' /\ Left' = {}
        BY <1>4, <2>2 DEF Settled, Present, InBatch, Trying, PruneHolds, Left
      <3>. QED BY <2>2, <3>1 DEF OrderInv, ScanInv, BatchInv, RecordedInv
    <2>. QED BY <1>4, <2>1, <2>2 DEF Decide
  <1>5. CASE EndScan
    <2>1. UNCHANGED <<todo, heap, fresh, cand, mode>> /\ todo = {} /\ pc = "scan"
      BY <1>5 DEF EndScan
    <2>2. ~Trying /\ ~Trying' /\ Left = heap /\ Left' = heap /\ Settled' = Settled
      BY <1>1, <1>2, <1>5, <2>1 DEF EndScan, Trying, PruneHolds, Left, Settled
    <2>3. ScanInv'
      BY <1>5 DEF EndScan, ScanInv
    <2>4. BatchInv'
      BY <1>2, <2>1, <2>2 DEF OrderInv, ScanInv, BatchInv, Settled, Present
    <2>5. RecordedInv'
      BY <1>2, <2>1, <2>2 DEF OrderInv, RecordedInv, Present
    <2>. QED BY <2>3, <2>4, <2>5 DEF OrderInv
  <1>6. ASSUME NEW k \in Keys, Count(k) \/ CountOrTry(k) PROVE OrderInv'
    <2>1. pc' \in {"count", "age", "lock"} /\ mode' = mode /\ (pc' = "lock" => pc = "age")
      BY <1>6 DEF Count, CountOrTry
    <2>2. pc = "age" => mode = "age"
      BY DEF ProtectInv, AgeInv
    <2>3. pc' # "scan" /\ ~InBatch'
      BY <2>1, <2>2 DEF InBatch, Trying, PruneHolds
    <2>. QED BY <2>3 DEF OrderInv, ScanInv, BatchInv, RecordedInv
  <1>7. ASSUME NEW k \in Keys, Skip(k) PROVE OrderInv'
    <2>1. CASE pc' # "scan"
      <3>1. ~InBatch'
        BY <1>7, <2>1 DEF Skip, InBatch, Trying, PruneHolds
      <3>. QED BY <2>1, <3>1 DEF OrderInv, ScanInv, BatchInv, RecordedInv
    <2>2. CASE pc' = "scan"
      <3>1. /\ pc = "scan" /\ todo' \subseteq todo /\ todo' = todo \ {k}
            /\ k \notin Present /\ UNCHANGED <<heap, fresh, cand, mode>>
        BY <1>7, <2>2 DEF Skip, Present
      <3>2. ~InBatch' /\ Left' = Left /\ Settled' = Settled
        BY <1>1, <1>2, <2>2, <3>1 DEF InBatch, Trying, PruneHolds, Left, Settled
      <3>3. ScanInv'
        BY <1>2, <3>1, <3>2 DEF OrderInv, ScanInv, Settled, Present
      <3>4. BatchInv' /\ RecordedInv'
        BY <1>2, <3>1, <3>2 DEF OrderInv, BatchInv, RecordedInv, Present
      <3>. QED BY <3>3, <3>4 DEF OrderInv
    <2>. QED BY <2>1, <2>2
  <1>8. ASSUME NEW k \in Keys, Consider(k) PROVE OrderInv'
    <2>1. /\ pc = "scan" /\ pc' = "scan" /\ k \in Present /\ k \in todo /\ todo' = todo \ {k}
          /\ UNCHANGED <<fresh, cand, mode>>
      BY <1>8 DEF Consider
    <2>2. ~InBatch' /\ Left' = heap' /\ Left = heap
      BY <2>1 DEF InBatch, Trying, PruneHolds, Left
    <2>3. Settled' \subseteq Settled \union {k}
          /\ (SlotOf[k] \in busySlots => Settled' \subseteq Settled)
      BY <1>1, <1>2, <2>1 DEF Settled
    <2>4. heap' = IF SlotOf[k] \in busySlots THEN heap ELSE RetainOldest(heap, Candidate(k))
      BY <1>8 DEF Consider
    <2>5. Candidate(k) \in CandidateSet /\ Candidate(k).key = k /\ Candidate(k) \notin heap
      BY <2>1, CandidateOrdered DEF OrderInv, ScanInv
    <2>6. heap' \subseteq heap \union {Candidate(k)}
      <3>1. RetainOldest(heap, Candidate(k)) \subseteq heap \union {Candidate(k)}
        BY RetainTyped, HeapFullHasNewest
      <3>. QED BY <2>4, <3>1
    <2>7. ASSUME NEW j \in Settled'
          PROVE  \/ Candidate(j) \in heap'
                 \/ Cardinality(heap') = BatchSize /\ \A c \in heap' : Before(c, Candidate(j))
      <3>1. CASE SlotOf[k] \in busySlots
        BY <2>1, <2>3, <2>4, <3>1 DEF OrderInv, ScanInv
      <3>2. CASE SlotOf[k] \notin busySlots
        <4>1. Candidate(j) \in CandidateSet
          BY <1>2, CandidateOrdered DEF Settled
        <4>2. \/ Candidate(j) \in heap \/ Candidate(j) = Candidate(k)
              \/ Cardinality(heap) = BatchSize /\ \A e \in heap : Before(e, Candidate(j))
          BY <2>1, <2>3 DEF OrderInv, ScanInv
        <4>. QED BY <2>4, <2>5, <3>2, <4>1, <4>2, RetainKeepsOldest
      <3>. QED BY <3>1, <3>2
    <2>8. ScanInv'
      <3>1. \A c \in heap' : c.key \notin todo'
        BY <2>1, <2>5, <2>6 DEF OrderInv, ScanInv
      <3>2. \A j \in Settled' : Candidate(j)' = Candidate(j)
        BY <1>2 DEF Settled, Present
      <3>. QED BY <2>7, <3>1, <3>2 DEF ScanInv
    <2>9. RecordedInv'
      <3>. SUFFICES ASSUME NEW c \in heap', c.key \in Present \ fresh PROVE Candidate(c.key) = c
        BY <1>2, <2>1, <2>2 DEF RecordedInv, Present
      <3>1. CASE c \in heap
        BY <2>1, <2>2, <3>1 DEF OrderInv, RecordedInv
      <3>2. CASE c = Candidate(k)
        BY <2>5, <3>2
      <3>. QED BY <2>6, <3>1, <3>2
    <2>. QED BY <2>2, <2>8, <2>9 DEF OrderInv, BatchInv
  <1>. QED BY <1>4, <1>5, <1>6, <1>7, <1>8

LEMMA TryKeepsOrder ==
  ASSUME PruneTyped, SlotInv, ProtectInv, OrderInv,
         NextCandidate \/ EndRound \/ LockCandidate \/ Recheck \/ RemoveObject \/ ClearAndCount
  PROVE  OrderInv'
  <1>. USE DEF PruneTyped, TypeOK, cache, progress, scan, try, flags
  <1>1. PruneStep
    BY DEF PruneStep
  <1>2. CASE NextCandidate
    <2>1. PICK c : c = Oldest(heap)
      OBVIOUS
    <2>2. c \in heap /\ \A d \in heap \ {c} : Before(c, d)
      BY <1>2, <2>1, OldestExists, HeapOrdered DEF NextCandidate
    <2>3. /\ pc = "batch" /\ heap' = heap \ {c}
          /\ \/ SlotOf[c.key] \in busySlots /\ UNCHANGED <<pc, cand>>
             \/ pc' = "lock" /\ cand' = c
          /\ UNCHANGED <<mtime, len, marker, start, busySlots, todo, fresh, mode>>
      BY <1>2, <2>1 DEF NextCandidate
    <2>4. ~Trying /\ Left = heap /\ InBatch
      BY <2>3 DEF Trying, PruneHolds, Left, InBatch
    <2>5. Settled' = Settled
      BY <2>3 DEF Settled, Present
    <2>6. CASE SlotOf[c.key] \in busySlots /\ UNCHANGED <<pc, cand>>
      <3>1. ~Trying' /\ Left' = heap \ {c}
        BY <2>3, <2>6 DEF Trying, PruneHolds, Left
      <3>2. \A k \in Settled' : Candidate(k) # c
        BY <2>5, <2>6 DEF Settled, Candidate
      <3>. QED BY <1>1, <2>3, <2>4, <2>6, <3>1, <3>2, BatchKept
    <2>7. CASE pc' = "lock" /\ cand' = c
      <3>1. Trying' /\ Left' = heap
        BY <2>2, <2>3, <2>7 DEF Trying, Left
      <3>. QED BY <1>1, <2>2, <2>3, <2>4, <2>7, <3>1, BatchKept
    <2>. QED BY <2>3, <2>6, <2>7
  <1>3. CASE EndRound
    <2>1. pc' \in {"done", "loop"}
      BY <1>3 DEF EndRound
    <2>2. pc' # "scan" /\ ~InBatch'
      BY <2>1 DEF InBatch, Trying, PruneHolds
    <2>. QED BY <2>2 DEF OrderInv, ScanInv, BatchInv, RecordedInv
  <1>4. CASE mode = "age" /\ (LockCandidate \/ Recheck \/ RemoveObject \/ ClearAndCount)
    <2>1. pc' \in {"age", "recheck", "remove", "clear"} /\ mode' = "age"
      BY <1>4 DEF LockCandidate, Recheck, RemoveObject, ClearAndCount, GiveUp, Back
    <2>2. pc' # "scan" /\ ~InBatch'
      BY <2>1 DEF InBatch
    <2>. QED BY <2>2 DEF OrderInv, ScanInv, BatchInv, RecordedInv
  <1>5. CASE mode = "batch" /\ (LockCandidate \/ Recheck \/ RemoveObject \/ ClearAndCount)
    <2>1. Trying /\ InBatch /\ pc # "scan" /\ Left = heap \union {cand} /\ cand.key \in Keys
      BY <1>5 DEF LockCandidate, Recheck, RemoveObject, ClearAndCount, Trying, PruneHolds, InBatch, Left
    <2>2. /\ UNCHANGED <<heap, todo, fresh>> /\ busySlots \subseteq busySlots'
      BY <1>5 DEF LockCandidate, Recheck, RemoveObject, ClearAndCount
    <2>3. CASE cand' = cand /\ pc' \in PruneHolds
      <3>1. Trying' /\ Left' = Left
        BY <2>1, <2>2, <2>3 DEF Trying, Left
      <3>2. \A c \in heap' : Before(cand', c)
        BY <2>1, <2>2, <2>3 DEF OrderInv, BatchInv
      <3>3. pc' # "scan"
        BY <2>3 DEF PruneHolds
      <3>. QED BY <1>1, <2>1, <2>2, <3>1, <3>2, <3>3, BatchKept
    <2>4. CASE pc' = "batch" /\ cand.key \notin Settled'
      <3>1. ~Trying' /\ Left' = heap
        BY <2>2, <2>4 DEF Trying, PruneHolds, Left
      <3>2. \A k \in Settled' : Candidate(k) # cand
        BY <2>4 DEF Candidate
      <3>. QED BY <1>1, <2>1, <2>2, <2>4, <3>1, <3>2, BatchKept
    <2>5. CASE LockCandidate
      BY <1>5, <2>3, <2>4, <2>5 DEF LockCandidate, Back, Settled, PruneHolds
    <2>6. CASE Recheck
      <3>1. cand.key \in Present \ fresh => Candidate(cand.key) = cand
        BY <2>1 DEF OrderInv, RecordedInv
      <3>2. Present' = Present /\ busySlots' = busySlots
        BY <2>6 DEF Recheck, Present
      <3>. QED BY <1>5, <2>2, <2>3, <2>4, <2>6, <3>1, <3>2 DEF Recheck, GiveUp, Back, Settled, PruneHolds
    <2>7. CASE RemoveObject
      BY <1>5, <2>3, <2>4, <2>7 DEF RemoveObject, GiveUp, Back, Settled, Present, PruneHolds
    <2>8. CASE ClearAndCount
      BY <1>5, <2>4, <2>8 DEF ClearAndCount, Back, Settled, Present, SlotInv
    <2>. QED BY <1>5, <2>5, <2>6, <2>7, <2>8
  <1>. QED BY <1>2, <1>3, <1>4, <1>5

LEMMA OrderNext ==
  PruneTyped /\ SlotInv /\ ProtectInv /\ OrderInv /\ [Next]_vars => OrderInv'
  <1>1. ASSUME StartPrune PROVE OrderInv'
    <2>1. pc' \in {"count", "age"}
      BY <1>1 DEF StartPrune
    <2>. QED
      BY <2>1 DEF OrderInv, ScanInv, BatchInv, RecordedInv, InBatch, Trying, PruneHolds
  <1>. QED
    BY <1>1, ScanKeepsOrder, TryKeepsOrder, BesideKeepsOrder, PruneAssumption DEF Next, PruneStep

LEMMA OrderAlways == Spec => []OrderInv
  <1>1. Init => OrderInv
    BY DEF Init, OrderInv, ScanInv, BatchInv, RecordedInv, InBatch, Trying, PruneHolds
  <1>. QED BY <1>1, OrderNext, PruneTypedAlways, SlotAlways, ProtectAlways, PTL DEF Spec

\* Capacity pruning takes the least recently used entry first: an older entry
\* that stays was touched since the scan began, or its slot was found busy.
THEOREM OldestGoFirst == Spec => OldestFirst
  <1>1. PruneTyped /\ OrderInv /\ [Next]_vars =>
          (Decided /\ mode = "batch" =>
             \A k \in Present \ fresh : LastUsed(k) < cand.used => SlotOf[k] \in busySlots)
    <2>. SUFFICES ASSUME PruneTyped, OrderInv, [Next]_vars, Decided, mode = "batch",
                         NEW k \in Present \ fresh, LastUsed(k) < cand.used,
                         SlotOf[k] \notin busySlots
                  PROVE  FALSE
      OBVIOUS
    <2>1. Trying /\ InBatch /\ cand \in Left /\ Left = heap \union {cand}
      BY DEF Decided, Trying, PruneHolds, InBatch, Left
    <2>2. k \in Settled
      BY <2>1 DEF OrderInv, BatchInv, Settled
    <2>3. Candidate(k) = cand \/ Before(cand, Candidate(k))
      BY <2>1, <2>2 DEF OrderInv, BatchInv
    <2>4. Candidate(k).used = LastUsed(k) /\ Candidate(k) \in CandidateSet /\ cand \in CandidateSet
      <3>1. cand \in CandidateSet
        BY <2>1, PruneAssumption DEF PruneTyped, TypeOK, Trying, CandidateSet
      <3>2. Candidate(k).used = LastUsed(k)
        BY DEF Candidate
      <3>. QED BY <3>1, <3>2, CandidateOrdered
    <2>. HIDE DEF Candidate, LastUsed
    <2>5. LastUsed(k) \in Nat /\ cand.used \in Nat
      <3>1. \A c \in CandidateSet : c.used \in Nat
        BY DEF CandidateSet
      <3>. QED BY <2>4, <3>1
    <2>. QED BY <2>3, <2>4, <2>5 DEF Before
  <1>. QED BY <1>1, PruneTypedAlways, OrderAlways, PTL DEF Spec, OldestFirst
=============================================================================
