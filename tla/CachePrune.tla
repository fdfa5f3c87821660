----------------------------- MODULE CachePrune -----------------------------
(***************************************************************************)
(* Cache::prune beside readers that record their hits and processes that   *)
(* populate the cache.  Times are ticks; an object is its modification     *)
(* time and its length.  A population is reduced to what a prune can see   *)
(* of it: a slot taken, a corrupt object removed, an object published, the *)
(* slot released (CachePopulation has the whole machine).                  *)
(***************************************************************************)
EXTENDS Integers, FiniteSets, Sequences, FiniteSetsExt

CONSTANTS
  Keys,            \* build identifiers, numbered in their byte order
  Slots, SlotOf,   \* lock slots, and the slot of a key
  Populated,       \* bound: keys that populations touch during the scenario
  Readers,         \* processes that look entries up and record the hit
  Missing,         \* no such file
  ByteLimit,       \* PrunePolicy: the high byte watermark
  EntryLimit,      \* PrunePolicy: the high entry watermark, or Missing
  UnusedAge,       \* PrunePolicy: the maximum unused age, where it has one
  AccessInterval,  \* ACCESS_INTERVAL, in ticks
  BatchSize,       \* what prune_batch_size returned
  Lengths,         \* lengths of the objects
  InitialTimes,    \* modification times the scenario starts with
  StartTime, MaxNow \* bounds: the clock's first and last tick

ASSUME PruneAssumption ==
  /\ Keys \subseteq Nat /\ Keys # {} /\ SlotOf \in [Keys -> Slots]
  /\ Populated \subseteq Keys /\ Missing \notin Nat
  /\ ByteLimit \in Nat \ {0}
  /\ EntryLimit \in (Nat \ {0}) \union {Missing}
  /\ UnusedAge \in Nat \union {Missing}
  /\ AccessInterval \in Nat /\ BatchSize \in Nat \ {0} /\ Lengths \subseteq Nat
  /\ StartTime \in Nat /\ MaxNow \in Nat /\ StartTime <= MaxNow
  /\ InitialTimes \subseteq (0..StartTime) \union {Missing}

VARIABLES
  mtime,     \* [Keys -> time of the object or Missing]
  len,       \* [Keys -> its length]
  marker,    \* [Keys -> time of the access marker or Missing]
  owners,    \* keys whose slot a population holds, at most one per slot
  now,
  rpc, rkey, rnow,  \* per reader: where, which entry, SystemTime::now()
  linked,    \* per reader: its descriptor is that of the marker's name
  pc,        \* the prune: what comes next
  start,     \* the prune's reading of the clock
  before, after,    \* PruneProgress: [entries, bytes]
  busySlots, \* PruneProgress
  todo,      \* keys the directory scan has not returned yet
  gone,      \* keys whose object was removed since the scan started
  heap,      \* candidates retained by the scan
  cand,      \* the candidate being tried, or Missing
  mode,      \* which loop tries it: "age" or "batch"
  advanced, changed, retried,
  hit,       \* history: [Keys -> the time the last record of an access carried]
  fresh,     \* history: keys touched since the scan started
  disturbed  \* history: an object came or went beside this prune

cache == <<mtime, len, marker>>
reading == <<rpc, rkey, rnow, linked, hit>>
progress == <<before, after, busySlots>>
scan == <<todo, gone, heap, fresh>>
flags == <<advanced, changed, retried>>
try == <<cand, mode>>
pruning == <<pc, start, progress, scan, try, flags, disturbed>>
vars == <<cache, owners, now, reading, pruning>>

NoStats == [entries |-> 0, bytes |-> 0]
Present == {k \in Keys : mtime[k] # Missing}

Init ==
  /\ mtime \in [Keys -> InitialTimes] /\ len \in [Keys -> Lengths]
  /\ marker = [k \in Keys |-> Missing]
  /\ owners = {} /\ now = StartTime
  /\ rpc = [r \in Readers |-> "idle"] /\ rkey \in [Readers -> {CHOOSE k \in Keys : TRUE}]
  /\ rnow = [r \in Readers |-> 0] /\ linked = [r \in Readers |-> FALSE]
  /\ pc = "idle" /\ start = 0 /\ before = NoStats /\ after = NoStats /\ busySlots = {}
  /\ todo = {} /\ gone = {} /\ heap = {} /\ cand = Missing /\ mode = "age"
  /\ advanced = FALSE /\ changed = FALSE /\ retried = FALSE
  /\ hit = [k \in Keys |-> 0] /\ fresh = {} /\ disturbed = FALSE

-----------------------------------------------------------------------------
(* Readers: lookup, then record_access.                                    *)

\* A hit, and the clock record_access reads.
Hit(r, k) ==
  /\ rpc[r] = "idle" /\ mtime[k] # Missing
  /\ rpc' = [rpc EXCEPT ![r] = "stat"]
  /\ rkey' = [rkey EXCEPT ![r] = k]
  /\ rnow' = [rnow EXCEPT ![r] = now]
  /\ UNCHANGED <<cache, owners, now, linked, hit, pruning>>

\* A slow reader may record an earlier hit after a later one.
RecordsHit(r) == hit' = [hit EXCEPT ![rkey[r]] = rnow[r]]

ReturnsToCaller(r) ==
  /\ rpc' = [rpc EXCEPT ![r] = "idle"]
  /\ rnow' = [rnow EXCEPT ![r] = 0]
  /\ UNCHANGED <<rkey, owners, now, mtime, len>>

\* marker_is_recent: one from the future is not.
MarkerIsRecent(r) ==
  /\ marker[rkey[r]] # Missing
  /\ marker[rkey[r]] <= rnow[r] /\ rnow[r] - marker[rkey[r]] < AccessInterval

\* statat: a recent marker is left alone.
StatMarker(r) ==
  /\ rpc[r] = "stat"
  /\ IF MarkerIsRecent(r)
       THEN ReturnsToCaller(r) /\ RecordsHit(r) /\ UNCHANGED <<marker, linked, pruning>>
       ELSE /\ rpc' = [rpc EXCEPT ![r] = "open"]
            /\ UNCHANGED <<cache, owners, now, rkey, rnow, linked, hit, pruning>>

\* open_marker: the existing file, or a new one that is dated by its creation.
OpenMarker(r) ==
  /\ rpc[r] = "open"
  /\ IF marker[rkey[r]] # Missing
       THEN /\ rpc' = [rpc EXCEPT ![r] = "touch"]
            /\ linked' = [linked EXCEPT ![r] = TRUE]
            /\ UNCHANGED <<cache, owners, now, rkey, rnow, hit, pruning>>
       ELSE /\ marker' = [marker EXCEPT ![rkey[r]] = now]
            /\ ReturnsToCaller(r) /\ RecordsHit(r)
            /\ fresh' = fresh \union {rkey[r]}
            /\ UNCHANGED <<linked, pc, start, progress, todo, gone, heap, try, flags, disturbed>>

\* set_times reaches the file that was opened, even if it has lost its name.
TouchMarker(r) ==
  /\ rpc[r] = "touch" /\ ReturnsToCaller(r)
  /\ IF linked[r]
       THEN /\ marker' = [marker EXCEPT ![rkey[r]] = rnow[r]]
            /\ RecordsHit(r)
            /\ fresh' = fresh \union {rkey[r]}
       ELSE UNCHANGED <<marker, hit, fresh>>
  /\ linked' = [linked EXCEPT ![r] = FALSE]
  /\ UNCHANGED <<pc, start, progress, todo, gone, heap, try, flags, disturbed>>

\* Unlinking a marker, which may fail unnoticed.
UnlinkMarker(k) ==
  \/ /\ marker' = [marker EXCEPT ![k] = Missing]
     /\ linked' = [r \in Readers |-> linked[r] /\ rkey[r] # k]
  \/ UNCHANGED <<marker, linked>>

-----------------------------------------------------------------------------
(* Populations.                                                            *)

\* Keys whose slot somebody holds; the prune holds its candidate's.
PruneHolds == {"recheck", "remove", "clear"}
Occupied(k) ==
  \/ \E j \in owners : SlotOf[j] = SlotOf[k]
  \/ pc \in PruneHolds /\ SlotOf[cand.key] = SlotOf[k]

Own(k) ==
  /\ ~Occupied(k)
  /\ owners' = owners \union {k}
  /\ UNCHANGED <<cache, now, reading, pruning>>

\* Publication, or the removal of a corrupt object with its marker.
PublishObject(k, l) ==
  /\ k \in owners /\ mtime[k] = Missing
  /\ mtime' = [mtime EXCEPT ![k] = now] /\ len' = [len EXCEPT ![k] = l]
  /\ fresh' = fresh \union {k} /\ disturbed' = TRUE
  /\ UNCHANGED <<marker, owners, now, reading, pc, start, progress, todo, gone, heap, try, flags>>

RemoveCorrupt(k) ==
  /\ k \in owners /\ mtime[k] # Missing
  /\ mtime' = [mtime EXCEPT ![k] = Missing]
  /\ UnlinkMarker(k)
  /\ gone' = gone \union {k} /\ fresh' = fresh \union {k} /\ disturbed' = TRUE
  /\ UNCHANGED <<len, owners, now, rpc, rkey, rnow, hit, pc, start, progress, todo, heap, try, flags>>

Release(k) ==
  /\ k \in owners
  /\ owners' = owners \ {k}
  /\ UNCHANGED <<cache, now, reading, pruning>>

Tick ==
  /\ now < MaxNow
  /\ now' = now + 1
  /\ UNCHANGED <<cache, owners, reading, pruning>>

-----------------------------------------------------------------------------
(* prune: the totals, or pruning by age, which counts as it goes.          *)

\* A policy may name an age or not.
StartPrune ==
  /\ pc \in {"idle", "done"}
  /\ pc' = "count" \/ (pc' = "age" /\ UnusedAge # Missing)
  /\ start' = now
  /\ before' = NoStats /\ after' = NoStats /\ busySlots' = {}
  /\ todo' = Keys /\ gone' = {} /\ fresh' = {} /\ heap' = {} /\ cand' = Missing /\ mode' = "age"
  /\ advanced' = FALSE /\ changed' = FALSE /\ retried' = FALSE /\ disturbed' = FALSE
  /\ UNCHANGED <<cache, owners, now, reading>>

\* The scan's next name.  An object that has gone was not listed, or its
\* metadata is an error that ends the prune.
Skip(k) ==
  /\ pc \in {"count", "age", "scan"} /\ k \in todo /\ mtime[k] = Missing
  /\ \/ todo' = todo \ {k} /\ UNCHANGED pc
     \/ k \in gone /\ pc' = "idle" /\ todo' = {}
  /\ UNCHANGED <<cache, owners, now, reading, start, progress, gone, heap, fresh, try, flags, disturbed>>

Add(stats, k) == [entries |-> stats.entries + 1, bytes |-> stats.bytes + len[k]]

Monus(a, b) == IF a < b THEN 0 ELSE a - b

Subtract(stats, l) == [entries |-> Monus(stats.entries, 1), bytes |-> Monus(stats.bytes, l)]

\* access_time, or else the object's own time.
LastUsed(k) ==
  IF marker[k] = Missing THEN mtime[k]
  ELSE IF marker[k] < start THEN marker[k] ELSE start

Candidate(k) == [key |-> k, used |-> LastUsed(k), len |-> len[k]]

Count(k) ==
  /\ pc = "count" /\ k \in todo \intersect Present
  /\ todo' = todo \ {k}
  /\ before' = Add(before, k) /\ after' = Add(after, k)
  /\ UNCHANGED <<cache, owners, now, reading, pc, start, busySlots, gone, heap, fresh, try, flags,
                 disturbed>>

\* prune_by_age: an entry that is old enough is tried at once.
Aged(k) == Monus(start, LastUsed(k)) >= UnusedAge

CountOrTry(k) ==
  /\ pc = "age" /\ k \in todo \intersect Present
  /\ todo' = todo \ {k}
  /\ before' = Add(before, k) /\ after' = Add(after, k)
  /\ IF SlotOf[k] \notin busySlots /\ Aged(k)
       THEN pc' = "lock" /\ cand' = Candidate(k)
       ELSE UNCHANGED <<pc, cand>>
  /\ UNCHANGED <<cache, owners, now, reading, start, busySlots, gone, heap, fresh, mode, flags,
                 disturbed>>

-----------------------------------------------------------------------------
(* prune: down to the low watermark, oldest first, a batch at a time.      *)

\* low_watermark, in its overflow-free form.
LowWatermark(high) == (high \div 5) * 4 + ((high % 5) * 4) \div 5

ByteTriggered == before.bytes > ByteLimit
EntryTriggered == EntryLimit # Missing /\ before.entries > EntryLimit
OverTarget ==
  \/ ByteTriggered /\ after.bytes > LowWatermark(ByteLimit)
  \/ EntryTriggered /\ after.entries > LowWatermark(EntryLimit)

\* The end of the first scan, and the head of the loop.
Decide ==
  /\ (pc \in {"count", "age"} /\ todo = {}) \/ pc = "loop"
  /\ IF OverTarget
       THEN /\ pc' = "scan" /\ todo' = Keys
            /\ gone' = {} /\ fresh' = {} /\ heap' = {} /\ mode' = "batch"
            /\ advanced' = FALSE /\ changed' = FALSE /\ UNCHANGED retried
       ELSE pc' = "done" /\ UNCHANGED <<scan, mode, flags>>
  /\ UNCHANGED <<cache, owners, now, reading, start, progress, cand, disturbed>>

Before(c, d) ==
  \/ c.used < d.used
  \/ c.used = d.used /\ c.key < d.key
  \/ c.used = d.used /\ c.key = d.key /\ c.len < d.len

Newest(cs) == CHOOSE c \in cs : \A d \in cs \ {c} : Before(d, c)
Oldest(cs) == CHOOSE c \in cs : \A d \in cs \ {c} : Before(c, d)

\* Mutants: the heap grows without bound; a full heap takes nothing any more.
RetainOldest_Unbounded(cs, c) == cs \union {c}
RetainOldest_Full(cs, c) == IF Cardinality(cs) < BatchSize THEN cs \union {c} ELSE cs

\* retain_oldest: a bounded max-heap.
RetainOldest(cs, c) ==
  IF Cardinality(cs) < BatchSize THEN cs \union {c}
  ELSE IF Before(c, Newest(cs)) THEN (cs \ {Newest(cs)}) \union {c}
  ELSE cs

Consider(k) ==
  /\ pc = "scan" /\ k \in todo \intersect Present
  /\ todo' = todo \ {k}
  /\ heap' = IF SlotOf[k] \in busySlots THEN heap ELSE RetainOldest(heap, Candidate(k))
  /\ UNCHANGED <<cache, owners, now, reading, pc, start, progress, gone, fresh, try, flags, disturbed>>

EndScan ==
  /\ pc = "scan" /\ todo = {}
  /\ pc' = IF heap = {} THEN "done" ELSE "batch"
  /\ UNCHANGED <<cache, owners, now, reading, start, progress, scan, try, flags, disturbed>>

\* The next candidate of the sorted batch, or the end of the round.
NextCandidate ==
  /\ pc = "batch" /\ heap # {} /\ OverTarget
  /\ LET c == Oldest(heap) IN
       /\ heap' = heap \ {c}
       /\ IF SlotOf[c.key] \in busySlots
            THEN UNCHANGED <<pc, cand>>
            ELSE pc' = "lock" /\ cand' = c
  /\ UNCHANGED <<cache, owners, now, reading, start, progress, todo, gone, fresh, mode, flags,
                 disturbed>>

\* Mutant: a round that removed something is the last one.
EndRound_Once ==
  /\ pc = "batch" /\ (heap = {} \/ ~OverTarget)
  /\ pc' = "done" /\ UNCHANGED retried
  /\ UNCHANGED <<cache, owners, now, reading, start, progress, scan, try, advanced, changed, disturbed>>

EndRound ==
  /\ pc = "batch"
  /\ \/ ~OverTarget /\ heap # {} /\ pc' = "done" /\ UNCHANGED retried
     \/ /\ heap = {}
        /\ \/ advanced /\ retried' = FALSE /\ pc' = "loop"
           \/ ~advanced /\ changed /\ ~retried /\ retried' = TRUE /\ pc' = "loop"
           \/ ~advanced /\ ~(changed /\ ~retried) /\ pc' = "done" /\ UNCHANGED retried
  /\ UNCHANGED <<cache, owners, now, reading, start, progress, scan, try, advanced, changed, disturbed>>

-----------------------------------------------------------------------------
(* try_remove_prune_candidate, from both loops.                            *)

Back == IF mode = "age" THEN "age" ELSE "batch"

\* Mutant: a busy slot counts as progress every time it is met.
LockCandidate_Forgets ==
  /\ pc = "lock"
  /\ IF Occupied(cand.key)
       THEN pc' = Back /\ advanced' = (mode = "batch" \/ advanced) /\ cand' = Missing
       ELSE pc' = "recheck" /\ UNCHANGED <<advanced, cand>>
  /\ UNCHANGED <<cache, owners, now, reading, start, progress, scan, mode, changed, retried, disturbed>>

\* Mutant: the candidate's slot is not taken.
LockCandidate_Skipped ==
  /\ pc = "lock" /\ pc' = "recheck"
  /\ UNCHANGED <<cache, owners, now, reading, start, progress, scan, try, flags, disturbed>>

\* try_entry_lock, and record_busy if another process has the slot.
LockCandidate ==
  /\ pc = "lock"
  /\ IF Occupied(cand.key)
       THEN /\ pc' = Back /\ cand' = Missing
            /\ busySlots' = busySlots \union {SlotOf[cand.key]}
            /\ advanced' = (advanced \/ (mode = "batch" /\ SlotOf[cand.key] \notin busySlots))
       ELSE pc' = "recheck" /\ UNCHANGED <<busySlots, advanced, cand>>
  /\ UNCHANGED <<cache, owners, now, reading, start, before, after, scan, mode, changed, retried,
                 disturbed>>

GiveUp ==
  /\ pc' = Back /\ cand' = Missing
  /\ changed' = (changed \/ mode = "batch")

\* Mutant: the candidate is not looked at again under its slot.
Recheck_Skipped ==
  /\ pc = "recheck" /\ pc' = "remove"
  /\ UNCHANGED <<cache, owners, now, reading, start, progress, scan, try, flags, disturbed>>

\* current_candidate_path: the entry must be the one the scan saw.
Recheck ==
  /\ pc = "recheck"
  /\ IF cand.key \in Present /\ Candidate(cand.key) = cand
       THEN pc' = "remove" /\ UNCHANGED <<cand, changed>>
       ELSE GiveUp
  /\ UNCHANGED <<cache, owners, now, reading, start, progress, scan, mode, advanced, retried, disturbed>>

\* remove_object: the name, then what belongs to it.
RemoveObject ==
  /\ pc = "remove"
  /\ IF mtime[cand.key] = Missing
       THEN GiveUp /\ UNCHANGED <<mtime, gone>>
       ELSE /\ pc' = "clear"
            /\ mtime' = [mtime EXCEPT ![cand.key] = Missing]
            /\ gone' = gone \union {cand.key}
            /\ UNCHANGED <<cand, changed>>
  /\ UNCHANGED <<len, marker, owners, now, reading, start, progress, todo, heap, fresh, mode,
                 advanced, retried, disturbed>>

\* clear_auxiliary, record_removed, and the slot is released.
ClearAndCount ==
  /\ pc = "clear"
  /\ UnlinkMarker(cand.key)
  /\ after' = Subtract(after, cand.len)
  /\ pc' = Back /\ cand' = Missing
  /\ advanced' = (advanced \/ mode = "batch")
  /\ UNCHANGED <<mtime, len, owners, now, rpc, rkey, rnow, hit, start, before, busySlots, scan, mode,
                 changed, retried, disturbed>>

-----------------------------------------------------------------------------
PruneStep ==
  \/ \E k \in Keys : Skip(k) \/ Count(k) \/ CountOrTry(k) \/ Consider(k)
  \/ Decide \/ EndScan \/ NextCandidate \/ EndRound
  \/ LockCandidate \/ Recheck \/ RemoveObject \/ ClearAndCount

ReaderStep(r) ==
  (\E k \in Keys : Hit(r, k)) \/ StatMarker(r) \/ OpenMarker(r) \/ TouchMarker(r)

PopulationStep(k) ==
  Own(k) \/ (\E l \in Lengths : PublishObject(k, l)) \/ RemoveCorrupt(k) \/ Release(k)

Next ==
  \/ StartPrune \/ PruneStep \/ Tick
  \/ \E r \in Readers : ReaderStep(r)
  \/ \E k \in Populated : PopulationStep(k)

Spec == Init /\ [][Next]_vars

\* The caller lets prune run; nothing is assumed of anybody else.
FairSpec == Spec /\ WF_vars(PruneStep)

-----------------------------------------------------------------------------
(* Properties.                                                             *)

Stats == [entries : Nat, bytes : Nat]
Times == Nat \union {Missing}

TypeOK ==
  /\ mtime \in [Keys -> Times] /\ len \in [Keys -> Lengths] /\ marker \in [Keys -> Times]
  /\ owners \subseteq Keys /\ now \in StartTime..MaxNow
  /\ \A j, k \in owners : SlotOf[j] = SlotOf[k] => j = k
  /\ rpc \in [Readers -> {"idle", "stat", "open", "touch"}]
  /\ rkey \in [Readers -> Keys] /\ rnow \in [Readers -> Nat] /\ linked \in [Readers -> BOOLEAN]
  /\ pc \in {"idle", "count", "age", "loop", "scan", "batch", "lock", "done"} \union PruneHolds
  /\ start \in 0..now /\ before \in Stats /\ after \in Stats /\ busySlots \subseteq Slots
  /\ todo \subseteq Keys /\ gone \subseteq Keys /\ fresh \subseteq Keys
  /\ heap \subseteq [key : Keys, used : Nat, len : Lengths] /\ Cardinality(heap) <= BatchSize
  /\ pc \in PruneHolds \union {"lock"} => cand \in [key : Keys, used : Nat, len : Lengths]
  /\ mode \in {"age", "batch"}
  /\ advanced \in BOOLEAN /\ changed \in BOOLEAN /\ retried \in BOOLEAN
  /\ hit \in [Keys -> Nat] /\ disturbed \in BOOLEAN

Decided == pc = "recheck" /\ pc' = "remove"
AgeOut == Decided /\ mode = "age"

\* No object is removed by a prune while a population holds its slot, so a
\* publisher can reopen what it has just published.
OwnedUntouched ==
  [][\A k \in Present :
       pc = "remove" /\ pc' = "clear" /\ mtime'[k] = Missing =>
         \A j \in owners : SlotOf[j] # SlotOf[k]]_vars

\* The last recorded hit protects an entry from pruning by age, up to the
\* debouncing interval, if it was recorded before the entry was rechecked.
HitsProtect ==
  [][AgeOut /\ hit[cand.key] # 0 =>
       start - hit[cand.key] >= UnusedAge - AccessInterval]_vars

\* Pruning by age never takes an object that has not even existed that long.
AgedOutWasOldEnough == [][AgeOut => start - mtime[cand.key] >= UnusedAge]_vars

\* Capacity pruning takes the least recently used entry first: everything
\* older that stays was touched meanwhile or is in a busy slot.
OldestFirst ==
  [][Decided /\ mode = "batch" =>
       \A k \in Present \ fresh :
         LastUsed(k) < cand.used => SlotOf[k] \in busySlots]_vars

\* A completed prune reached its target, unless populations, busy slots or
\* entries that kept changing prevented it, and its report is what is left.
CapacityReached ==
  pc = "done" /\ ~disturbed =>
    /\ after.entries = Cardinality(Present)
    /\ after.bytes = MapThenSumSet(LAMBDA k : len[k], Present)
    /\ OverTarget => busySlots # {} \/ (changed /\ retried)

\* Every prune returns, whatever readers and populations do.
PruneReturns == pc \notin {"idle", "done"} ~> pc \in {"idle", "done"}

=============================================================================
