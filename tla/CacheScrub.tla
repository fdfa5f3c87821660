----------------------------- MODULE CacheScrub -----------------------------
(***************************************************************************)
(* Cache::scrub running beside populations and readers.  The population    *)
(* machine is CachePopulation as it stands; this module adds the access    *)
(* markers, the age of staged files and the scrub pass, which visits       *)
(* objects, staging directories, negative records and access markers and   *)
(* takes the slot of every entry it changes.                               *)
(***************************************************************************)
EXTENDS CachePopulation

CONSTANTS
  StaleAge,   \* STALE_TEMPORARY_AGE, in ticks
  MaxAborts   \* bound: scrub passes that fail on an I/O error or are killed

ASSUME ScrubAssumption == StaleAge \in Nat \ {0} /\ MaxAborts \in Nat

VARIABLES
  markers,    \* keys with an access marker file
  tempAt,     \* [Procs -> time]: modification time of the staged file
  oldTemps,   \* [Keys -> SUBSET time]: dead writers' files in tmp/<key>.tmp
  gc,         \* the keeper that holds gc.lock, or NoProc
  phase,      \* [Keepers -> what the pass is visiting]
  mpc,        \* [Keepers -> program point within the visit]
  todo,       \* [Keepers -> keys the directory scan has not returned yet]
  mkey,       \* [Keepers -> the entry being visited]
  scanTime,   \* [Keepers -> SystemTime::now() of the staging scan]
  result,     \* [Keepers -> how the last call ended]
  aborts      \* history: failed or killed passes

files == <<markers, tempAt, oldTemps>>
pass == <<gc, phase, mpc, todo, mkey, scanTime, result, aborts>>
scrubVars == <<vars, files, pass>>

Phases == <<"objects", "temporaries", "negatives", "markers">>
PhaseNames == {Phases[i] : i \in 1..4}
Holding == {"examine", "remove", "clear", "release"}

ScrubInit ==
  /\ Init
  /\ markers = {}
  /\ tempAt = [p \in Procs |-> 0]
  /\ oldTemps = [k \in Keys |-> {}]
  /\ gc = NoProc
  /\ phase = [m \in Keepers |-> "objects"]
  /\ mpc = [m \in Keepers |-> "idle"]
  /\ todo = [m \in Keepers |-> {}]
  /\ mkey \in [Keepers -> Keys]
  /\ scanTime = [m \in Keepers |-> 0]
  /\ result = [m \in Keepers |-> "none"]
  /\ aborts = 0

-----------------------------------------------------------------------------
(* Everybody else.                                                         *)

\* A step of CachePopulation, and what it does to the files it does not
\* mention: a write sets the time of the staged file, a dead writer's file
\* stays where it was, clear_auxiliary unlinks the access marker, if it can.
PopulationStep ==
  LET dead == {p \in Procs : staged[p] # Missing /\ pc'[p] = "idle"} IN
  /\ Next
  /\ dead # {} => now + StaleAge <= MaxNow   \* bound: every leftover gets old
  /\ tempAt' = [p \in Procs |->
       IF staged'[p] = Missing THEN 0
       ELSE IF staged[p] # Missing /\ staged'[p].content = staged[p].content THEN tempAt[p]
       ELSE now]
  /\ oldTemps' = [k \in Keys |-> oldTemps[k] \union {tempAt[p] : p \in {q \in dead : key[q] = k}}]
  /\ \/ UNCHANGED markers
     \/ \E p \in Procs :
          /\ pc[p] \in {"clear", "clear_only"} /\ pc'[p] # pc[p]
          /\ markers' = markers \ {key[p]}
  /\ UNCHANGED pass

\* record_access: the marker is there afterwards, with or without an object.
RecordAccess(k) ==
  /\ markers' = markers \union {k}
  /\ UNCHANGED <<vars, tempAt, oldTemps, pass>>

-----------------------------------------------------------------------------
(* The pass.                                                               *)

MAt(m, where) == mpc[m] = where
MGoTo(m, where) == mpc' = [mpc EXCEPT ![m] = where]

\* prepare, then try_maintenance_lock.
StartScrub(m) ==
  /\ MAt(m, "idle")
  /\ IF gc = NoProc
       THEN /\ gc' = m
            /\ MGoTo(m, "scan")
            /\ phase' = [phase EXCEPT ![m] = "objects"]
            /\ todo' = [todo EXCEPT ![m] = Keys]
            /\ result' = [result EXCEPT ![m] = "none"]
       ELSE /\ result' = [result EXCEPT ![m] = "busy"]
            /\ UNCHANGED <<gc, mpc, phase, todo>>
  /\ UNCHANGED <<vars, files, mkey, scanTime, aborts>>

\* What a scan of the phase's directories would return.
Listed(m) ==
  CASE phase[m] = "objects"     -> {k \in Keys : object[k] # Missing}
    [] phase[m] = "temporaries" -> stagingDirs
    [] phase[m] = "negatives"   -> {k \in Keys : negative[k] # Missing}
    [] phase[m] = "markers"     -> markers

\* The next directory entry.  Staging directories are inspected and objects of
\* access markers looked for before the slot is taken.
NextEntry(m, k) ==
  /\ MAt(m, "scan") /\ k \in todo[m]
  /\ todo' = [todo EXCEPT ![m] = @ \ {k}]
  /\ IF k \in Listed(m)
       THEN /\ mkey' = [mkey EXCEPT ![m] = k]
            /\ MGoTo(m, IF phase[m] \in {"objects", "negatives"} THEN "lock" ELSE "inspect")
       ELSE UNCHANGED <<mkey, mpc>>
  /\ UNCHANGED <<vars, files, gc, phase, scanTime, result, aborts>>

\* The end of a directory scan; the staging scan reads the clock once.
NextPhase(m) ==
  /\ MAt(m, "scan") /\ todo[m] = {}
  /\ \/ \E i \in 1..3 :
          /\ phase[m] = Phases[i]
          /\ phase' = [phase EXCEPT ![m] = Phases[i + 1]]
          /\ todo' = [todo EXCEPT ![m] = Keys]
          /\ scanTime' = [scanTime EXCEPT ![m] = IF i = 1 THEN now ELSE 0]
          /\ UNCHANGED <<gc, mpc, result>>
     \/ /\ phase[m] = "markers"
        /\ gc' = NoProc /\ MGoTo(m, "idle")
        /\ phase' = [phase EXCEPT ![m] = "objects"]
        /\ result' = [result EXCEPT ![m] = "completed"]
        /\ UNCHANGED <<todo, scanTime>>
  /\ UNCHANGED <<vars, files, mkey, aborts>>

\* An error leaves the pass and drops both locks.
Leave(m, how) ==
  /\ gc' = NoProc
  /\ holder' = [s \in Slots |-> IF holder[s] = m THEN NoProc ELSE holder[s]]
  /\ MGoTo(m, "idle")
  /\ phase' = [phase EXCEPT ![m] = "objects"]
  /\ todo' = [todo EXCEPT ![m] = {}]
  /\ scanTime' = [scanTime EXCEPT ![m] = 0]
  /\ result' = [result EXCEPT ![m] = how]

\* symlink_metadata of a staging directory that has gone is an error; an
\* access marker whose object is there is left alone.
InspectEntry(m) ==
  /\ MAt(m, "inspect")
  /\ \/ /\ phase[m] = "temporaries" /\ mkey[m] \notin stagingDirs
        /\ Leave(m, "vanished")
     \/ /\ phase[m] = "temporaries" /\ mkey[m] \in stagingDirs
        /\ MGoTo(m, "lock") /\ UNCHANGED <<holder, gc, phase, todo, scanTime, result>>
     \/ /\ phase[m] = "markers"
        /\ MGoTo(m, IF object[mkey[m]] = Missing THEN "lock" ELSE "scan")
        /\ UNCHANGED <<holder, gc, phase, todo, scanTime, result>>
  /\ UNCHANGED <<disk, temps, pc, calls, now, history, environment, files, mkey, aborts>>

\* Mutant: a busy slot does not stop the scrub.
LockEntry_Ignored(m) ==
  /\ MAt(m, "lock")
  /\ MGoTo(m, "examine")
  /\ UNCHANGED <<vars, files, gc, phase, todo, mkey, scanTime, result, aborts>>

\* try_entry_lock; an entry that is being populated is skipped.
LockEntry(m) ==
  /\ MAt(m, "lock")
  /\ IF holder[SlotOf[mkey[m]]] = NoProc
       THEN holder' = [holder EXCEPT ![SlotOf[mkey[m]]] = m] /\ MGoTo(m, "examine")
       ELSE MGoTo(m, "scan") /\ UNCHANGED holder
  /\ UNCHANGED <<disk, temps, pc, calls, now, history, environment, files,
                 gc, phase, todo, mkey, scanTime, result, aborts>>

\* Mutant: the evidence seen before the lock is enough.
Doomed_Unchecked(m) ==
  CASE phase[m] = "objects"     -> IsCorrupt(mkey[m])
    [] phase[m] = "temporaries" -> TRUE
    [] phase[m] = "negatives"   -> ~Live(negative[mkey[m]])
    [] phase[m] = "markers"     -> TRUE

\* What the pass removes, decided under the slot lock: an object that fails
\* verification, a record that is not live, a marker without an object.
Doomed(m) ==
  CASE phase[m] = "objects"     -> IsCorrupt(mkey[m])
    [] phase[m] = "temporaries" -> TRUE
    [] phase[m] = "negatives"   -> ~Live(negative[mkey[m]])
    [] phase[m] = "markers"     -> object[mkey[m]] = Missing

\* Mutant: every staged file is taken for a fresh one.
Stale_Never(m, t) == FALSE

\* A file dated after the scan's reading of the clock counts as stale.
Stale(m, t) == t > scanTime[m] \/ scanTime[m] - t >= StaleAge

\* Files of a staging directory: those of dead writers and, were the slot not
\* held, those of the living.
Sweep(m) ==
  LET k == mkey[m] IN
  /\ oldTemps' = [oldTemps EXCEPT ![k] = {t \in @ : ~Stale(m, t)}]
  /\ leftovers' = IF oldTemps'[k] = {} THEN leftovers \ {k} ELSE leftovers
  /\ staged' = [p \in Procs |-> IF staged[p] # Missing /\ key[p] = k /\ Stale(m, tempAt[p])
                                  THEN Missing ELSE staged[p]]

\* Mutant: the slot is given back once the entry has been examined.
Examine_ReleasesEarly(m) ==
  /\ MAt(m, "examine")
  /\ MGoTo(m, IF Doomed(m) THEN "remove" ELSE "release")
  /\ holder' = [holder EXCEPT ![SlotOf[mkey[m]]] = NoProc]
  /\ UNCHANGED <<disk, temps, pc, calls, now, history, environment, files,
                 gc, phase, todo, mkey, scanTime, result, aborts>>

Examine(m) ==
  /\ MAt(m, "examine")
  /\ \/ /\ phase[m] = "temporaries" /\ mkey[m] \notin stagingDirs
        /\ Leave(m, "vanished")
        /\ UNCHANGED <<staged, leftovers, oldTemps>>
     \/ /\ phase[m] = "temporaries" /\ mkey[m] \in stagingDirs
        /\ Sweep(m) /\ MGoTo(m, "remove")
        /\ UNCHANGED <<holder, gc, phase, todo, scanTime, result>>
     \/ /\ phase[m] # "temporaries"
        /\ MGoTo(m, IF Doomed(m) THEN "remove" ELSE "release")
        /\ UNCHANGED <<staged, leftovers, oldTemps, holder, gc, phase, todo, scanTime, result>>
  /\ UNCHANGED <<disk, stagingDirs, strays, pc, calls, now, history, environment,
                 markers, tempAt, mkey, aborts>>

\* remove_object does not synchronize the directory.
RemoveEntry(m) ==
  LET k == mkey[m] IN
  /\ MAt(m, "remove")
  /\ \/ /\ phase[m] = "objects"
        /\ MGoTo(m, IF object[k] = Missing THEN "release" ELSE "clear")
        /\ object' = [object EXCEPT ![k] = Missing]
        /\ onDisk' = [onDisk EXCEPT ![k] = @ \union {Missing}]
        /\ acked' = acked \ {k}
        /\ UNCHANGED <<negative, negOnDisk, stagingDirs, markers>>
     \/ /\ phase[m] = "temporaries" /\ MGoTo(m, "release")
        /\ stagingDirs' = IF k \in leftovers \union {key[p] : p \in {q \in Procs : staged[q] # Missing}}
                            THEN stagingDirs ELSE stagingDirs \ {k}
        /\ UNCHANGED <<disk, acked, markers>>
     \/ /\ phase[m] = "negatives" /\ MGoTo(m, "release")
        /\ RemoveNegative(k)
        /\ UNCHANGED <<object, onDisk, stagingDirs, acked, markers>>
     \/ /\ phase[m] = "markers" /\ MGoTo(m, "release")
        /\ markers' = markers \ {k}
        /\ UNCHANGED <<disk, stagingDirs, acked>>
  /\ UNCHANGED <<staged, leftovers, strays, holder, pc, calls, now, promised, killed,
                 environment, tempAt, oldTemps, gc, phase, todo, mkey, scanTime, result, aborts>>

\* clear_auxiliary after remove_object.
ScrubAuxiliary(m) ==
  /\ MAt(m, "clear")
  /\ MGoTo(m, "release")
  /\ markers' = markers \ {mkey[m]} \/ UNCHANGED markers
  /\ RemoveNegative(mkey[m]) \/ UNCHANGED <<negative, negOnDisk>>
  /\ UNCHANGED <<object, onDisk, temps, holder, pc, calls, now, history, environment,
                 tempAt, oldTemps, gc, phase, todo, mkey, scanTime, result, aborts>>

ReleaseEntry(m) ==
  /\ MAt(m, "release")
  /\ MGoTo(m, "scan")
  /\ holder' = [holder EXCEPT ![SlotOf[mkey[m]]] = NoProc]
  /\ UNCHANGED <<disk, temps, pc, calls, now, history, environment, files,
                 gc, phase, todo, mkey, scanTime, result, aborts>>

\* An I/O error of any call of the pass, or the death of its process.
AbortScrub(m) ==
  /\ ~MAt(m, "idle") /\ aborts < MaxAborts
  /\ Leave(m, "error")
  /\ aborts' = aborts + 1
  /\ UNCHANGED <<disk, temps, pc, calls, now, history, environment, files, mkey>>

ScrubStep(m) ==
  \/ StartScrub(m) \/ (\E k \in Keys : NextEntry(m, k)) \/ NextPhase(m)
  \/ InspectEntry(m) \/ LockEntry(m) \/ Examine(m) \/ RemoveEntry(m)
  \/ ScrubAuxiliary(m) \/ ReleaseEntry(m)

ScrubNext ==
  \/ PopulationStep
  \/ \E k \in Keys : RecordAccess(k)
  \/ \E m \in Keepers : ScrubStep(m) \/ AbortScrub(m)

ScrubSpec == ScrubInit /\ [][ScrubNext]_scrubVars

\* No call waits for another process and every capability is consumed;
\* scrubs are scheduled again and again, and time passes.
ScrubFairness ==
  /\ \A p \in Procs : WF_scrubVars(PopulationStep /\ Library(p)) /\ WF_scrubVars(PopulationStep /\ Consume(p))
  /\ \A m \in Keepers : WF_scrubVars(ScrubStep(m))
  /\ WF_scrubVars(PopulationStep /\ Tick)

FairScrubSpec == ScrubSpec /\ ScrubFairness
-----------------------------------------------------------------------------
(* Properties.                                                             *)

ScrubTypeOK ==
  /\ TypeOK
  /\ markers \subseteq Keys
  /\ tempAt \in [Procs -> 0..now]
  /\ oldTemps \in [Keys -> SUBSET (0..now)]
  /\ \A k \in Keys : k \in leftovers <=> oldTemps[k] # {}
  /\ gc \in Keepers \union {NoProc}
  /\ phase \in [Keepers -> PhaseNames]
  /\ mpc \in [Keepers -> {"idle", "scan", "inspect", "lock"} \union Holding]
  /\ todo \in [Keepers -> SUBSET Keys]
  /\ mkey \in [Keepers -> Keys]
  /\ scanTime \in [Keepers -> 0..now]
  /\ result \in [Keepers -> {"none", "busy", "completed", "error", "vanished"}]
  /\ aborts \in 0..MaxAborts

\* A writer never loses its staging file or the directory it is about to put
\* one in, however old they are: scrub leaves a held slot alone.
WriterKeepsStaging ==
  \A p \in Procs :
    /\ pc[p] \in Staging => key[p] \in stagingDirs
    /\ pc[p] \in Staging \ {"create"} => staged[p] # Missing

\* An access marker is unlinked only while its object is not there, so that
\* no hit recorded for a live object is forgotten by a scrub of orphans.
MarkersKept == [][\A k \in markers \ markers' : object[k] = Missing]_scrubVars

\* Once callers leave the cache alone, repeated scrubs reclaim what crashes
\* left behind: staged files, their directories, and stale failure records.
Quiet == \A p \in Procs : pc[p] = "idle"
CrashLeftoversReclaimed ==
  <>[]Quiet => <>[]( /\ leftovers = {} /\ stagingDirs = {}
                     /\ \A k \in Keys : negative[k] # Missing => Live(negative[k]) )

=============================================================================
