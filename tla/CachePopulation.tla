--------------------------- MODULE CachePopulation ---------------------------
(***************************************************************************)
(* The population state machine of gsym-cache (feature "manage"):          *)
(* try_begin_population, the Population and PopulationWriter capabilities  *)
(* and everything they do to the cache directory, one system call that     *)
(* other processes can observe per step.  The environment kills processes, *)
(* cuts the power, damages files and installs files without the lock.      *)
(***************************************************************************)
EXTENDS Integers, FiniteSets

CONSTANTS
  Procs,        \* callers: processes, or threads with handles of their own
  Keys,         \* build identifiers
  Slots,        \* lock files
  SlotOf,       \* the slot of a build identifier; collisions are allowed
  Garbage,      \* the contents of a file that fails verification
  Missing,      \* no such file
  NoProc,       \* nobody holds the slot
  Keepers,      \* maintenance calls, which take slots of their own accord
  MaxTTL,       \* MAX_FAILURE_TTL, in ticks
  Lifetimes,    \* failure lifetimes callers ask for, in ticks
  StartTime, MaxNow, \* bounds: first and last tick of the clock
  MaxLosses,    \* bound: power losses
  Rottable,     \* bound: keys whose object the medium may damage (once)
  Installable   \* bound: keys a lockless process may install, and withdraw (once)

\* A GSYM file that verifies is identified with the build identifier it holds.
Contents == Keys \union {Garbage}
StagedFile == [content : Contents, synced : BOOLEAN]

ASSUME PopulationAssumption ==
  /\ SlotOf \in [Keys -> Slots]
  /\ Garbage \notin Keys
  /\ Missing \notin Contents \union Nat \union StagedFile
  /\ NoProc \notin Procs \union Keepers
  /\ Keepers \intersect Procs = {}
  /\ MaxTTL \in Nat \ {0} /\ StartTime \in Nat /\ MaxNow \in Nat /\ MaxLosses \in Nat
  /\ Lifetimes \subseteq Nat
  /\ Rottable \subseteq Keys /\ Installable \subseteq Keys

\* Half-second clock: enough to tell a rounded expiration from an exact one.
TicksPerSecond == 2

VARIABLES
  object,       \* [Keys -> Contents or Missing]: objects/<key>.gsym
  onDisk,       \* what objects/<key>.gsym may be after a power loss
  negative,     \* [Keys -> time or Missing]: expiration in the .neg file
  negOnDisk,    \* what the .neg file may be after a power loss
  staged,       \* [Procs -> open NamedTempFile or Missing]
  stagingDirs,  \* keys with a directory tmp/<key>.tmp
  leftovers,    \* keys whose staging directory holds a dead writer's file
  strays,       \* keys with a dead recorder's temporary in the .neg shard
  holder,       \* [Slots -> Procs, Keepers or NoProc]: flock on the slot's file
  pc, key, resume, expires,   \* the calls in progress, per process
  now,          \* the clock, in ticks
  acked,        \* history: keys reported as Published and not removed since
  promised,     \* history: expiration of the last failure reported recorded
  killed,       \* history: keys whose population a crash cut short
  rotted, installed, withdrawn, losses \* history: what the environment did

disk == <<object, onDisk, negative, negOnDisk>>
temps == <<staged, stagingDirs, leftovers, strays>>
calls == <<key, resume, expires>>
history == <<acked, promised, killed>>
environment == <<rotted, installed, withdrawn, losses>>
vars == <<disk, temps, holder, pc, calls, now, history, environment>>

\* Program points, named after the call that comes next.
Unlocked == {"idle", "inspect", "failure", "lock"}
Removing == {"unlink", "clear", "clear_only", "sync_removed"}
Deciding == Removing \union {"recheck", "refailure"}
Staging == {"create", "writing", "sync_staged", "rename", "winner"}
Leaving == {"sync_published", "reopen", "drop_temp", "rmdir"}
Recording == {"record", "record_rename", "record_sync"}
Locked == Deciding \union {"acquired", "mkdir"} \union Staging
            \union Leaving \union Recording \union {"unlock"}
\* The program points at which p is a Population or a PopulationWriter.
Populating == {"acquired", "mkdir"} \union Staging \union {"record", "record_rename"}

Slot(p) == SlotOf[key[p]]

-----------------------------------------------------------------------------
(* The negative record and its clock.  A malformed record is one that has  *)
(* expired: failure_record returns Stale for both.                         *)

\* failure_expiration: the lifetime is added to the clock and rounded up.
Expiration(ttl) ==
  ((now + ttl + TicksPerSecond - 1) \div TicksPerSecond) * TicksPerSecond

ValidLifetime(ttl) == ttl # 0 /\ ttl <= MaxTTL

\* Mutant: the tolerance for rounded expirations is missing.
Live_NoTolerance(e) == e # Missing /\ e > now /\ e - now < MaxTTL

\* failure_record returns Cached for a record that expires at e.
Live(e) == e # Missing /\ e > now /\ e - now < MaxTTL + TicksPerSecond

\* lookup_path and verify_file on the opened descriptor.
IsValid(k) == object[k] = k
IsCorrupt(k) == object[k] \notin {k, Missing}

-----------------------------------------------------------------------------
Init ==
  /\ object = [k \in Keys |-> Missing]
  /\ onDisk = [k \in Keys |-> {Missing}]
  /\ negative = [k \in Keys |-> Missing]
  /\ negOnDisk = [k \in Keys |-> {Missing}]
  /\ staged = [p \in Procs |-> Missing]
  /\ stagingDirs = {} /\ leftovers = {} /\ strays = {}
  /\ holder = [s \in Slots |-> NoProc]
  /\ pc = [p \in Procs |-> "idle"]
  /\ key \in [Procs -> Keys]
  /\ resume = [p \in Procs |-> "unlock"]
  /\ expires = [p \in Procs |-> 0]
  /\ now = StartTime
  /\ acked = {} /\ promised = [k \in Keys |-> 0] /\ killed = {}
  /\ rotted = {} /\ installed = {} /\ withdrawn = {} /\ losses = 0

At(p, from) == pc[p] = from
GoTo(p, to) == pc' = [pc EXCEPT ![p] = to]

-----------------------------------------------------------------------------
(* try_begin_population before the lock.  cached_failure reads the same two *)
(* files, changes nothing and answers by Live.                             *)

Begin(p, k) ==
  /\ At(p, "idle")
  /\ GoTo(p, "inspect")
  /\ key' = [key EXCEPT ![p] = k]
  /\ UNCHANGED <<disk, temps, holder, resume, expires, now, history, environment>>

Inspect(p) ==
  /\ At(p, "inspect")
  /\ \/ IsValid(key[p]) /\ GoTo(p, "idle")
     \/ IsCorrupt(key[p]) /\ GoTo(p, "lock")
     \/ object[key[p]] = Missing /\ GoTo(p, "failure")
  /\ UNCHANGED <<disk, temps, holder, calls, now, history, environment>>

ReadFailure(p) ==
  /\ At(p, "failure")
  /\ GoTo(p, IF Live(negative[key[p]]) THEN "idle" ELSE "lock")
  /\ UNCHANGED <<disk, temps, holder, calls, now, history, environment>>

\* Mutants: WOULDBLOCK is taken for success; the lock call waits.
TryLock_IgnoresBusy(p) ==
  /\ At(p, "lock")
  /\ holder' = [holder EXCEPT ![Slot(p)] = p]
  /\ GoTo(p, "recheck")
  /\ UNCHANGED <<disk, temps, calls, now, history, environment>>
TryLock_Waits(p) == holder[Slot(p)] = NoProc /\ TryLock_IgnoresBusy(p)

TryLock(p) ==
  /\ At(p, "lock")
  /\ IF holder[Slot(p)] = NoProc
       THEN /\ holder' = [holder EXCEPT ![Slot(p)] = p]
            /\ GoTo(p, "recheck")
       ELSE GoTo(p, "idle") /\ UNCHANGED holder
  /\ UNCHANGED <<disk, temps, calls, now, history, environment>>

-----------------------------------------------------------------------------
(* try_begin_population under the lock.  A return drops the lock.          *)

\* Mutant: the entry is not looked at again under the lock.
Recheck_Skipped(p) ==
  /\ At(p, "recheck")
  /\ GoTo(p, "refailure")
  /\ UNCHANGED <<disk, temps, holder, calls, now, history, environment>>

Recheck(p) ==
  /\ At(p, "recheck")
  /\ \/ IsValid(key[p]) /\ GoTo(p, "unlock") /\ UNCHANGED resume
     \/ /\ IsCorrupt(key[p]) /\ GoTo(p, "unlink")
        /\ resume' = [resume EXCEPT ![p] = "refailure"]
     \/ object[key[p]] = Missing /\ GoTo(p, "refailure") /\ UNCHANGED resume
  /\ UNCHANGED <<disk, temps, holder, key, expires, now, history, environment>>

\* remove_corrupt_entry, in its three steps: unlink the path, clear what
\* belongs to it (errors ignored), make the removal durable if there was one.
UnlinkCorrupt(p) ==
  /\ At(p, "unlink")
  /\ GoTo(p, IF object[key[p]] = Missing THEN "clear_only" ELSE "clear")
  /\ object' = [object EXCEPT ![key[p]] = Missing]
  /\ onDisk' = [onDisk EXCEPT ![key[p]] = @ \union {Missing}]
  /\ acked' = acked \ {key[p]}
  /\ UNCHANGED <<negative, negOnDisk, temps, holder, calls, now, promised,
                 killed, environment>>

\* clear_failure; the unlink is not synchronized.
RemoveNegative(k) ==
  /\ negative' = [negative EXCEPT ![k] = Missing]
  /\ negOnDisk' = [negOnDisk EXCEPT ![k] = @ \union {Missing}]

ClearAuxiliary(p) ==
  /\ \/ At(p, "clear") /\ GoTo(p, "sync_removed") /\ UNCHANGED resume
     \/ /\ At(p, "clear_only") /\ GoTo(p, resume[p])
        /\ resume' = [resume EXCEPT ![p] = "unlock"]
  /\ RemoveNegative(key[p]) \/ UNCHANGED <<negative, negOnDisk>>
  /\ UNCHANGED <<object, onDisk, temps, holder, key, expires, now, history,
                 environment>>

SyncRemoved(p) ==
  /\ At(p, "sync_removed")
  /\ GoTo(p, resume[p])
  /\ resume' = [resume EXCEPT ![p] = "unlock"]
  /\ onDisk' = [onDisk EXCEPT ![key[p]] = {object[key[p]]}]
  /\ UNCHANGED <<object, negative, negOnDisk, temps, holder, key, expires,
                 now, history, environment>>

RecheckFailure(p) ==
  /\ At(p, "refailure")
  /\ \/ /\ Live(negative[key[p]])
        /\ GoTo(p, "unlock")
        /\ UNCHANGED <<negative, negOnDisk>>
     \/ /\ ~Live(negative[key[p]])
        /\ GoTo(p, "acquired")
        /\ \/ negative[key[p]] # Missing /\ RemoveNegative(key[p])
           \/ UNCHANGED <<negative, negOnDisk>>
  /\ UNCHANGED <<object, onDisk, temps, holder, calls, now, history, environment>>

-----------------------------------------------------------------------------
(* The capabilities: what a caller may do with a Population or a writer.   *)

\* into_writer: the directory, then the temporary in it.
IntoWriter(p) ==
  /\ At(p, "acquired")
  /\ GoTo(p, "mkdir")
  /\ UNCHANGED <<disk, temps, holder, calls, now, history, environment>>

MakeStagingDir(p) ==
  /\ At(p, "mkdir")
  /\ GoTo(p, "create")
  /\ stagingDirs' = stagingDirs \union {key[p]}
  /\ UNCHANGED <<disk, staged, leftovers, strays, holder, calls, now,
                 history, environment>>

\* Mutant: a temporary that could not be created goes unnoticed.
CreateTemp_Unchecked(p) ==
  /\ At(p, "create")
  /\ GoTo(p, "writing")
  /\ UNCHANGED <<disk, temps, holder, calls, now, history, environment>>

CreateTemp(p) ==
  /\ At(p, "create")
  /\ GoTo(p, "writing")
  /\ staged' = [staged EXCEPT ![p] = [content |-> Garbage, synced |-> FALSE]]
  /\ UNCHANGED <<disk, stagingDirs, leftovers, strays, holder, calls, now,
                 history, environment>>

\* The caller streams any bytes; nothing of them is durable yet.
Write(p, c) ==
  /\ At(p, "writing")
  /\ staged[p].content # c
  /\ staged' = [staged EXCEPT ![p] = [content |-> c, synced |-> FALSE]]
  /\ UNCHANGED <<disk, stagingDirs, leftovers, strays, holder, pc, calls, now,
                 history, environment>>

\* publish up to set_read_only: a file that does not verify, or verifies for
\* another build identifier, is dropped with the writer.
Publish(p) ==
  /\ At(p, "writing")
  /\ IF staged[p].content = key[p]
       THEN GoTo(p, "sync_staged")
       ELSE GoTo(p, "drop_temp")
  /\ UNCHANGED <<disk, temps, holder, calls, now, history, environment>>

\* Mutant: the staged file is renamed without sync_all.
SyncStaged_Skipped(p) ==
  /\ At(p, "sync_staged")
  /\ GoTo(p, "rename")
  /\ UNCHANGED <<disk, temps, holder, calls, now, history, environment>>

SyncStaged(p) ==
  /\ At(p, "sync_staged")
  /\ GoTo(p, "rename")
  /\ staged' = [staged EXCEPT ![p] = [content |-> @.content, synced |-> TRUE]]
  /\ UNCHANGED <<disk, stagingDirs, leftovers, strays, holder, calls, now,
                 history, environment>>

\* persist_noclobber.  A name made durable before the data shows garbage.
Rename(p) ==
  /\ At(p, "rename")
  /\ IF object[key[p]] = Missing
       THEN /\ object' = [object EXCEPT ![key[p]] = staged[p].content]
            /\ onDisk' = [onDisk EXCEPT ![key[p]] =
                 @ \union {IF staged[p].synced THEN staged[p].content ELSE Garbage}]
            /\ staged' = [staged EXCEPT ![p] = Missing]
            /\ GoTo(p, "sync_published")
       ELSE GoTo(p, "winner") /\ UNCHANGED <<object, onDisk, staged>>
  /\ UNCHANGED <<negative, negOnDisk, stagingDirs, leftovers, strays, holder, calls, now,
                 history, environment>>

\* Mutant: the directory is not synchronized before success is reported.
SyncPublished_Skipped(p) ==
  /\ At(p, "sync_published")
  /\ GoTo(p, "reopen")
  /\ UNCHANGED <<disk, temps, holder, calls, now, history, environment>>

SyncPublished(p) ==
  /\ At(p, "sync_published")
  /\ GoTo(p, "reopen")
  /\ onDisk' = [onDisk EXCEPT ![key[p]] = {object[key[p]]}]
  /\ UNCHANGED <<object, negative, negOnDisk, temps, holder, calls, now, history, environment>>

\* The lookup that ends publish; acked remembers what it reported.
Reopen(p) ==
  /\ At(p, "reopen")
  /\ GoTo(p, "rmdir")
  /\ acked' = IF object[key[p]] # Missing THEN acked \union {key[p]} ELSE acked
  /\ UNCHANGED <<disk, temps, holder, calls, now, promised, killed, environment>>

\* Mutant: a winner is taken for corrupt without being verified.
InspectWinner_Unverified(p) ==
  /\ At(p, "winner")
  /\ \/ object[key[p]] = Missing /\ GoTo(p, "rename") /\ UNCHANGED resume
     \/ /\ object[key[p]] # Missing /\ GoTo(p, "unlink")
        /\ resume' = [resume EXCEPT ![p] = "rename"]
  /\ UNCHANGED <<disk, temps, holder, key, expires, now, history, environment>>

\* AlreadyExists: validate the winner, repair it or return it.
InspectWinner(p) ==
  /\ At(p, "winner")
  /\ \/ object[key[p]] = Missing /\ GoTo(p, "rename") /\ UNCHANGED resume
     \/ IsValid(key[p]) /\ GoTo(p, "drop_temp") /\ UNCHANGED resume
     \/ /\ IsCorrupt(key[p]) /\ GoTo(p, "unlink")
        /\ resume' = [resume EXCEPT ![p] = "rename"]
  /\ UNCHANGED <<disk, temps, holder, key, expires, now, history, environment>>

\* Dropping a Population, a writer, or recording a failure with either.
Abandon(p) ==
  /\ \/ At(p, "acquired") /\ GoTo(p, "unlock")
     \/ At(p, "writing") /\ GoTo(p, "drop_temp")
  /\ UNCHANGED <<disk, temps, holder, calls, now, history, environment>>

RecordFailure(p) ==
  /\ \/ At(p, "acquired") /\ GoTo(p, "record") /\ UNCHANGED resume
     \/ At(p, "writing") /\ GoTo(p, "drop_temp") /\ resume' = [resume EXCEPT ![p] = "record"]
  /\ UNCHANGED <<disk, temps, holder, key, expires, now, history, environment>>

\* Fields drop in their order: the temporary, the directory, the lock.
DropTemp(p) ==
  /\ At(p, "drop_temp")
  /\ GoTo(p, "rmdir")
  /\ staged' = [staged EXCEPT ![p] = Missing]
  /\ UNCHANGED <<disk, stagingDirs, leftovers, strays, holder, calls, now,
                 history, environment>>

\* remove_dir fails, unnoticed, on a directory that is not empty.
RemoveDir(p) ==
  /\ At(p, "rmdir")
  /\ GoTo(p, resume[p])
  /\ resume' = [resume EXCEPT ![p] = "unlock"]
  /\ stagingDirs' = stagingDirs \ ({key[p]} \ leftovers)
  /\ UNCHANGED <<disk, staged, leftovers, strays, holder, key, expires, now,
                 history, environment>>

Unlock(p) ==
  /\ At(p, "unlock")
  /\ GoTo(p, "idle")
  /\ holder' = [holder EXCEPT ![Slot(p)] = NoProc]
  /\ UNCHANGED <<disk, temps, calls, now, history, environment>>

\* record_failure: a synchronized temporary, its rename, the directory.
RecordTemp(p, ttl) ==
  /\ At(p, "record")
  /\ IF ValidLifetime(ttl)
       THEN /\ GoTo(p, "record_rename")
            /\ expires' = [expires EXCEPT ![p] = Expiration(ttl)]
       ELSE GoTo(p, "unlock") /\ UNCHANGED expires
  /\ UNCHANGED <<disk, temps, holder, key, resume, now, history, environment>>

RecordRename(p) ==
  /\ At(p, "record_rename")
  /\ GoTo(p, "record_sync")
  /\ negative' = [negative EXCEPT ![key[p]] = expires[p]]
  /\ negOnDisk' = [negOnDisk EXCEPT ![key[p]] = @ \union {expires[p]}]
  /\ UNCHANGED <<object, onDisk, temps, holder, calls, now, history, environment>>

RecordSync(p) ==
  /\ At(p, "record_sync")
  /\ GoTo(p, "unlock")
  /\ negOnDisk' = [negOnDisk EXCEPT ![key[p]] = {negative[key[p]]}]
  /\ promised' = [promised EXCEPT ![key[p]] = expires[p]]
  /\ expires' = [expires EXCEPT ![p] = 0]
  /\ UNCHANGED <<object, onDisk, negative, temps, holder, key, resume, now,
                 acked, killed, environment>>

-----------------------------------------------------------------------------
(* What a system call may do instead of succeeding: the ? operator returns *)
(* and drops whatever the call still owns.                                 *)

Fallible == {"inspect", "failure", "lock", "recheck", "unlink", "sync_removed",
             "refailure", "mkdir", "create", "writing", "sync_staged", "rename", "winner",
             "sync_published", "reopen", "record", "record_rename", "record_sync"}

\* Mutants: an error path leaks the lock; one forgets the staging directory.
AfterError_LeaksLock(p) ==
  IF pc[p] \in Unlocked \union {"record", "record_rename"} THEN "idle"
  ELSE IF staged[p] # Missing THEN "drop_temp"
  ELSE IF pc[p] \in {"create", "sync_published", "reopen"} THEN "rmdir"
  ELSE "unlock"
AfterError_LeaksDir(p) ==
  IF pc[p] \in Unlocked THEN "idle" ELSE IF staged[p] # Missing THEN "drop_temp" ELSE "unlock"

AfterError(p) ==
  IF pc[p] \in Unlocked THEN "idle"
  ELSE IF staged[p] # Missing THEN "drop_temp"
  ELSE IF pc[p] \in {"create", "sync_published", "reopen"} THEN "rmdir"
  ELSE "unlock"

IoError(p) ==
  /\ pc[p] \in Fallible
  /\ GoTo(p, AfterError(p))
  /\ resume' = [resume EXCEPT ![p] = "unlock"]
  /\ expires' = [expires EXCEPT ![p] = 0]
  /\ UNCHANGED <<disk, temps, holder, key, now, history, environment>>

-----------------------------------------------------------------------------
(* The environment.                                                        *)

\* What dies with a set of processes: their descriptors, hence their locks.
Die(P) ==
  /\ pc' = [p \in Procs |-> IF p \in P THEN "idle" ELSE pc[p]]
  /\ resume' = [p \in Procs |-> IF p \in P THEN "unlock" ELSE resume[p]]
  /\ expires' = [p \in Procs |-> IF p \in P THEN 0 ELSE expires[p]]
  /\ holder' = [s \in Slots |-> IF holder[s] \in P THEN NoProc ELSE holder[s]]
  /\ staged' = [p \in Procs |-> IF p \in P THEN Missing ELSE staged[p]]
  /\ leftovers' = leftovers \union {key[p] : p \in {q \in P : staged[q] # Missing}}
  /\ strays' = strays \union {key[p] : p \in {q \in P : pc[q] = "record_rename"}}
  /\ killed' = killed \union {key[p] : p \in {q \in P : pc[q] \in Locked}}
  /\ UNCHANGED <<stagingDirs, key, now, acked, promised, rotted, installed, withdrawn>>

Crash(p) ==
  /\ pc[p] # "idle"
  /\ Die({p})
  /\ UNCHANGED <<disk, losses>>

\* Directories come back as they were at some time since their last sync.
PowerLoss ==
  /\ losses < MaxLosses
  /\ losses' = losses + 1
  /\ Die(Procs)
  /\ object' \in {f \in [Keys -> Contents \union {Missing}] :
                    \A k \in Keys : f[k] \in onDisk[k]}
  /\ \E f \in [Keys -> UNION {negOnDisk[k] : k \in Keys}] :
       /\ \A k \in Keys : f[k] \in negOnDisk[k]
       /\ negative' = f
  /\ onDisk' = [k \in Keys |-> {object'[k]}]
  /\ negOnDisk' = [k \in Keys |-> {negative'[k]}]

Tick ==
  /\ now < MaxNow
  /\ now' = now + 1
  /\ UNCHANGED <<disk, temps, holder, pc, calls, history, environment>>

\* The medium damages the object's data, whichever name reaches it.
Rot(k) ==
  /\ k \in Rottable \ rotted
  /\ object[k] # Missing
  /\ object' = [object EXCEPT ![k] = Garbage]
  /\ onDisk' = [onDisk EXCEPT ![k] = {IF f = Missing THEN Missing ELSE Garbage : f \in @}]
  /\ rotted' = rotted \union {k}
  /\ UNCHANGED <<negative, negOnDisk, temps, holder, pc, calls, now, history,
                 installed, withdrawn, losses>>

\* The racing winner publish_noclobber guards against: a process that places
\* a file without taking the population lock, and without replacing one.
LocklessInstall(k, c) ==
  /\ k \in Installable \ installed
  /\ object[k] = Missing
  /\ object' = [object EXCEPT ![k] = c]
  /\ onDisk' = [onDisk EXCEPT ![k] = @ \union {c}]
  /\ installed' = installed \union {k}
  /\ UNCHANGED <<negative, negOnDisk, temps, holder, pc, calls, now, history,
                 rotted, withdrawn, losses>>

\* The lockless process takes the name away again, whatever it is by now.
LocklessWithdraw(k) ==
  /\ k \in installed \ withdrawn
  /\ object[k] # Missing
  /\ object' = [object EXCEPT ![k] = Missing]
  /\ onDisk' = [onDisk EXCEPT ![k] = @ \union {Missing}]
  /\ withdrawn' = withdrawn \union {k}
  /\ UNCHANGED <<negative, negOnDisk, temps, holder, pc, calls, now, history,
                 rotted, installed, losses>>

-----------------------------------------------------------------------------
\* Steps the library takes on its own once a call has been made.
Library(p) ==
  \/ Inspect(p) \/ ReadFailure(p) \/ TryLock(p)
  \/ Recheck(p) \/ UnlinkCorrupt(p) \/ ClearAuxiliary(p) \/ SyncRemoved(p)
  \/ RecheckFailure(p) \/ MakeStagingDir(p) \/ CreateTemp(p)
  \/ SyncStaged(p) \/ Rename(p) \/ SyncPublished(p) \/ Reopen(p) \/ InspectWinner(p)
  \/ DropTemp(p) \/ RemoveDir(p) \/ Unlock(p)
  \/ \E ttl \in Lifetimes : RecordTemp(p, ttl)
  \/ RecordRename(p) \/ RecordSync(p)

\* The caller gives its capability back, one way or another.
Consume(p) == Publish(p) \/ Abandon(p) \/ RecordFailure(p) \/ IntoWriter(p)

Caller(p) ==
  \/ \E k \in Keys : Begin(p, k)
  \/ \E c \in Contents : Write(p, c)
  \/ Consume(p)

Environment ==
  \/ \E p \in Procs : IoError(p) \/ Crash(p)
  \/ PowerLoss \/ Tick
  \/ \E k \in Keys : Rot(k) \/ LocklessWithdraw(k)
  \/ \E k \in Keys, c \in Contents : LocklessInstall(k, c)

Next == (\E p \in Procs : Library(p) \/ Caller(p)) \/ Environment

Spec == Init /\ [][Next]_vars

-----------------------------------------------------------------------------
(* Properties.                                                             *)

\* The steps that use the staged file have one.
WriterHasTemp(p) ==
  /\ pc[p] \in {"writing", "sync_staged", "rename", "winner", "drop_temp"}
       => staged[p] # Missing
  /\ resume[p] = "rename" =>
       /\ staged[p] # Missing
       /\ pc[p] \in Removing

WellTyped ==
  /\ object \in [Keys -> Contents \union {Missing}]
  /\ onDisk \in [Keys -> SUBSET (Contents \union {Missing})]
  /\ negative \in [Keys -> Nat \union {Missing}]
  /\ negOnDisk \in [Keys -> SUBSET (Nat \union {Missing})]
  /\ staged \in [Procs -> StagedFile \union {Missing}]
  /\ stagingDirs \subseteq Keys /\ leftovers \subseteq Keys /\ strays \subseteq Keys
  /\ holder \in [Slots -> Procs \union Keepers \union {NoProc}]
  /\ pc \in [Procs -> Unlocked \union Locked]
  /\ key \in [Procs -> Keys]
  /\ resume \in [Procs -> {"unlock", "record", "refailure", "rename"}]
  /\ expires \in [Procs -> Nat]
  /\ now \in Nat
  /\ acked \subseteq Keys /\ killed \subseteq Keys
  /\ promised \in [Keys -> Nat]
  /\ rotted \subseteq Keys /\ installed \subseteq Keys /\ withdrawn \subseteq Keys
  /\ losses \in Nat

TypeOK == WellTyped /\ \A p \in Procs : WriterHasTemp(p)

\* A call that is past the lock holds its slot, and a caller holds a slot only
\* in such a call: at most one population per slot, and no return, error or
\* death leaks a lock (PopulationLock, dropped last).
LockDiscipline ==
  /\ \A p \in Procs : pc[p] \in Locked => holder[Slot(p)] = p
  /\ \A s \in Slots : holder[s] \in Procs =>
       pc[holder[s]] \in Locked /\ Slot(holder[s]) = s

\* No record, stored or about to be, expires further ahead than the tolerance
\* of failure_record: only another program's record is stale for that reason.
NearFuture(e) == e # Missing => e < now + MaxTTL + TicksPerSecond

RecordsBounded ==
  /\ \A k \in Keys : \A e \in negOnDisk[k] \union {negative[k]} : NearFuture(e)
  /\ \A p \in Procs : NearFuture(expires[p])

\* An owner finds neither an object nor a live failure for its key until it
\* publishes or records one itself: the recheck under the lock closes the
\* race between the initial miss and another process completing population.
OwnersFindNothing ==
  \A p \in Procs : pc[p] \in Populating =>
    /\ ~Live(negative[key[p]])
    /\ key[p] \notin installed => object[key[p]] = Missing

\* Whatever a crash or a power loss leaves under an object's name is a
\* complete GSYM file for that build identifier, unless the medium or a
\* lockless process put something else there.
OnlyVerifiedVisible ==
  \A k \in Keys \ (rotted \union installed) :
    onDisk[k] \union {object[k]} \subseteq {k, Missing}

\* An entry that publish reported as Published stays, whole, through crashes,
\* races and power losses, as long as its data is not damaged and no lockless
\* process takes it away.
AckedSurvives == \A k \in acked \ (rotted \union withdrawn) : IsValid(k)

\* A failure reported as recorded is in force until its expiration: rounding
\* and the TTL tolerance of failure_record agree, nothing clears it early and
\* it survives a power loss.
FailureHonoured ==
  \A k \in Keys \ (rotted \union installed) :
    promised[k] > now => negative[k] = promised[k] /\ Live(negative[k])

\* A staging directory outlives its writer only if a crash killed one, and a
\* writer's directory is there as long as its temporary is.
StagingReclaimed ==
  /\ \A k \in stagingDirs \ killed : \E p \in Procs :
       /\ key[p] = k
       /\ pc[p] \in Staging \union Leaving \/ staged[p] # Missing
  /\ \A p \in Procs : staged[p] # Missing => key[p] \in stagingDirs

\* No population removes or replaces a valid object: what UnlinkCorrupt unlinks
\* by name is still the file that failed verification.  Only damage, a power
\* loss and a lockless process that takes names away can end one.
ValidNeverReplaced ==
  [][\A k \in Keys :
       IsValid(k) /\ rotted' = rotted /\ losses' = losses /\ k \notin withdrawn'
         => object'[k] = k]_vars

\* Every call returns and releases what it holds, whatever the others do
\* (CacheScrub states the fairness this takes).
CallsReturn == \A p \in Procs : pc[p] # "idle" ~> pc[p] = "idle"

-----------------------------------------------------------------------------
(* The detailed machine implements what PopulationPromise says of a cache. *)

PromisedEntry ==
  [k \in Keys |-> IF object[k] = Missing THEN "absent"
                  ELSE IF IsValid(k) THEN "complete" ELSE "damaged"]

PromisedOwner ==
  [k \in Keys |-> LET s == holder[SlotOf[k]] IN
     IF s \in Procs /\ pc[s] \in Populating /\ key[s] = k THEN s ELSE NoProc]

Promise == INSTANCE PopulationPromise
             WITH entry <- PromisedEntry, owner <- PromisedOwner, kept <- acked, foreign <- installed

\* Every step is a step of the promise: an entry no lockless process installed
\* becomes complete only through its single owner, and an acknowledged one is
\* never lost.
ImplementsPromise == Promise!Spec

==============================================================================
