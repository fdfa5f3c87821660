------------------------- MODULE CacheWriters_proofs -------------------------
(***************************************************************************)
(* Machine-checked facts about CachePopulation and, in the second part,    *)
(* CacheScrub.  Populations: for any number of processes, build            *)
(* identifiers and lock slots, any collision of build identifiers in       *)
(* slots, and any bound on the clock and on power losses.  Scrub passes    *)
(* beside any number of populations: a writer keeps what it stages,        *)
(* however old, and the hits recorded for an object that is there are      *)
(* kept.                                                                   *)
(***************************************************************************)
EXTENDS CacheScrub, TLAPS

ProgramPoints == Unlocked \union Locked

\* A rounded expiration lies at or after the instant asked for, and less
\* than a second after it (failure_expiration).
LEMMA ExpirationRoundsUp ==
  ASSUME NEW t \in Nat, NEW ttl \in Nat, t = now
  PROVE  /\ Expiration(ttl) \in Nat
         /\ t + ttl <= Expiration(ttl)
         /\ Expiration(ttl) < t + ttl + TicksPerSecond
  BY DEF Expiration, TicksPerSecond

\* Every reachable state is well typed.
LEMMA TypeInit == Init => TypeOK
  BY PopulationAssumption
  DEF Init, TypeOK, WellTyped, WriterHasTemp, Contents, Unlocked, Locked

LEMMA TypeBeforeLock ==
  ASSUME WellTyped, NEW p \in Procs,
         \/ \E k \in Keys : Begin(p, k)
         \/ Inspect(p) \/ ReadFailure(p) \/ TryLock(p)
  PROVE  WellTyped'
  <1>. USE PopulationAssumption
       DEF WellTyped, disk, temps, calls, history, environment, GoTo, Unlocked,
           Locked, Deciding, Removing, Slot
  <1>1. ASSUME NEW k \in Keys, Begin(p, k) PROVE WellTyped'
    BY <1>1 DEF Begin
  <1>3. CASE Inspect(p) BY <1>3 DEF Inspect
  <1>4. CASE ReadFailure(p) BY <1>4 DEF ReadFailure
  <1>6. CASE TryLock(p) BY <1>6 DEF TryLock
  <1>. QED BY <1>1, <1>3, <1>4, <1>6
LEMMA TypeUnderLock ==
  ASSUME WellTyped, NEW p \in Procs,
         \/ Recheck(p)
         \/ UnlinkCorrupt(p)
         \/ ClearAuxiliary(p)
         \/ SyncRemoved(p)
         \/ RecheckFailure(p)
         \/ Unlock(p)
  PROVE  WellTyped'
  <1>. USE PopulationAssumption
       DEF WellTyped, disk, temps, calls, history, environment, At, GoTo,
           Unlocked, Locked, Deciding, Removing, Staging, Leaving, Recording
  <1>1. CASE Recheck(p) BY <1>1 DEF Recheck
  <1>2. CASE UnlinkCorrupt(p) BY <1>2 DEF UnlinkCorrupt, Contents
  <1>3. CASE ClearAuxiliary(p) BY <1>3 DEF ClearAuxiliary, RemoveNegative
  <1>4. CASE SyncRemoved(p) BY <1>4 DEF SyncRemoved
  <1>5. CASE RecheckFailure(p)
    <2>1. /\ negative' \in [Keys -> Nat \union {Missing}]
          /\ negOnDisk' \in [Keys -> SUBSET (Nat \union {Missing})]
      BY <1>5, SMTT(60) DEF RecheckFailure, RemoveNegative
    <2>2. pc' \in [Procs -> Unlocked \union Locked]
      BY <1>5 DEF RecheckFailure
    <2>. QED BY <1>5, <2>1, <2>2 DEF RecheckFailure
  <1>6. CASE Unlock(p) BY <1>6 DEF Unlock, Slot
  <1>. QED BY <1>1, <1>2, <1>3, <1>4, <1>5, <1>6

LEMMA TypeStaging ==
  ASSUME WellTyped, NEW p \in Procs, WriterHasTemp(p),
         \/ IntoWriter(p)
         \/ MakeStagingDir(p)
         \/ CreateTemp(p)
         \/ \E c \in Contents : Write(p, c)
         \/ Publish(p)
         \/ SyncStaged(p)
         \/ Rename(p)
         \/ SyncPublished(p)
         \/ Reopen(p)
         \/ InspectWinner(p)
  PROVE  WellTyped'
  <1>. USE PopulationAssumption
       DEF WellTyped, disk, temps, calls, history, environment, At, GoTo,
           Unlocked, Locked, Deciding, Removing, Staging, Leaving, Recording
  <1>1. CASE IntoWriter(p) BY <1>1 DEF IntoWriter
  <1>2. CASE MakeStagingDir(p) BY <1>2 DEF MakeStagingDir
  <1>3. CASE CreateTemp(p) BY <1>3 DEF CreateTemp, StagedFile, Contents
  <1>4. ASSUME NEW c \in Contents, Write(p, c) PROVE WellTyped'
    BY <1>4 DEF Write, StagedFile
  <1>5. CASE Publish(p) BY <1>5 DEF Publish
  <1>6. CASE SyncStaged(p) BY <1>6 DEF SyncStaged, StagedFile, WriterHasTemp
  <1>7. CASE Rename(p)
    <2>1. staged[p].content \in Contents
      BY <1>7 DEF Rename, WriterHasTemp, StagedFile
    <2>2. object' \in [Keys -> Contents \union {Missing}] BY <1>7, <2>1 DEF Rename
    <2>3. onDisk' \in [Keys -> SUBSET (Contents \union {Missing})]
      BY <1>7, <2>1 DEF Rename, Contents
    <2>4. staged' \in [Procs -> StagedFile \union {Missing}] BY <1>7 DEF Rename
    <2>5. pc' \in [Procs -> Unlocked \union Locked] BY <1>7 DEF Rename
    <2>. QED BY <1>7, <2>2, <2>3, <2>4, <2>5 DEF Rename
  <1>8. CASE SyncPublished(p) BY <1>8 DEF SyncPublished
  <1>9. CASE Reopen(p)
    <2>1. acked' \subseteq Keys BY <1>9 DEF Reopen
    <2>2. pc' \in [Procs -> Unlocked \union Locked] BY <1>9 DEF Reopen
    <2>. QED BY <1>9, <2>1, <2>2 DEF Reopen
  <1>10. CASE InspectWinner(p) BY <1>10 DEF InspectWinner
  <1>. QED BY <1>1, <1>2, <1>3, <1>4, <1>5, <1>6, <1>7, <1>8, <1>9, <1>10

LEMMA TypeGivingUp ==
  ASSUME WellTyped, NEW p \in Procs,
         \/ Abandon(p)
         \/ RecordFailure(p)
         \/ DropTemp(p)
         \/ RemoveDir(p)
         \/ \E ttl \in Lifetimes : RecordTemp(p, ttl)
         \/ RecordRename(p)
         \/ RecordSync(p)
         \/ IoError(p)
  PROVE  WellTyped'
  <1>. USE PopulationAssumption
       DEF WellTyped, disk, temps, calls, history, environment, At, GoTo,
           Unlocked, Locked, Deciding, Removing, Staging, Leaving, Recording
  <1>1. CASE Abandon(p) BY <1>1 DEF Abandon
  <1>2. CASE RecordFailure(p) BY <1>2 DEF RecordFailure
  <1>3. CASE DropTemp(p) BY <1>3 DEF DropTemp
  <1>4. CASE RemoveDir(p) BY <1>4 DEF RemoveDir
  <1>5. ASSUME NEW ttl \in Lifetimes, RecordTemp(p, ttl) PROVE WellTyped'
    BY <1>5 DEF RecordTemp, Expiration, TicksPerSecond
  <1>6. CASE RecordRename(p) BY <1>6 DEF RecordRename
  <1>7. CASE RecordSync(p) BY <1>7 DEF RecordSync
  <1>8. CASE IoError(p) BY <1>8 DEF IoError, AfterError
  <1>. QED BY <1>1, <1>2, <1>3, <1>4, <1>5, <1>6, <1>7, <1>8

LEMMA TypeEnvironment ==
  ASSUME WellTyped,
         \/ \E p \in Procs : Crash(p)
         \/ PowerLoss
         \/ Tick
         \/ \E k \in Keys : Rot(k) \/ LocklessWithdraw(k)
         \/ \E k \in Keys, c \in Contents : LocklessInstall(k, c)
  PROVE  WellTyped'
  <1>. USE PopulationAssumption DEF WellTyped, disk, temps, calls, history, environment
  <1>1. ASSUME NEW P \in SUBSET Procs, Die(P)
        PROVE  /\ pc' \in [Procs -> ProgramPoints]
               /\ resume' \in [Procs -> {"unlock", "record", "refailure", "rename"}]
               /\ expires' \in [Procs -> Nat]
               /\ holder' \in [Slots -> Procs \union Keepers \union {NoProc}]
               /\ staged' \in [Procs -> StagedFile \union {Missing}]
               /\ leftovers' \subseteq Keys /\ strays' \subseteq Keys
               /\ killed' \subseteq Keys
               /\ UNCHANGED <<stagingDirs, key, now, acked, promised, rotted, installed,
                              withdrawn>>
    BY <1>1 DEF Die, ProgramPoints, Unlocked
  <1>2. ASSUME NEW p \in Procs, Crash(p) PROVE WellTyped'
    BY <1>1, <1>2 DEF Crash, ProgramPoints
  <1>3. CASE PowerLoss
    <2>1. \A k \in Keys : negOnDisk[k] \subseteq Nat \union {Missing}
      OBVIOUS
    <2>2. negative' \in [Keys -> Nat \union {Missing}]
      BY <1>3, <2>1 DEF PowerLoss
    <2>3. object' \in [Keys -> Contents \union {Missing}]
      BY <1>3 DEF PowerLoss
    <2>4. /\ onDisk' \in [Keys -> SUBSET (Contents \union {Missing})]
          /\ negOnDisk' \in [Keys -> SUBSET (Nat \union {Missing})]
      BY <1>3, <2>2, <2>3 DEF PowerLoss
    <2>. QED BY <1>1, <1>3, <2>2, <2>3, <2>4 DEF PowerLoss, ProgramPoints
  <1>4. CASE Tick BY <1>4 DEF Tick
  <1>5. ASSUME NEW k \in Keys, Rot(k) PROVE WellTyped'
    BY <1>5 DEF Rot, Contents
  <1>6. ASSUME NEW k \in Keys, LocklessWithdraw(k) PROVE WellTyped'
    BY <1>6 DEF LocklessWithdraw
  <1>7. ASSUME NEW k \in Keys, NEW c \in Contents, LocklessInstall(k, c) PROVE WellTyped'
    BY <1>7 DEF LocklessInstall
  <1>. QED BY <1>2, <1>3, <1>4, <1>5, <1>6, <1>7

LEMMA TemporaryIsAFile ==
  ASSUME NEW c \in Contents, NEW b \in BOOLEAN
  PROVE  [content |-> c, synced |-> b] # Missing
  BY PopulationAssumption DEF StagedFile

\* The temporary of a writer is there for every step that uses it.
LEMMA TempLibrary ==
  ASSUME WellTyped, NEW p \in Procs, Library(p), NEW q \in Procs,
         WriterHasTemp(p), WriterHasTemp(q)
  PROVE  WriterHasTemp(q)'
  <1>. USE DEF WellTyped, WriterHasTemp, Removing, temps, calls, At, GoTo
  <1>1. CASE Inspect(p) BY <1>1 DEF Inspect
  <1>2. CASE ReadFailure(p) BY <1>2 DEF ReadFailure
  <1>4. CASE TryLock(p) BY <1>4 DEF TryLock
  <1>5. CASE Recheck(p) BY <1>5 DEF Recheck
  <1>6. CASE UnlinkCorrupt(p) BY <1>6 DEF UnlinkCorrupt
  <1>7. CASE ClearAuxiliary(p) BY <1>7 DEF ClearAuxiliary
  <1>8. CASE SyncRemoved(p) BY <1>8 DEF SyncRemoved
  <1>9. CASE RecheckFailure(p) BY <1>9 DEF RecheckFailure
  <1>10. CASE MakeStagingDir(p) BY <1>10 DEF MakeStagingDir
  <1>11. CASE CreateTemp(p)
    BY <1>11, TemporaryIsAFile DEF CreateTemp, Contents
  <1>12. CASE SyncStaged(p)
    <2>1. staged[p].content \in Contents
      BY <1>12 DEF SyncStaged, StagedFile
    <2>. QED BY <1>12, <2>1, TemporaryIsAFile DEF SyncStaged
  <1>13. CASE Rename(p) BY <1>13 DEF Rename
  <1>14. CASE SyncPublished(p) BY <1>14 DEF SyncPublished
  <1>15. CASE Reopen(p) BY <1>15 DEF Reopen
  <1>16. CASE InspectWinner(p) BY <1>16 DEF InspectWinner
  <1>17. CASE DropTemp(p) BY <1>17 DEF DropTemp
  <1>18. CASE RemoveDir(p) BY <1>18 DEF RemoveDir
  <1>19. CASE Unlock(p) BY <1>19 DEF Unlock
  <1>20. CASE RecordRename(p) BY <1>20 DEF RecordRename
  <1>21. CASE RecordSync(p) BY <1>21 DEF RecordSync
  <1>22. ASSUME NEW ttl \in Lifetimes, RecordTemp(p, ttl) PROVE WriterHasTemp(q)'
    BY <1>22 DEF RecordTemp
  <1>. QED
    BY <1>1, <1>2, <1>4, <1>5, <1>6, <1>7, <1>8, <1>9, <1>10,
       <1>11, <1>12, <1>13, <1>14, <1>15, <1>16, <1>17, <1>18, <1>19, <1>20,
       <1>21, <1>22
    DEF Library

LEMMA TempCaller ==
  ASSUME WellTyped, NEW p \in Procs, Caller(p) \/ IoError(p), NEW q \in Procs,
         WriterHasTemp(p), WriterHasTemp(q)
  PROVE  WriterHasTemp(q)'
  <1>. USE DEF WellTyped, WriterHasTemp, Removing, temps, calls, At, GoTo
  <1>1. ASSUME NEW k \in Keys, Begin(p, k) PROVE WriterHasTemp(q)'
    BY <1>1 DEF Begin
  <1>2. ASSUME NEW c \in Contents, Write(p, c) PROVE WriterHasTemp(q)'
    BY <1>2, TemporaryIsAFile DEF Write
  <1>3. CASE Publish(p) BY <1>3 DEF Publish
  <1>4. CASE Abandon(p) BY <1>4 DEF Abandon
  <1>5. CASE RecordFailure(p) BY <1>5 DEF RecordFailure
  <1>6. CASE IntoWriter(p) BY <1>6 DEF IntoWriter
  <1>7. CASE IoError(p) BY <1>7 DEF IoError, AfterError, Unlocked, Fallible
  <1>. QED BY <1>1, <1>2, <1>3, <1>4, <1>5, <1>6, <1>7 DEF Caller, Consume
LEMMA TempEnvironment ==
  ASSUME WellTyped, NEW q \in Procs, WriterHasTemp(q),
         \/ \E p \in Procs : Crash(p)
         \/ PowerLoss
         \/ Tick
         \/ \E k \in Keys : Rot(k) \/ LocklessWithdraw(k)
         \/ \E k \in Keys, c \in Contents : LocklessInstall(k, c)
  PROVE  WriterHasTemp(q)'
  BY DEF WellTyped, WriterHasTemp, Crash, PowerLoss, Die, Tick, Rot, LocklessWithdraw,
         LocklessInstall, temps, calls

LEMMA TypeNext == TypeOK /\ [Next]_vars => TypeOK'
  <1>. SUFFICES ASSUME TypeOK, [Next]_vars PROVE TypeOK'
    OBVIOUS
  <1>. USE DEF TypeOK
  <1>1. ASSUME NEW p \in Procs, Library(p) PROVE TypeOK'
    <2>1. WellTyped'
      BY <1>1, TypeBeforeLock, TypeUnderLock, TypeStaging, TypeGivingUp DEF Library
    <2>. QED BY <1>1, <2>1, TempLibrary
  <1>2. ASSUME NEW p \in Procs, Caller(p) PROVE TypeOK'
    <2>1. WellTyped'
      BY <1>2, TypeBeforeLock, TypeStaging, TypeGivingUp DEF Caller, Consume
    <2>. QED BY <1>2, <2>1, TempCaller
  <1>3. CASE Environment
    <2>1. WellTyped'
      BY <1>3, TypeGivingUp, TypeEnvironment DEF Environment
    <2>2. ASSUME NEW q \in Procs PROVE WriterHasTemp(q)'
      BY <1>3, TempCaller, TempEnvironment DEF Environment
    <2>. QED BY <2>1, <2>2
  <1>4. CASE UNCHANGED vars
    BY <1>4 DEF vars, disk, temps, calls, history, environment, WellTyped, WriterHasTemp
  <1>. QED BY <1>1, <1>2, <1>3, <1>4 DEF Next

\* Type correctness of the population state machine; a writer has its file.
THEOREM TypeCorrect == Spec => []TypeOK
  BY TypeInit, TypeNext, PTL DEF Spec

-----------------------------------------------------------------------------
(* One population per slot, and no slot held by nobody.                    *)

SamePhase == \A q \in Procs : pc'[q] \in Locked <=> pc[q] \in Locked

\* A step that takes nobody across the lock, in either direction.
LEMMA LockFrame ==
  ASSUME TypeOK, LockDiscipline, key' = key, holder' = holder, SamePhase
  PROVE  LockDiscipline'
  BY DEF TypeOK, WellTyped, LockDiscipline, SamePhase, Slot

\* Between taking the lock and dropping it, a call stays within Locked.
LEMMA StaysLocked ==
  ASSUME TypeOK, NEW p \in Procs,
         \/ Inspect(p)
         \/ ReadFailure(p)
        
         \/ Recheck(p)
         \/ UnlinkCorrupt(p)
         \/ ClearAuxiliary(p)
         \/ SyncRemoved(p)
         \/ RecheckFailure(p)
         \/ IntoWriter(p)
         \/ MakeStagingDir(p)
         \/ CreateTemp(p)
         \/ Publish(p)
         \/ SyncStaged(p)
         \/ Rename(p)
         \/ SyncPublished(p)
         \/ Reopen(p)
         \/ InspectWinner(p)
         \/ Abandon(p)
         \/ RecordFailure(p)
         \/ DropTemp(p)
         \/ RemoveDir(p)
         \/ RecordRename(p)
         \/ RecordSync(p)
         \/ \E ttl \in Lifetimes : RecordTemp(p, ttl)
         \/ \E c \in Contents : Write(p, c)
  PROVE  SamePhase /\ key' = key /\ holder' = holder
  <1>. USE DEF TypeOK, WellTyped, SamePhase, At, GoTo, calls,
           Locked, Deciding, Removing, Staging, Leaving, Recording, Unlocked
  <1>1. CASE Inspect(p) BY <1>1 DEF Inspect
  <1>2. CASE ReadFailure(p) BY <1>2 DEF ReadFailure
  <1>4. CASE Recheck(p) BY <1>4 DEF Recheck
  <1>5. CASE UnlinkCorrupt(p) BY <1>5 DEF UnlinkCorrupt
  <1>6. CASE ClearAuxiliary(p)
    <2>1. resume[p] \in {"unlock", "record", "refailure", "rename"}
      OBVIOUS
    <2>. QED BY <1>6, <2>1 DEF ClearAuxiliary
  <1>7. CASE SyncRemoved(p)
    <2>1. resume[p] \in {"unlock", "record", "refailure", "rename"}
      OBVIOUS
    <2>. QED BY <1>7, <2>1 DEF SyncRemoved
  <1>8. CASE RecheckFailure(p) BY <1>8 DEF RecheckFailure
  <1>9. CASE IntoWriter(p) BY <1>9 DEF IntoWriter
  <1>10. CASE MakeStagingDir(p) BY <1>10 DEF MakeStagingDir
  <1>11. CASE CreateTemp(p) BY <1>11 DEF CreateTemp
  <1>12. CASE Publish(p) BY <1>12 DEF Publish
  <1>13. CASE SyncStaged(p) BY <1>13 DEF SyncStaged
  <1>14. CASE Rename(p) BY <1>14 DEF Rename
  <1>15. CASE SyncPublished(p) BY <1>15 DEF SyncPublished
  <1>16. CASE Reopen(p) BY <1>16 DEF Reopen
  <1>17. CASE InspectWinner(p) BY <1>17 DEF InspectWinner
  <1>18. CASE Abandon(p) BY <1>18 DEF Abandon
  <1>19. CASE RecordFailure(p) BY <1>19 DEF RecordFailure
  <1>20. CASE DropTemp(p) BY <1>20 DEF DropTemp
  <1>21. CASE RemoveDir(p)
    <2>1. resume[p] \in {"unlock", "record", "refailure", "rename"}
      OBVIOUS
    <2>. QED BY <1>21, <2>1 DEF RemoveDir
  <1>22. CASE RecordRename(p) BY <1>22 DEF RecordRename
  <1>23. CASE RecordSync(p) BY <1>23 DEF RecordSync
  <1>24. ASSUME NEW ttl \in Lifetimes, RecordTemp(p, ttl)
        PROVE  SamePhase /\ key' = key /\ holder' = holder
    BY <1>24 DEF RecordTemp
  <1>25. ASSUME NEW c \in Contents, Write(p, c)
        PROVE  SamePhase /\ key' = key /\ holder' = holder
    BY <1>25 DEF Write
  <1>. QED
    BY <1>1, <1>2, <1>4, <1>5, <1>6, <1>7, <1>8, <1>9, <1>10,
       <1>11, <1>12, <1>13, <1>14, <1>15, <1>16, <1>17, <1>18, <1>19, <1>20,
       <1>21, <1>22, <1>23, <1>24, <1>25

LEMMA LockNext == TypeOK /\ LockDiscipline /\ [Next]_vars => LockDiscipline'
  <1>. SUFFICES ASSUME TypeOK, LockDiscipline, [Next]_vars PROVE LockDiscipline'
    OBVIOUS
  <1>. USE PopulationAssumption DEF TypeOK, WellTyped
  <1>1. ASSUME NEW p \in Procs, NEW k \in Keys, Begin(p, k)
        PROVE  LockDiscipline'
    BY <1>1 DEF Begin, At, GoTo, LockDiscipline, Slot, Locked, Deciding,
                Removing, Staging, Leaving, Recording
  <1>2. ASSUME NEW p \in Procs, TryLock(p) PROVE LockDiscipline'
    BY <1>2 DEF TryLock, At, GoTo, LockDiscipline, Slot, Locked, Deciding, Removing, Staging,
                Leaving, Recording, calls
  <1>3. ASSUME NEW p \in Procs, Unlock(p) PROVE LockDiscipline'
    BY <1>3 DEF Unlock, At, GoTo, LockDiscipline, Slot, Locked, Deciding, Removing, Staging,
                Leaving, Recording, calls
  <1>4. ASSUME NEW p \in Procs, IoError(p) PROVE LockDiscipline'
    <2>1. AfterError(p) \in {"idle", "drop_temp", "rmdir", "unlock"}
      BY DEF AfterError
    <2>2. AfterError(p) \in Locked <=> pc[p] \in Locked
      BY <1>4 DEF AfterError, Unlocked, Locked, Deciding, Removing, Staging, Leaving, Recording
    <2>3. SamePhase
      BY <1>4, <2>2 DEF IoError, GoTo, SamePhase
    <2>. QED BY <1>4, <2>3, LockFrame DEF IoError
  <1>5. ASSUME NEW P \in SUBSET Procs, Die(P) PROVE LockDiscipline'
    <2>1. "idle" \notin Locked
      BY DEF Locked, Deciding, Removing, Staging, Leaving, Recording
    <2>. QED BY <1>5, <2>1 DEF Die, LockDiscipline, Slot
  <1>6. ASSUME NEW p \in Procs, Library(p) PROVE LockDiscipline'
    BY <1>2, <1>3, <1>6, LockFrame, StaysLocked DEF Library
  <1>7. ASSUME NEW p \in Procs, Caller(p) PROVE LockDiscipline'
    BY <1>1, <1>7, LockFrame, StaysLocked DEF Caller, Consume
  <1>8. CASE Environment
    <2>1. CASE Tick BY <2>1, LockFrame DEF Tick, SamePhase, calls
    <2>2. ASSUME NEW k \in Keys, Rot(k) \/ LocklessWithdraw(k) PROVE LockDiscipline'
      BY <2>2, LockFrame DEF Rot, LocklessWithdraw, SamePhase, calls
    <2>3. ASSUME NEW k \in Keys, NEW c \in Contents, LocklessInstall(k, c)
          PROVE  LockDiscipline'
      BY <2>3, LockFrame DEF LocklessInstall, SamePhase, calls
    <2>. QED BY <1>4, <1>5, <1>8, <2>1, <2>2, <2>3 DEF Environment, Crash, PowerLoss
  <1>9. CASE UNCHANGED vars
    BY <1>9, LockFrame DEF vars, SamePhase, calls
  <1>. QED BY <1>6, <1>7, <1>8, <1>9 DEF Next

\* At most one population per slot at any time, and no leaked lock.
THEOREM LockSafety == Spec => []LockDiscipline
  <1>1. Init => LockDiscipline
    BY PopulationAssumption
       DEF Init, LockDiscipline, Locked, Deciding, Removing, Staging, Leaving, Recording
  <1>. QED BY <1>1, LockNext, TypeCorrect, PTL DEF Spec

-----------------------------------------------------------------------------
(* What an owner finds.                                                    *)

ProcessStep(p) == Library(p) \/ Caller(p) \/ IoError(p)

\* What the cache directory says of k, now and after a power loss.
SameFiles(k) ==
  /\ object'[k] = object[k] /\ onDisk'[k] = onDisk[k]
  /\ negative'[k] = negative[k] /\ negOnDisk'[k] = negOnDisk[k]

\* A process changes the files of one key at most: its own, under the lock.
WritesOwnKey(p) ==
  /\ \A k \in Keys : SameFiles(k) \/ (k = key[p] /\ pc[p] \in Locked)
  /\ \A q \in Procs \ {p} :
       /\ pc'[q] = pc[q] /\ key'[q] = key[q]
       /\ resume'[q] = resume[q] /\ expires'[q] = expires[q]
  /\ UNCHANGED <<now, environment>>

LEMMA StepsAreLocal ==
  ASSUME WellTyped, NEW p \in Procs, ProcessStep(p)
  PROVE  WritesOwnKey(p)
  <1>. USE DEF WellTyped, WritesOwnKey, SameFiles, disk, calls, environment, At, GoTo,
           Locked, Deciding, Removing, Staging, Recording, Leaving
  <1>1. CASE Inspect(p) BY <1>1 DEF Inspect
  <1>2. CASE ReadFailure(p) BY <1>2 DEF ReadFailure
  <1>4. CASE TryLock(p) BY <1>4 DEF TryLock
  <1>5. CASE Recheck(p) BY <1>5 DEF Recheck
  <1>6. CASE UnlinkCorrupt(p) BY <1>6 DEF UnlinkCorrupt
  <1>7. CASE ClearAuxiliary(p) BY <1>7 DEF ClearAuxiliary, RemoveNegative
  <1>8. CASE SyncRemoved(p) BY <1>8 DEF SyncRemoved
  <1>9. CASE RecheckFailure(p) BY <1>9 DEF RecheckFailure, RemoveNegative
  <1>10. CASE MakeStagingDir(p) BY <1>10 DEF MakeStagingDir
  <1>11. CASE CreateTemp(p) BY <1>11 DEF CreateTemp
  <1>12. CASE SyncStaged(p) BY <1>12 DEF SyncStaged
  <1>13. CASE Rename(p) BY <1>13 DEF Rename
  <1>14. CASE SyncPublished(p) BY <1>14 DEF SyncPublished
  <1>15. CASE Reopen(p) BY <1>15 DEF Reopen
  <1>16. CASE InspectWinner(p) BY <1>16 DEF InspectWinner
  <1>17. CASE DropTemp(p) BY <1>17 DEF DropTemp
  <1>18. CASE RemoveDir(p) BY <1>18 DEF RemoveDir
  <1>19. CASE Unlock(p) BY <1>19 DEF Unlock
  <1>20. CASE RecordRename(p) BY <1>20 DEF RecordRename
  <1>21. CASE RecordSync(p) BY <1>21 DEF RecordSync
  <1>22. CASE IntoWriter(p) BY <1>22 DEF IntoWriter
  <1>23. CASE Publish(p) BY <1>23 DEF Publish
  <1>24. CASE Abandon(p) BY <1>24 DEF Abandon
  <1>25. CASE RecordFailure(p) BY <1>25 DEF RecordFailure
  <1>26. CASE IoError(p) BY <1>26 DEF IoError
  <1>27. ASSUME NEW ttl \in Lifetimes, RecordTemp(p, ttl) PROVE WritesOwnKey(p)
    BY <1>27 DEF RecordTemp
  <1>28. ASSUME NEW c \in Contents, Write(p, c) PROVE WritesOwnKey(p)
    BY <1>28 DEF Write
  <1>29. ASSUME NEW k \in Keys, Begin(p, k) PROVE WritesOwnKey(p)
    BY <1>29 DEF Begin
  <1>. QED
    BY <1>1, <1>2, <1>4, <1>5, <1>6, <1>7, <1>8, <1>9, <1>10,
       <1>11, <1>12, <1>13, <1>14, <1>15, <1>16, <1>17, <1>18, <1>19, <1>20,
       <1>21, <1>22, <1>23, <1>24, <1>25, <1>26, <1>27, <1>28, <1>29
    DEF ProcessStep, Library, Caller, Consume

\* Two calls past the lock have different keys.
LEMMA KeysDiffer ==
  ASSUME LockDiscipline, NEW p \in Procs, NEW q \in Procs, p # q,
         pc[p] \in Locked, pc[q] \in Locked
  PROVE  key[p] # key[q]
  BY DEF LockDiscipline, Slot

\* The clock does not run backwards.
ClockAdvances == now' \in Nat /\ now <= now'

LEMMA ClockNext == TypeOK /\ [Next]_vars => ClockAdvances
  <1>. SUFFICES ASSUME TypeOK, [Next]_vars PROVE now' \in {now, now + 1}
    BY DEF TypeOK, WellTyped, ClockAdvances
  <1>1. ASSUME NEW p \in Procs, ProcessStep(p) PROVE now' = now
    BY <1>1, StepsAreLocal DEF TypeOK, WritesOwnKey
  <1>2. CASE Environment
    BY <1>1, <1>2 DEF Environment, ProcessStep, Crash, PowerLoss, Die, Tick, Rot,
      LocklessInstall, LocklessWithdraw
  <1>. QED BY <1>1, <1>2 DEF Next, ProcessStep, vars

LEMMA LaterBound ==
  ASSUME NEW e \in Nat, NEW n \in Nat, NEW m \in Nat, NEW ttl \in Nat,
         e < n + ttl + TicksPerSecond, n <= m
  PROVE  e < m + ttl + TicksPerSecond
  BY DEF TicksPerSecond

LEMMA ShorterBound ==
  ASSUME NEW e \in Nat, NEW n \in Nat, NEW short \in Nat, NEW long \in Nat,
         e < n + short + TicksPerSecond, short <= long
  PROVE  e < n + long + TicksPerSecond
  BY DEF TicksPerSecond

LEMMA StaysNear ==
  ASSUME now \in Nat, ClockAdvances, NEW e \in Nat \union {Missing}, NearFuture(e)
  PROVE  NearFuture(e)'
  <1>1. CASE e = Missing BY <1>1 DEF NearFuture
  <1>2. CASE e # Missing
    <2>1. e \in Nat /\ MaxTTL \in Nat /\ now' \in Nat
      BY <1>2, PopulationAssumption DEF ClockAdvances
    <2>2. e < now + MaxTTL + TicksPerSecond /\ now <= now'
      BY <1>2 DEF NearFuture, ClockAdvances
    <2>3. e < now' + MaxTTL + TicksPerSecond
      BY <2>1, <2>2, LaterBound
    <2>. QED BY <2>3 DEF NearFuture, TicksPerSecond
  <1>. QED BY <1>1, <1>2

LEMMA ZeroIsNear == ASSUME now \in Nat PROVE NearFuture(0)
  BY PopulationAssumption DEF NearFuture, TicksPerSecond

LEMMA BoundedNext == TypeOK /\ RecordsBounded /\ [Next]_vars => RecordsBounded'
  <1>. SUFFICES ASSUME TypeOK, RecordsBounded, [Next]_vars PROVE RecordsBounded'
    OBVIOUS
  <1>. USE DEF TypeOK, WellTyped
  <1>1. ClockAdvances BY ClockNext
  <1>2. ASSUME /\ \A k \in Keys : /\ negative'[k] \in negOnDisk[k] \union {negative[k], Missing}
                               /\ negOnDisk'[k] \subseteq
                                    negOnDisk[k] \union {negative[k], Missing}
               /\ \A p \in Procs : expires'[p] \in {0, expires[p]}
        PROVE  RecordsBounded'
    <2>1. ASSUME NEW k \in Keys, NEW e \in negOnDisk'[k] \union {negative'[k]}
          PROVE  NearFuture(e)'
      <3>1. CASE e = Missing BY <3>1 DEF NearFuture
      <3>2. CASE e # Missing
        <4>1. e \in negOnDisk[k] \union {negative[k]}
          BY <1>2, <2>1, <3>2
        <4>. QED BY <1>1, <4>1, StaysNear DEF RecordsBounded
      <3>. QED BY <3>1, <3>2
    <2>2. ASSUME NEW p \in Procs PROVE NearFuture(expires[p])'
      BY <1>1, <1>2, <2>2, StaysNear, ZeroIsNear DEF RecordsBounded, ClockAdvances
    <2>. QED BY <2>1, <2>2 DEF RecordsBounded
  <1>3. ASSUME NEW p \in Procs, NEW ttl \in Lifetimes, RecordTemp(p, ttl)
        PROVE  RecordsBounded'
    <2>1. NearFuture(expires[p])'
      <3>1. CASE ValidLifetime(ttl)
        <4>1. ttl \in Nat /\ ttl <= MaxTTL /\ MaxTTL \in Nat
          BY <3>1, PopulationAssumption DEF ValidLifetime
        <4>2. /\ Expiration(ttl) \in Nat
              /\ Expiration(ttl) < now + ttl + TicksPerSecond
          BY <4>1, ExpirationRoundsUp
        <4>3. expires'[p] = Expiration(ttl) /\ now' = now
          BY <1>3, <3>1 DEF RecordTemp
        <4>4. Expiration(ttl) < now + MaxTTL + TicksPerSecond
          BY <4>1, <4>2, ShorterBound
        <4>. QED BY <4>3, <4>4 DEF NearFuture, TicksPerSecond
      <3>2. CASE ~ValidLifetime(ttl)
        <4>1. expires' = expires /\ now' = now
          BY <1>3, <3>2 DEF RecordTemp
        <4>. QED BY <4>1 DEF RecordsBounded, NearFuture, TicksPerSecond
      <3>. QED BY <3>1, <3>2
    <2>2. \A q \in Procs \ {p} : expires'[q] = expires[q]
      BY <1>3 DEF RecordTemp
    <2>3. UNCHANGED <<negative, negOnDisk, now>>
      BY <1>3 DEF RecordTemp, disk
    <2>4. ASSUME NEW q \in Procs PROVE NearFuture(expires[q])'
      <3>1. CASE q = p BY <2>1, <3>1
      <3>2. CASE q # p
        <4>1. NearFuture(expires[q]) BY DEF RecordsBounded
        <4>. QED BY <2>2, <2>3, <3>2, <4>1 DEF NearFuture, TicksPerSecond
      <3>. QED BY <3>1, <3>2
    <2>5. ASSUME NEW k \in Keys, NEW e \in negOnDisk'[k] \union {negative'[k]}
          PROVE  NearFuture(e)'
      <3>1. NearFuture(e) BY <2>3, <2>5 DEF RecordsBounded
      <3>. QED BY <2>3, <3>1 DEF NearFuture, TicksPerSecond
    <2>. QED BY <2>4, <2>5 DEF RecordsBounded
  <1>4. ASSUME NEW p \in Procs, RecordRename(p) PROVE RecordsBounded'
    BY <1>4 DEF RecordRename, RecordsBounded, NearFuture, calls
  <1>5. ASSUME NEW p \in Procs, RecordSync(p) PROVE RecordsBounded'
    BY <1>2, <1>5 DEF RecordSync
  <1>6. ASSUME NEW p \in Procs, ClearAuxiliary(p) \/ RecheckFailure(p) PROVE RecordsBounded'
    BY <1>2, <1>6 DEF ClearAuxiliary, RecheckFailure, RemoveNegative, calls
  <1>7. ASSUME NEW p \in Procs, IoError(p) PROVE RecordsBounded'
    BY <1>2, <1>7 DEF IoError, disk
  <1>8. ASSUME NEW P \in SUBSET Procs, Die(P), UNCHANGED disk PROVE RecordsBounded'
    BY <1>2, <1>8 DEF Die, disk
  <1>9. CASE PowerLoss
    BY <1>2, <1>9 DEF PowerLoss, Die
  <1>10. ASSUME UNCHANGED <<negative, negOnDisk, expires>> PROVE RecordsBounded'
    BY <1>2, <1>10
  <1>11. ASSUME NEW p \in Procs, Library(p) PROVE RecordsBounded'
    BY <1>3, <1>4, <1>5, <1>6, <1>10, <1>11
    DEF Library, disk, calls, Inspect, ReadFailure, TryLock, Recheck,
        UnlinkCorrupt, SyncRemoved, MakeStagingDir, CreateTemp, SyncStaged, Rename,
        SyncPublished, Reopen, InspectWinner, DropTemp, RemoveDir, Unlock
  <1>12. ASSUME NEW p \in Procs, Caller(p) PROVE RecordsBounded'
    BY <1>10, <1>12
    DEF Caller, Consume, disk, calls, Begin, Write, Publish, Abandon,
        RecordFailure, IntoWriter
  <1>13. CASE Environment
    BY <1>7, <1>8, <1>9, <1>10, <1>13
    DEF Environment, Crash, Tick, Rot, LocklessInstall, LocklessWithdraw, disk, calls
  <1>. QED BY <1>10, <1>11, <1>12, <1>13 DEF Next, vars, disk, calls
-----------------------------------------------------------------------------
(* OwnersFindNothing is not inductive: the steps that repair an entry on   *)
(* the way to ownership, and those that discard a staged file on the way   *)
(* to recording a failure, carry the fact too.                             *)

Owns(p) == pc[p] \in Populating \/ resume[p] \in {"record", "rename"}

OwnerInv(p) ==
  /\ Owns(p) => ~Live(negative[key[p]])
  /\ Owns(p) \/ pc[p] \in {"clear", "clear_only", "sync_removed", "refailure"}
       => object[key[p]] = Missing \/ key[p] \in installed
  /\ resume[p] = "refailure" => pc[p] \in Removing
  /\ resume[p] = "record" => pc[p] \in {"drop_temp", "rmdir"}

OwnersInv == \A p \in Procs : OwnerInv(p)

\* A step of another process does not disturb an owner.
LEMMA OwnerUndisturbed ==
  ASSUME TypeOK, LockDiscipline, OwnersInv, NEW p \in Procs, NEW q \in Procs, p # q,
         WritesOwnKey(p)
  PROVE  OwnerInv(q)'
  <1>. USE DEF TypeOK, WellTyped
  <1>1. /\ pc'[q] = pc[q] /\ key'[q] = key[q] /\ resume'[q] = resume[q]
        /\ now' = now /\ installed' = installed
    BY DEF WritesOwnKey, environment
  <1>2. CASE pc[q] \in Locked
    <2>1. SameFiles(key[q])
      BY <1>2, KeysDiffer DEF WritesOwnKey
    <2>. QED BY <1>1, <2>1 DEF OwnersInv, OwnerInv, Owns, SameFiles, Live
  <1>3. CASE pc[q] \notin Locked
    <2>1. ~Owns(q) /\ pc[q] \notin {"clear", "clear_only", "sync_removed", "refailure"}
      BY <1>3 DEF OwnersInv, OwnerInv, Owns, WriterHasTemp, Populating, Locked, Deciding,
         Removing, Staging, Leaving, Recording
    <2>. QED BY <1>1, <2>1 DEF OwnersInv, OwnerInv, Owns
  <1>. QED BY <1>2, <1>3

\* The steps of an owner, or of a call on its way to own, keep the fact.
LEMMA OwnerLibrary ==
  ASSUME TypeOK, NEW p \in Procs, OwnerInv(p), Library(p)
  PROVE  OwnerInv(p)'
  <1>. USE DEF TypeOK, WellTyped, OwnerInv, Owns, WriterHasTemp, At, GoTo, Live, IsValid,
           IsCorrupt, Populating, Removing, Staging, disk, calls, environment
  <1>1. CASE Inspect(p) BY <1>1 DEF Inspect
  <1>2. CASE ReadFailure(p) BY <1>2 DEF ReadFailure
  <1>4. CASE TryLock(p) BY <1>4 DEF TryLock
  <1>5. CASE Recheck(p) BY <1>5 DEF Recheck
  <1>6. CASE UnlinkCorrupt(p) BY <1>6 DEF UnlinkCorrupt
  <1>7. CASE ClearAuxiliary(p) BY <1>7 DEF ClearAuxiliary, RemoveNegative
  <1>8. CASE SyncRemoved(p) BY <1>8 DEF SyncRemoved
  <1>9. CASE RecheckFailure(p) BY <1>9 DEF RecheckFailure, RemoveNegative
  <1>10. CASE MakeStagingDir(p) BY <1>10 DEF MakeStagingDir
  <1>11. CASE CreateTemp(p) BY <1>11 DEF CreateTemp
  <1>12. CASE SyncStaged(p) BY <1>12 DEF SyncStaged
  <1>13. CASE Rename(p) BY <1>13 DEF Rename
  <1>14. CASE SyncPublished(p) BY <1>14 DEF SyncPublished
  <1>15. CASE Reopen(p) BY <1>15 DEF Reopen
  <1>16. CASE InspectWinner(p) BY <1>16 DEF InspectWinner
  <1>17. CASE DropTemp(p) BY <1>17 DEF DropTemp
  <1>18. CASE RemoveDir(p) BY <1>18 DEF RemoveDir
  <1>19. CASE Unlock(p) BY <1>19 DEF Unlock
  <1>20. CASE RecordRename(p) BY <1>20 DEF RecordRename
  <1>21. CASE RecordSync(p) BY <1>21 DEF RecordSync
  <1>22. ASSUME NEW ttl \in Lifetimes, RecordTemp(p, ttl) PROVE OwnerInv(p)'
    BY <1>22 DEF RecordTemp
  <1>. QED
    BY <1>1, <1>2, <1>4, <1>5, <1>6, <1>7, <1>8, <1>9, <1>10,
       <1>11, <1>12, <1>13, <1>14, <1>15, <1>16, <1>17, <1>18, <1>19, <1>20,
       <1>21, <1>22
    DEF Library

LEMMA OwnerCaller ==
  ASSUME TypeOK, NEW p \in Procs, OwnerInv(p), Caller(p) \/ IoError(p)
  PROVE  OwnerInv(p)'
  <1>. USE DEF TypeOK, WellTyped, OwnerInv, Owns, WriterHasTemp, At, GoTo, Live,
           Populating, Removing, Staging, disk, calls, environment
  <1>1. ASSUME NEW k \in Keys, Begin(p, k) PROVE OwnerInv(p)'
    BY <1>1 DEF Begin
  <1>2. ASSUME NEW c \in Contents, Write(p, c) PROVE OwnerInv(p)'
    BY <1>2 DEF Write
  <1>3. CASE Publish(p) BY <1>3 DEF Publish
  <1>4. CASE Abandon(p) BY <1>4 DEF Abandon
  <1>5. CASE RecordFailure(p) BY <1>5 DEF RecordFailure
  <1>6. CASE IntoWriter(p) BY <1>6 DEF IntoWriter
  <1>7. CASE IoError(p) BY <1>7 DEF IoError, AfterError
  <1>. QED BY <1>1, <1>2, <1>3, <1>4, <1>5, <1>6, <1>7 DEF Caller, Consume
\* A record that is not in force stays so: it has expired, not yet to come.
LEMMA StaysDead ==
  ASSUME now \in Nat, ClockAdvances, NEW e \in Nat \union {Missing}, NearFuture(e), ~Live(e)
  PROVE  ~Live(e)'
  <1>1. CASE e = Missing BY <1>1 DEF Live
  <1>2. CASE e # Missing
    <2>1. e \in Nat /\ MaxTTL \in Nat /\ now \in Nat /\ now' \in Nat /\ now <= now'
      BY <1>2, PopulationAssumption DEF ClockAdvances
    <2>2. ASSUME NEW n \in Nat, NEW m \in Nat, n <= m, NEW f \in Nat, NEW ttl \in Nat,
                 f < n + ttl + TicksPerSecond, ~(f > n /\ f - n < ttl + TicksPerSecond)
          PROVE  ~(f > m)
      BY <2>2 DEF TicksPerSecond
    <2>3. e < now + MaxTTL + TicksPerSecond
      BY <1>2 DEF NearFuture
    <2>4. ~(e > now /\ e - now < MaxTTL + TicksPerSecond)
      BY <1>2 DEF Live
    <2>5. ~(e > now')
      BY <2>1, <2>2, <2>3, <2>4
    <2>. QED BY <2>5 DEF Live
  <1>. QED BY <1>1, <1>2

LEMMA OwnersNext ==
  TypeOK /\ LockDiscipline /\ RecordsBounded /\ OwnersInv /\ [Next]_vars => OwnersInv'
  <1>. SUFFICES ASSUME TypeOK, LockDiscipline, RecordsBounded, OwnersInv, [Next]_vars
                PROVE  OwnersInv'
    OBVIOUS
  <1>. USE DEF TypeOK, WellTyped
  <1>1. ASSUME NEW p \in Procs, ProcessStep(p) PROVE OwnersInv'
    <2>1. WritesOwnKey(p) BY <1>1, StepsAreLocal
    <2>2. OwnerInv(p)'
      BY <1>1, OwnerLibrary, OwnerCaller DEF OwnersInv, ProcessStep
    <2>3. ASSUME NEW q \in Procs, q # p PROVE OwnerInv(q)'
      BY <2>1, <2>3, OwnerUndisturbed
    <2>. QED BY <2>2, <2>3 DEF OwnersInv
  <1>2. ASSUME NEW p \in Procs, Crash(p) PROVE OwnersInv'
    BY <1>2 DEF Crash, Die, disk, OwnersInv, OwnerInv, Owns, Populating, Staging, Live
  <1>3. CASE PowerLoss
    BY <1>3 DEF PowerLoss, Die, OwnersInv, OwnerInv, Owns, Populating, Staging
  <1>4. CASE Tick
    <2>1. ASSUME NEW p \in Procs, ~Live(negative[key[p]]) PROVE ~Live(negative[key[p]])'
      <3>1. NearFuture(negative[key[p]]) /\ ClockAdvances
        BY ClockNext DEF RecordsBounded
      <3>2. negative'[key'[p]] = negative[key[p]]
        BY <1>4 DEF Tick, disk, calls
      <3>. QED BY <2>1, <3>1, <3>2, StaysDead DEF Live
    <2>. QED
      BY <1>4, <2>1 DEF Tick, disk, calls, environment, OwnersInv, OwnerInv, Owns
  <1>5. ASSUME NEW k \in Keys, Rot(k) \/ LocklessWithdraw(k) PROVE OwnersInv'
    BY <1>5 DEF Rot, LocklessWithdraw, calls, OwnersInv, OwnerInv, Owns, Live
  <1>6. ASSUME NEW k \in Keys, NEW c \in Contents, LocklessInstall(k, c) PROVE OwnersInv'
    BY <1>6 DEF LocklessInstall, calls, OwnersInv, OwnerInv, Owns, Live
  <1>7. CASE UNCHANGED vars
    BY <1>7 DEF vars, disk, calls, environment, OwnersInv, OwnerInv, Owns, Live
  <1>. QED
    BY <1>1, <1>2, <1>3, <1>4, <1>5, <1>6, <1>7 DEF Next, Environment, ProcessStep

LEMMA BoundedAlways == Spec => []RecordsBounded
  <1>1. Init => RecordsBounded
    BY PopulationAssumption DEF Init, RecordsBounded, NearFuture, TicksPerSecond
  <1>. QED BY <1>1, BoundedNext, TypeCorrect, PTL DEF Spec

LEMMA OwnersAlways == Spec => []OwnersInv
  <1>1. Init => OwnersInv
    BY DEF Init, OwnersInv, OwnerInv, Owns, Populating, Staging
  <1>. QED BY <1>1, BoundedAlways, OwnersNext, TypeCorrect, LockSafety, PTL DEF Spec

\* Whoever owns a population finds no object (but one placed without the lock)
\* and no failure in force, at any moment until it publishes or records one.
THEOREM OwnershipIsWarranted == Spec => []OwnersFindNothing
  <1>1. OwnersInv => OwnersFindNothing
    BY DEF OwnersInv, OwnerInv, Owns, OwnersFindNothing
  <1>. QED BY <1>1, OwnersAlways, PTL

-----------------------------------------------------------------------------
(* Durability: what a crash or a power loss may leave under an entry's     *)
(* name, what becomes of an acknowledged entry, and what a repair removes; *)
(* and, from these, that the protocol implements PopulationPromise.        *)
(*                                                                         *)
(* None of these facts is inductive.  A publisher carries a verified and,  *)
(* from the rename on, synchronized file through the repair of a corrupt   *)
(* winner; a repair is under way only while the entry is corrupt; a power  *)
(* loss leaves an acknowledged entry as it is, and brings back no complete *)
(* entry that was not there.                                               *)

HoldsVerified(p) == pc[p] \in {"sync_staged", "rename", "winner"} \/ resume[p] = "rename"
HoldsSynced(p) == pc[p] \in {"rename", "winner"} \/ resume[p] = "rename"

PublisherInv(p) ==
  /\ HoldsVerified(p) => staged[p].content = key[p]
  /\ HoldsSynced(p) => staged[p].synced
  /\ pc[p] = "unlink" => IsCorrupt(key[p]) \/ (object[key[p]] = Missing /\ key[p] \in withdrawn)
  /\ pc[p] \in {"sync_published", "reopen"} =>
       /\ object[key[p]] # Missing \/ key[p] \in withdrawn
       /\ IsValid(key[p]) \/ key[p] \in rotted \union withdrawn
  /\ pc[p] = "reopen" => onDisk[key[p]] = {object[key[p]]} \/ key[p] \in withdrawn

EntryInv(k) ==
  /\ k \notin rotted \union installed => onDisk[k] \union {object[k]} \subseteq {k, Missing}
  /\ k \notin installed /\ k \in onDisk[k] => IsValid(k)
  /\ k \in acked \ withdrawn =>
       /\ object[k] # Missing /\ onDisk[k] = {object[k]}
       /\ k \notin rotted => IsValid(k)
  /\ k \in withdrawn => k \in installed

DurableInv == (\A p \in Procs : PublisherInv(p)) /\ (\A k \in Keys : EntryInv(k))

\* Keys, Garbage and Missing are told apart.
LEMMA Distinct == \A k \in Keys : k # Missing /\ k # Garbage /\ Garbage # Missing
  BY PopulationAssumption DEF Contents

\* A process touches its own staged file only, and acknowledges its own key.
LEMMA TemporariesAreLocal ==
  ASSUME WellTyped, NEW p \in Procs, ProcessStep(p)
  PROVE  /\ \A q \in Procs \ {p} : staged'[q] = staged[q]
         /\ \A k \in Keys \ {key[p]} : k \in acked' <=> k \in acked
         /\ acked' # acked => pc[p] \in {"unlink", "reopen"}
  <1>. USE DEF WellTyped, temps, history, At
  <1>1. CASE Caller(p)
    BY <1>1 DEF Caller, Consume, Begin, Write, Publish, Abandon, RecordFailure, IntoWriter
  <1>2. CASE IoError(p) BY <1>2 DEF IoError
  <1>3. ASSUME NEW ttl \in Lifetimes, RecordTemp(p, ttl)
        PROVE  staged' = staged /\ acked' = acked
    BY <1>3 DEF RecordTemp
  <1>4. CASE UnlinkCorrupt(p) BY <1>4 DEF UnlinkCorrupt
  <1>5. CASE Reopen(p) BY <1>5 DEF Reopen
  <1>6. CASE CreateTemp(p) \/ SyncStaged(p) \/ Rename(p) \/ DropTemp(p)
    BY <1>6 DEF CreateTemp, SyncStaged, Rename, DropTemp
  <1>7. CASE \/ Inspect(p) \/ ReadFailure(p) \/ TryLock(p) \/ Recheck(p)
             \/ ClearAuxiliary(p) \/ SyncRemoved(p) \/ RecheckFailure(p)
             \/ MakeStagingDir(p) \/ SyncPublished(p) \/ InspectWinner(p)
             \/ RemoveDir(p) \/ Unlock(p) \/ RecordRename(p) \/ RecordSync(p)
    BY <1>7 DEF Inspect, ReadFailure, TryLock, Recheck, ClearAuxiliary, SyncRemoved,
                RecheckFailure, MakeStagingDir, SyncPublished, InspectWinner,
                RemoveDir, Unlock, RecordRename, RecordSync
  <1>. QED BY <1>1, <1>2, <1>3, <1>4, <1>5, <1>6, <1>7 DEF ProcessStep, Library

\* A step of another process does not disturb a publisher or a repair.
LEMMA PublisherUndisturbed ==
  ASSUME TypeOK, LockDiscipline, NEW p \in Procs, NEW q \in Procs, p # q,
         ProcessStep(p), PublisherInv(q)
  PROVE  PublisherInv(q)'
  <1>. USE DEF TypeOK, WellTyped
  <1>1. /\ pc'[q] = pc[q] /\ key'[q] = key[q] /\ resume'[q] = resume[q]
        /\ staged'[q] = staged[q]
        /\ rotted' = rotted /\ withdrawn' = withdrawn
    BY StepsAreLocal, TemporariesAreLocal DEF WritesOwnKey, environment
  <1>2. CASE pc[q] \in Locked
    <2>1. SameFiles(key[q])
      BY <1>2, KeysDiffer, StepsAreLocal DEF WritesOwnKey
    <2>. QED
      BY <1>1, <2>1 DEF PublisherInv, HoldsVerified, HoldsSynced, SameFiles, IsValid, IsCorrupt
  <1>3. CASE pc[q] \notin Locked
    <2>1. pc[q] \notin {"unlink", "sync_published", "reopen"}
      BY <1>3 DEF Locked, Deciding, Removing, Leaving
    <2>. QED BY <1>1, <2>1 DEF PublisherInv, HoldsVerified, HoldsSynced
  <1>. QED BY <1>2, <1>3

\* The publisher's own steps, and those of a repair.
LEMMA PublisherLibrary ==
  ASSUME TypeOK, NEW p \in Procs, PublisherInv(p), Library(p)
  PROVE  PublisherInv(p)'
  <1>. USE Distinct
       DEF TypeOK, WellTyped, PublisherInv, HoldsVerified, HoldsSynced, WriterHasTemp, At, GoTo,
           IsValid, IsCorrupt, Removing, disk, temps, calls, environment
  <1>1. CASE Inspect(p) BY <1>1 DEF Inspect
  <1>2. CASE ReadFailure(p) BY <1>2 DEF ReadFailure
  <1>4. CASE TryLock(p) BY <1>4 DEF TryLock
  <1>5. CASE Recheck(p) BY <1>5 DEF Recheck
  <1>6. CASE UnlinkCorrupt(p) BY <1>6 DEF UnlinkCorrupt
  <1>7. CASE ClearAuxiliary(p) BY <1>7 DEF ClearAuxiliary
  <1>8. CASE SyncRemoved(p) BY <1>8 DEF SyncRemoved
  <1>9. CASE RecheckFailure(p) BY <1>9 DEF RecheckFailure
  <1>10. CASE MakeStagingDir(p) BY <1>10 DEF MakeStagingDir
  <1>11. CASE CreateTemp(p) BY <1>11 DEF CreateTemp
  <1>12. CASE SyncStaged(p) BY <1>12 DEF SyncStaged
  <1>13. CASE Rename(p) BY <1>13 DEF Rename
  <1>14. CASE SyncPublished(p) BY <1>14 DEF SyncPublished
  <1>15. CASE Reopen(p) BY <1>15 DEF Reopen
  <1>16. CASE InspectWinner(p) BY <1>16 DEF InspectWinner
  <1>17. CASE DropTemp(p) BY <1>17 DEF DropTemp
  <1>18. CASE RemoveDir(p) BY <1>18 DEF RemoveDir
  <1>19. CASE Unlock(p) BY <1>19 DEF Unlock
  <1>20. CASE RecordRename(p) BY <1>20 DEF RecordRename
  <1>21. CASE RecordSync(p) BY <1>21 DEF RecordSync
  <1>22. ASSUME NEW ttl \in Lifetimes, RecordTemp(p, ttl) PROVE PublisherInv(p)'
    BY <1>22 DEF RecordTemp
  <1>. QED
    BY <1>1, <1>2, <1>4, <1>5, <1>6, <1>7, <1>8, <1>9, <1>10,
       <1>11, <1>12, <1>13, <1>14, <1>15, <1>16, <1>17, <1>18, <1>19, <1>20,
       <1>21, <1>22
    DEF Library

LEMMA PublisherCaller ==
  ASSUME TypeOK, NEW p \in Procs, PublisherInv(p), Caller(p) \/ IoError(p)
  PROVE  PublisherInv(p)'
  <1>. USE DEF TypeOK, WellTyped, PublisherInv, HoldsVerified, HoldsSynced, WriterHasTemp, At, GoTo,
           IsValid, IsCorrupt, Removing, disk, temps, calls, environment
  <1>1. ASSUME NEW k \in Keys, Begin(p, k) PROVE PublisherInv(p)'
    BY <1>1 DEF Begin
  <1>2. ASSUME NEW c \in Contents, Write(p, c) PROVE PublisherInv(p)'
    BY <1>2 DEF Write
  <1>3. CASE Publish(p) BY <1>3 DEF Publish
  <1>4. CASE Abandon(p) BY <1>4 DEF Abandon
  <1>5. CASE RecordFailure(p) BY <1>5 DEF RecordFailure
  <1>6. CASE IntoWriter(p) BY <1>6 DEF IntoWriter
  <1>7. CASE IoError(p) BY <1>7 DEF IoError, AfterError
  <1>. QED BY <1>1, <1>2, <1>3, <1>4, <1>5, <1>6, <1>7 DEF Caller, Consume

\* What a step does to the entry of the process's own key.
LEMMA OwnEntry ==
  ASSUME TypeOK, NEW p \in Procs, PublisherInv(p), NEW k \in Keys, k = key[p], EntryInv(k),
         ProcessStep(p)
  PROVE  EntryInv(k)'
  <1>. USE Distinct
       DEF TypeOK, WellTyped, EntryInv, IsValid, IsCorrupt, disk, history, environment, At
  <1>1. ASSUME UNCHANGED <<object, onDisk, acked, environment>> PROVE EntryInv(k)'
    BY <1>1
  <1>2. CASE Caller(p)
    BY <1>1, <1>2 DEF Caller, Consume, Begin, Write, Publish, Abandon, RecordFailure, IntoWriter
  <1>3. CASE IoError(p) BY <1>1, <1>3 DEF IoError
  <1>4. ASSUME NEW ttl \in Lifetimes, RecordTemp(p, ttl) PROVE EntryInv(k)'
    BY <1>1, <1>4 DEF RecordTemp
  <1>5. CASE UnlinkCorrupt(p)
    <2>1. ~IsValid(k) \/ k \in installed
      BY <1>5 DEF UnlinkCorrupt, PublisherInv
    <2>2. object'[k] = Missing /\ onDisk'[k] = onDisk[k] \union {Missing}
      BY <1>5 DEF UnlinkCorrupt
    <2>. QED BY <1>5, <2>1, <2>2 DEF UnlinkCorrupt
  <1>6. CASE SyncRemoved(p) BY <1>6 DEF SyncRemoved
  <1>7. CASE Rename(p)
    <2>1. staged[p].content = k /\ staged[p].synced
      BY <1>7 DEF Rename, PublisherInv, HoldsVerified, HoldsSynced
    <2>2. CASE object[k] = Missing
      <3>1. object'[k] = k /\ onDisk'[k] = onDisk[k] \union {k}
        BY <1>7, <2>1, <2>2 DEF Rename
      <3>2. k \notin acked \/ k \in withdrawn BY <2>2
      <3>. QED BY <1>7, <2>2, <3>1, <3>2 DEF Rename
    <2>3. CASE object[k] # Missing BY <1>1, <1>7, <2>3 DEF Rename
    <2>. QED BY <2>2, <2>3
  <1>8. CASE SyncPublished(p) BY <1>8 DEF SyncPublished
  <1>9. CASE Reopen(p) BY <1>9 DEF Reopen, PublisherInv
  <1>10. CASE \/ Inspect(p) \/ ReadFailure(p) \/ TryLock(p) \/ Recheck(p)
              \/ ClearAuxiliary(p) \/ RecheckFailure(p) \/ MakeStagingDir(p)
              \/ CreateTemp(p) \/ SyncStaged(p) \/ InspectWinner(p) \/ DropTemp(p)
              \/ RemoveDir(p) \/ Unlock(p) \/ RecordRename(p) \/ RecordSync(p)
    BY <1>1, <1>10
    DEF Inspect, ReadFailure, TryLock, Recheck, ClearAuxiliary, RecheckFailure, MakeStagingDir,
        CreateTemp, SyncStaged, InspectWinner, DropTemp, RemoveDir, Unlock, RecordRename,
        RecordSync
  <1>. QED
    BY <1>2, <1>3, <1>4, <1>5, <1>6, <1>7, <1>8, <1>9, <1>10 DEF ProcessStep, Library

LEMMA DurableProcess ==
  ASSUME TypeOK, LockDiscipline, DurableInv, NEW p \in Procs, ProcessStep(p)
  PROVE  DurableInv'
  <1>1. PublisherInv(p)'
    BY PublisherLibrary, PublisherCaller DEF DurableInv, ProcessStep
  <1>2. ASSUME NEW q \in Procs, q # p PROVE PublisherInv(q)'
    BY <1>2, PublisherUndisturbed DEF DurableInv
  <1>3. ASSUME NEW k \in Keys PROVE EntryInv(k)'
    <2>1. CASE k = key[p] BY <2>1, OwnEntry DEF DurableInv
    <2>2. CASE k # key[p]
      <3>1. /\ object'[k] = object[k] /\ onDisk'[k] = onDisk[k] /\ UNCHANGED environment
            /\ k \in acked' <=> k \in acked
        BY <2>2, StepsAreLocal, TemporariesAreLocal DEF TypeOK, WritesOwnKey, SameFiles
      <3>. QED BY <3>1 DEF DurableInv, EntryInv, IsValid, environment
    <2>. QED BY <2>1, <2>2
  <1>. QED BY <1>1, <1>2, <1>3 DEF DurableInv

\* Death ends every publication and repair of those who die.
LEMMA DeathIsClean ==
  ASSUME TypeOK, NEW P \in SUBSET Procs, Die(P), \A p \in Procs : PublisherInv(p),
         P = Procs \/ UNCHANGED <<object, onDisk>>
  PROVE  \A p \in Procs : PublisherInv(p)'
  BY DEF TypeOK, WellTyped, Die, PublisherInv, HoldsVerified, HoldsSynced, IsValid, IsCorrupt

LEMMA DurableEnvironment ==
  ASSUME TypeOK, DurableInv,
         \/ \E p \in Procs : Crash(p)
         \/ PowerLoss
         \/ Tick
         \/ \E k \in Keys : Rot(k) \/ LocklessWithdraw(k)
         \/ \E k \in Keys, c \in Contents : LocklessInstall(k, c)
  PROVE  DurableInv'
  <1>. USE DEF TypeOK, WellTyped, DurableInv
  <1>1. ASSUME NEW p \in Procs, Crash(p) PROVE DurableInv'
    <2>1. \A q \in Procs : PublisherInv(q)'
      BY <1>1, DeathIsClean DEF Crash, disk
    <2>. QED BY <1>1, <2>1 DEF Crash, Die, disk, EntryInv, IsValid
  <1>2. CASE PowerLoss
    <2>1. \A q \in Procs : PublisherInv(q)'
      BY <1>2, DeathIsClean DEF PowerLoss
    <2>2. ASSUME NEW k \in Keys PROVE EntryInv(k)'
      BY <1>2, <2>2 DEF PowerLoss, Die, EntryInv, IsValid
    <2>. QED BY <2>1, <2>2
  <1>3. CASE Tick
    BY <1>3 DEF Tick, disk, temps, calls, history, environment, PublisherInv, HoldsVerified,
                HoldsSynced, EntryInv, IsValid, IsCorrupt
  <1>4. ASSUME NEW k \in Keys, Rot(k) PROVE DurableInv'
    <2>0. /\ object'[k] = Garbage /\ k \notin onDisk'[k] /\ object[k] # Missing
          /\ onDisk[k] = {object[k]} => onDisk'[k] = {Garbage}
          /\ \A j \in Keys \ {k} : object'[j] = object[j] /\ onDisk'[j] = onDisk[j]
      <3>1. onDisk'[k] = {IF f = Missing THEN Missing ELSE Garbage : f \in onDisk[k]}
        BY <1>4 DEF Rot
      <3>2. object'[k] = Garbage /\ object[k] # Missing
        BY <1>4 DEF Rot
      <3>3. k \notin onDisk'[k] BY <3>1, Distinct
      <3>4. onDisk[k] = {object[k]} => onDisk'[k] = {Garbage} BY <3>1, <3>2
      <3>5. \A j \in Keys \ {k} : object'[j] = object[j] /\ onDisk'[j] = onDisk[j]
        BY <1>4 DEF Rot
      <3>. QED BY <3>2, <3>3, <3>4, <3>5
    <2>1. ASSUME NEW q \in Procs PROVE PublisherInv(q)'
      <3>1. CASE key[q] = k
        BY <1>4, <2>0, <3>1, Distinct
        DEF Rot, temps, calls, PublisherInv, HoldsVerified, HoldsSynced, IsValid, IsCorrupt
      <3>2. CASE key[q] # k
        BY <1>4, <2>0, <3>2
        DEF Rot, temps, calls, PublisherInv, HoldsVerified, HoldsSynced, IsValid, IsCorrupt
      <3>. QED BY <3>1, <3>2
    <2>2. ASSUME NEW j \in Keys PROVE EntryInv(j)'
      <3>1. CASE j = k
        BY <1>4, <2>0, <3>1, Distinct DEF Rot, history, EntryInv
      <3>2. CASE j # k
        <4>1. object'[j] = object[j] /\ onDisk'[j] = onDisk[j]
          BY <1>4, <3>2 DEF Rot
        <4>2. /\ UNCHANGED <<acked, installed, withdrawn>>
              /\ j \in rotted' <=> j \in rotted
          BY <1>4, <3>2 DEF Rot, history
        <4>. QED BY <4>1, <4>2 DEF EntryInv, IsValid
      <3>. QED BY <3>1, <3>2
    <2>. QED BY <2>1, <2>2
  <1>5. ASSUME NEW k \in Keys, LocklessWithdraw(k) PROVE DurableInv'
    <2>1. ASSUME NEW q \in Procs PROVE PublisherInv(q)'
      BY <1>5
      DEF LocklessWithdraw, temps, calls, PublisherInv, HoldsVerified, HoldsSynced, IsValid,
          IsCorrupt
    <2>2. ASSUME NEW j \in Keys PROVE EntryInv(j)'
      <3>1. CASE j = k BY <1>5, <3>1 DEF LocklessWithdraw, history, EntryInv
      <3>2. CASE j # k
        <4>1. object'[j] = object[j] /\ onDisk'[j] = onDisk[j]
          BY <1>5, <3>2 DEF LocklessWithdraw
        <4>2. /\ UNCHANGED <<acked, installed, rotted>>
              /\ j \in withdrawn' <=> j \in withdrawn
          BY <1>5, <3>2 DEF LocklessWithdraw, history
        <4>. QED BY <4>1, <4>2 DEF EntryInv, IsValid
      <3>. QED BY <3>1, <3>2
    <2>. QED BY <2>1, <2>2
  <1>6. ASSUME NEW k \in Keys, NEW c \in Contents, LocklessInstall(k, c) PROVE DurableInv'
    <2>1. ASSUME NEW q \in Procs PROVE PublisherInv(q)'
      <3>0. /\ object[k] = Missing /\ \A j \in Keys \ {k} : object'[j] = object[j]
            /\ \A j \in Keys \ {k} : onDisk'[j] = onDisk[j]
        BY <1>6 DEF LocklessInstall
      <3>1. UNCHANGED <<pc, key, resume, staged, rotted, withdrawn>>
        BY <1>6 DEF LocklessInstall, temps, calls
      <3>2. CASE key[q] = k
        <4>1. PublisherInv(q) /\ k \notin withdrawn
          BY <1>6 DEF LocklessInstall, EntryInv
        <4>2. pc[q] \notin {"unlink", "sync_published", "reopen"}
          BY <3>0, <3>2, <4>1 DEF PublisherInv, IsCorrupt
        <4>. QED BY <3>1, <3>2, <4>1, <4>2 DEF PublisherInv, HoldsVerified, HoldsSynced
      <3>3. CASE key[q] # k
        BY <3>0, <3>1, <3>3 DEF PublisherInv, HoldsVerified, HoldsSynced, IsValid, IsCorrupt
      <3>. QED BY <3>2, <3>3
    <2>2. ASSUME NEW j \in Keys PROVE EntryInv(j)'
      <3>1. CASE j = k BY <1>6, <3>1, Distinct DEF LocklessInstall, history, EntryInv
      <3>2. CASE j # k
        <4>1. object'[j] = object[j] /\ onDisk'[j] = onDisk[j]
          BY <1>6, <3>2 DEF LocklessInstall
        <4>2. /\ UNCHANGED <<acked, rotted, withdrawn>>
              /\ j \in installed' <=> j \in installed
          BY <1>6, <3>2 DEF LocklessInstall, history
        <4>. QED BY <4>1, <4>2 DEF EntryInv, IsValid
      <3>. QED BY <3>1, <3>2
    <2>. QED BY <2>1, <2>2
  <1>. QED BY <1>1, <1>2, <1>3, <1>4, <1>5, <1>6

LEMMA DurableNext == TypeOK /\ LockDiscipline /\ DurableInv /\ [Next]_vars => DurableInv'
  <1>. SUFFICES ASSUME TypeOK, LockDiscipline, DurableInv, [Next]_vars PROVE DurableInv'
    OBVIOUS
  <1>1. CASE UNCHANGED vars
    BY <1>1 DEF vars, disk, temps, calls, history, environment, DurableInv, PublisherInv,
                HoldsVerified, HoldsSynced, EntryInv, IsValid, IsCorrupt
  <1>. QED
    BY <1>1, DurableProcess, DurableEnvironment DEF Next, Environment, ProcessStep

LEMMA Durable == Spec => []DurableInv
  <1>1. Init => DurableInv
    BY Distinct DEF Init, DurableInv, PublisherInv, HoldsVerified, HoldsSynced, EntryInv
  <1>. QED BY <1>1, DurableNext, TypeCorrect, LockSafety, PTL DEF Spec

\* Whatever a crash or a power loss leaves under an entry's name is a complete
\* file for its build identifier, unless the medium damaged it or a process
\* without the lock put it there.
THEOREM EntriesAreComplete == Spec => []OnlyVerifiedVisible
  <1>1. DurableInv => OnlyVerifiedVisible
    BY DEF DurableInv, EntryInv, OnlyVerifiedVisible
  <1>. QED BY <1>1, Durable, PTL

\* An entry reported as published survives crashes, races and power losses.
THEOREM PublicationIsDurable == Spec => []AckedSurvives
  <1>1. TypeOK /\ DurableInv => AckedSurvives
    BY DEF TypeOK, WellTyped, DurableInv, EntryInv, AckedSurvives
  <1>. QED BY <1>1, TypeCorrect, Durable, PTL

\* What a step does to an object that verifies.
LEMMA ValidStep ==
  ASSUME TypeOK, DurableInv, [Next]_vars, NEW k \in Keys, IsValid(k), rotted' = rotted,
         losses' = losses, k \notin withdrawn'
  PROVE  object'[k] = k
  <1>. USE Distinct DEF TypeOK, WellTyped, IsValid
  <1>1. ASSUME NEW p \in Procs, UnlinkCorrupt(p) PROVE object'[k] = k
    BY <1>1 DEF UnlinkCorrupt, At, environment, DurableInv, PublisherInv, IsCorrupt
  <1>2. ASSUME NEW p \in Procs, Rename(p) PROVE object'[k] = k
    BY <1>2 DEF Rename
  <1>3. CASE object' = object BY <1>3
  <1>4. ASSUME NEW p \in Procs, Library(p) PROVE object'[k] = k
    BY <1>1, <1>2, <1>3, <1>4
    DEF Library, disk, Inspect, ReadFailure, TryLock, Recheck, ClearAuxiliary, SyncRemoved,
        RecheckFailure, MakeStagingDir, CreateTemp, SyncStaged, SyncPublished, Reopen,
        InspectWinner, DropTemp, RemoveDir, Unlock, RecordTemp, RecordRename, RecordSync
  <1>5. ASSUME NEW p \in Procs, Caller(p) \/ IoError(p) \/ Crash(p) PROVE object'[k] = k
    BY <1>3, <1>5
    DEF Caller, Consume, disk, Begin, Write, Publish, Abandon, RecordFailure, IntoWriter,
        IoError, Crash
  <1>6. CASE PowerLoss
    BY <1>6 DEF PowerLoss
  <1>7. CASE Tick BY <1>3, <1>7 DEF Tick, disk
  <1>8. ASSUME NEW j \in Keys, Rot(j) PROVE object'[k] = k
    BY <1>8 DEF Rot
  <1>9. ASSUME NEW j \in Keys, LocklessWithdraw(j) PROVE object'[k] = k
    BY <1>9 DEF LocklessWithdraw
  <1>10. ASSUME NEW j \in Keys, NEW c \in Contents, LocklessInstall(j, c) PROVE object'[k] = k
    BY <1>10 DEF LocklessInstall
  <1>. QED
    BY <1>3, <1>4, <1>5, <1>6, <1>7, <1>8, <1>9, <1>10 DEF Next, Environment, vars, disk

\* No population removes or replaces an object that verifies.
THEOREM RepairsOnlyTheCorrupt == Spec => ValidNeverReplaced
  <1>1. TypeOK /\ DurableInv /\ [Next]_vars =>
          [\A k \in Keys :
             IsValid(k) /\ rotted' = rotted /\ losses' = losses /\ k \notin withdrawn'
               => object'[k] = k]_vars
    BY ValidStep
  <1>. QED BY <1>1, TypeCorrect, Durable, PTL DEF Spec, ValidNeverReplaced

-----------------------------------------------------------------------------
(* Recorded failures.  A promise in force is what the negative file says,  *)
(* on disk as well; a repair clears the file of a damaged or foreign entry *)
(* only, and a recorder has put its own expiration there.                  *)

InForce(k) == promised[k] > now

RecordInv(k) ==
  k \notin rotted \union installed /\ InForce(k) =>
    negative[k] = promised[k] /\ negOnDisk[k] = {promised[k]}

RecorderInv(p) ==
  /\ pc[p] \in {"unlink", "clear", "clear_only", "sync_removed"} =>
       key[p] \in rotted \union installed
  /\ pc[p] = "record_sync" => negative[key[p]] = expires[p]

FailureInv == (\A p \in Procs : RecorderInv(p)) /\ (\A k \in Keys : RecordInv(k))

\* An expiration still to come, and no further than a lifetime away, is live.
LEMMA LiveWhenNear ==
  ASSUME NEW e \in Nat, now \in Nat, NearFuture(e), e > now
  PROVE  Live(e)
  <1>1. e # Missing BY PopulationAssumption
  <1>2. ASSUME NEW n \in Nat, NEW ttl \in Nat, e < n + ttl + TicksPerSecond
        PROVE  e - n < ttl + TicksPerSecond
    BY <1>2 DEF TicksPerSecond
  <1>3. MaxTTL \in Nat /\ e < now + MaxTTL + TicksPerSecond
    BY <1>1, PopulationAssumption DEF NearFuture
  <1>. QED BY <1>1, <1>2, <1>3 DEF Live

\* A promise in force is a record in force.
LEMMA PromiseIsLive ==
  ASSUME TypeOK, RecordsBounded, NEW k \in Keys, RecordInv(k), InForce(k),
         k \notin rotted \union installed
  PROVE  negative[k] = promised[k] /\ Live(negative[k])
  <1>1. negative[k] = promised[k] BY DEF RecordInv
  <1>2. promised[k] \in Nat /\ now \in Nat /\ NearFuture(promised[k])
    BY <1>1 DEF TypeOK, WellTyped, RecordsBounded
  <1>. QED BY <1>1, <1>2, LiveWhenNear DEF InForce

LEMMA RecorderOwn ==
  ASSUME TypeOK, DurableInv, NEW p \in Procs, RecorderInv(p), ProcessStep(p)
  PROVE  RecorderInv(p)'
  <1>. USE DEF TypeOK, WellTyped, RecorderInv, WriterHasTemp, Removing, At, GoTo, disk, calls,
           environment
  <1>1. ASSUME IsCorrupt(key[p]) PROVE key[p] \in rotted \union installed
    BY <1>1 DEF DurableInv, EntryInv, IsCorrupt
  <1>2. CASE Recheck(p) BY <1>1, <1>2 DEF Recheck
  <1>3. CASE InspectWinner(p) BY <1>1, <1>3 DEF InspectWinner
  <1>4. CASE UnlinkCorrupt(p) BY <1>4 DEF UnlinkCorrupt
  <1>5. CASE ClearAuxiliary(p) BY <1>5 DEF ClearAuxiliary
  <1>6. CASE SyncRemoved(p) BY <1>6 DEF SyncRemoved
  <1>7. CASE RecordRename(p) BY <1>7 DEF RecordRename
  <1>8. CASE RecordSync(p) BY <1>8 DEF RecordSync
  <1>9. CASE RemoveDir(p) BY <1>9 DEF RemoveDir
  <1>10. ASSUME NEW ttl \in Lifetimes, RecordTemp(p, ttl) PROVE RecorderInv(p)'
    BY <1>10 DEF RecordTemp
  <1>11. CASE IoError(p) BY <1>11 DEF IoError, AfterError
  <1>12. ASSUME NEW k \in Keys, Begin(p, k) PROVE RecorderInv(p)'
    BY <1>12 DEF Begin
  <1>13. ASSUME NEW c \in Contents, Write(p, c) PROVE RecorderInv(p)'
    BY <1>13 DEF Write
  <1>14. CASE Publish(p) \/ Abandon(p) \/ RecordFailure(p) \/ IntoWriter(p)
    BY <1>14 DEF Publish, Abandon, RecordFailure, IntoWriter
  <1>15. CASE \/ Inspect(p) \/ ReadFailure(p) \/ TryLock(p) \/ RecheckFailure(p)
              \/ MakeStagingDir(p) \/ CreateTemp(p) \/ SyncStaged(p) \/ Rename(p)
              \/ SyncPublished(p) \/ Reopen(p) \/ DropTemp(p) \/ Unlock(p)
    BY <1>15
    DEF Inspect, ReadFailure, TryLock, RecheckFailure, MakeStagingDir, CreateTemp, SyncStaged,
        Rename, SyncPublished, Reopen, DropTemp, Unlock
  <1>. QED
    BY <1>2, <1>3, <1>4, <1>5, <1>6, <1>7, <1>8, <1>9, <1>10, <1>11, <1>12, <1>13, <1>14, <1>15
    DEF ProcessStep, Library, Caller, Consume

LEMMA RecorderUndisturbed ==
  ASSUME TypeOK, LockDiscipline, NEW p \in Procs, NEW q \in Procs, p # q, ProcessStep(p),
         RecorderInv(q)
  PROVE  RecorderInv(q)'
  <1>1. /\ pc'[q] = pc[q] /\ key'[q] = key[q] /\ expires'[q] = expires[q]
        /\ UNCHANGED <<rotted, installed>>
    BY StepsAreLocal DEF TypeOK, WritesOwnKey, environment
  <1>2. pc[q] = "record_sync" => negative'[key[q]] = negative[key[q]]
    BY StepsAreLocal, KeysDiffer
    DEF TypeOK, WellTyped, WritesOwnKey, SameFiles, Locked, Recording
  <1>. QED BY <1>1, <1>2 DEF RecorderInv

\* Only the owner of a key writes its record, and only when none is in force.
LEMMA RecordOwn ==
  ASSUME TypeOK, RecordsBounded, NEW p \in Procs, OwnerInv(p), RecorderInv(p),
         NEW k \in Keys, RecordInv(k), ProcessStep(p)
  PROVE  RecordInv(k)'
  <1>1. UNCHANGED <<now, rotted, installed>>
    BY StepsAreLocal DEF TypeOK, WritesOwnKey, environment
  <1>2. ASSUME UNCHANGED <<negative, negOnDisk, promised>> PROVE RecordInv(k)'
    BY <1>1, <1>2 DEF RecordInv, InForce
  <1>3. ASSUME UNCHANGED promised, k # key[p] \/ ~InForce(k) \/ k \in rotted \union installed
        PROVE  RecordInv(k)'
    <2>1. CASE k # key[p]
      <3>1. SameFiles(k) BY <2>1, StepsAreLocal DEF TypeOK, WritesOwnKey
      <3>. QED BY <1>1, <1>3, <3>1 DEF SameFiles, RecordInv, InForce
    <2>2. CASE ~InForce(k) \/ k \in rotted \union installed
      BY <1>1, <1>3, <2>2 DEF RecordInv, InForce
    <2>. QED BY <1>3, <2>1, <2>2
  <1>4. CASE ClearAuxiliary(p)
    BY <1>3, <1>4 DEF ClearAuxiliary, At, RecorderInv, history
  <1>5. CASE RecheckFailure(p)
    <2>1. CASE UNCHANGED <<negative, negOnDisk>>
      BY <1>2, <1>5, <2>1 DEF RecheckFailure, history
    <2>2. CASE ~Live(negative[key[p]])
      <3>1. k # key[p] \/ ~InForce(k) \/ k \in rotted \union installed
        BY <2>2, PromiseIsLive
      <3>. QED BY <1>3, <1>5, <3>1 DEF RecheckFailure, history
    <2>. QED BY <1>5, <2>1, <2>2 DEF RecheckFailure
  <1>6. CASE RecordRename(p)
    <2>1. ~Live(negative[key[p]])
      BY <1>6 DEF RecordRename, At, OwnerInv, Owns, Populating
    <2>2. k # key[p] \/ ~InForce(k) \/ k \in rotted \union installed
      BY <2>1, PromiseIsLive
    <2>. QED BY <1>3, <1>6, <2>2 DEF RecordRename, history
  <1>7. CASE RecordSync(p)
    <2>1. CASE k = key[p]
      <3>1. /\ negative'[k] = expires[p] /\ negOnDisk'[k] = {expires[p]}
            /\ promised'[k] = expires[p]
        BY <1>7, <2>1 DEF RecordSync, At, RecorderInv, TypeOK, WellTyped
      <3>. QED BY <3>1 DEF RecordInv
    <2>2. CASE k # key[p]
      <3>1. SameFiles(k) BY <2>2, StepsAreLocal DEF TypeOK, WritesOwnKey
      <3>2. promised'[k] = promised[k]
        BY <1>7, <2>2 DEF RecordSync, TypeOK, WellTyped
      <3>. QED BY <1>1, <3>1, <3>2 DEF SameFiles, RecordInv, InForce
    <2>. QED BY <2>1, <2>2
  <1>8. CASE Caller(p) \/ IoError(p)
    BY <1>2, <1>8
    DEF Caller, Consume, Begin, Write, Publish, Abandon, RecordFailure, IntoWriter, IoError,
        disk, history
  <1>9. ASSUME NEW ttl \in Lifetimes, RecordTemp(p, ttl) PROVE RecordInv(k)'
    BY <1>2, <1>9 DEF RecordTemp, disk, history
  <1>10. CASE \/ Inspect(p) \/ ReadFailure(p) \/ TryLock(p) \/ Recheck(p)
              \/ UnlinkCorrupt(p) \/ SyncRemoved(p) \/ MakeStagingDir(p)
              \/ CreateTemp(p) \/ SyncStaged(p) \/ Rename(p) \/ SyncPublished(p)
              \/ Reopen(p) \/ InspectWinner(p) \/ DropTemp(p) \/ RemoveDir(p) \/ Unlock(p)
    BY <1>2, <1>10
    DEF Inspect, ReadFailure, TryLock, Recheck, UnlinkCorrupt, SyncRemoved, MakeStagingDir,
        CreateTemp, SyncStaged, Rename, SyncPublished, Reopen, InspectWinner, DropTemp,
        RemoveDir, Unlock, disk, history
  <1>. QED BY <1>4, <1>5, <1>6, <1>7, <1>8, <1>9, <1>10 DEF ProcessStep, Library

LEMMA FailureEnvironment ==
  ASSUME TypeOK, FailureInv,
         \/ \E p \in Procs : Crash(p)
         \/ PowerLoss
         \/ Tick
         \/ \E k \in Keys : Rot(k) \/ LocklessWithdraw(k)
         \/ \E k \in Keys, c \in Contents : LocklessInstall(k, c)
  PROVE  FailureInv'
  <1>. USE DEF TypeOK, WellTyped, FailureInv
  <1>1. ASSUME NEW P \in SUBSET Procs, Die(P), P = Procs \/ UNCHANGED disk
        PROVE  \A q \in Procs : RecorderInv(q)'
    BY <1>1 DEF Die, RecorderInv, disk
  <1>2. ASSUME NEW p \in Procs, Crash(p) PROVE FailureInv'
    <2>1. \A q \in Procs : RecorderInv(q)' BY <1>1, <1>2 DEF Crash
    <2>2. UNCHANGED <<negative, negOnDisk, promised, now, rotted, installed>>
      BY <1>2 DEF Crash, Die, disk
    <2>. QED BY <2>1, <2>2 DEF RecordInv, InForce
  <1>3. CASE PowerLoss
    <2>1. ASSUME NEW k \in Keys PROVE RecordInv(k)'
      BY <1>3 DEF PowerLoss, Die, RecordInv, InForce
    <2>. QED BY <1>1, <1>3, <2>1 DEF PowerLoss
  <1>4. CASE Tick
    <2>1. ASSUME NEW k \in Keys, InForce(k)' PROVE InForce(k)
      <3>1. promised[k] \in Nat /\ now \in Nat /\ now' = now + 1 /\ promised' = promised
        BY <1>4 DEF Tick, history
      <3>2. ASSUME NEW e \in Nat, NEW n \in Nat, e > n + 1 PROVE e > n
        BY <3>2
      <3>. QED BY <2>1, <3>1, <3>2 DEF InForce
    <2>. QED
      BY <1>4, <2>1 DEF Tick, disk, calls, history, environment, RecorderInv, RecordInv
  <1>5. ASSUME UNCHANGED <<negative, negOnDisk, pc, key, expires, promised, now>>,
               rotted \subseteq rotted', installed \subseteq installed'
        PROVE  FailureInv'
    BY <1>5 DEF RecorderInv, RecordInv, InForce
  <1>6. ASSUME NEW k \in Keys, Rot(k) \/ LocklessWithdraw(k) PROVE FailureInv'
    BY <1>5, <1>6 DEF Rot, LocklessWithdraw, calls, history
  <1>7. ASSUME NEW k \in Keys, NEW c \in Contents, LocklessInstall(k, c) PROVE FailureInv'
    BY <1>5, <1>7 DEF LocklessInstall, calls, history
  <1>. QED BY <1>2, <1>3, <1>4, <1>6, <1>7

LEMMA FailureNext ==
  TypeOK /\ LockDiscipline /\ RecordsBounded /\ OwnersInv /\ DurableInv /\ FailureInv
    /\ [Next]_vars => FailureInv'
  <1>. SUFFICES ASSUME TypeOK, LockDiscipline, RecordsBounded, OwnersInv, DurableInv, FailureInv,
                       [Next]_vars
                PROVE  FailureInv'
    OBVIOUS
  <1>1. ASSUME NEW p \in Procs, ProcessStep(p) PROVE FailureInv'
    <2>1. RecorderInv(p)' BY <1>1, RecorderOwn DEF FailureInv
    <2>2. ASSUME NEW q \in Procs, q # p PROVE RecorderInv(q)'
      BY <1>1, <2>2, RecorderUndisturbed DEF FailureInv
    <2>3. ASSUME NEW k \in Keys PROVE RecordInv(k)'
      BY <1>1, RecordOwn DEF FailureInv, OwnersInv
    <2>. QED BY <2>1, <2>2, <2>3 DEF FailureInv
  <1>2. CASE UNCHANGED vars
    BY <1>2 DEF vars, disk, calls, history, environment, FailureInv, RecorderInv, RecordInv,
                InForce
  <1>. QED BY <1>1, <1>2, FailureEnvironment DEF Next, Environment, ProcessStep

\* A failure reported as recorded is in force until it expires.
THEOREM FailuresAreHonoured == Spec => []FailureHonoured
  <1>1. Init => FailureInv
    <2>1. Init => \A k \in Keys : ~InForce(k)
      <3>1. ASSUME NEW n \in Nat PROVE ~(0 > n) OBVIOUS
      <3>. QED BY <3>1, PopulationAssumption DEF Init, InForce
    <2>. QED BY <2>1 DEF Init, FailureInv, RecorderInv, RecordInv
  <1>2. TypeOK /\ RecordsBounded /\ FailureInv => FailureHonoured
    BY PromiseIsLive DEF FailureInv, FailureHonoured, InForce
  <1>. QED
    BY <1>1, <1>2, FailureNext, TypeCorrect, LockSafety, BoundedAlways, OwnersAlways, Durable, PTL
    DEF Spec

-----------------------------------------------------------------------------
(* The population protocol implements the cache its callers see: every     *)
(* step is a step of PopulationPromise, or leaves what it shows unchanged. *)

PromisedStep == [Promise!Next]_<<PromisedEntry, PromisedOwner, acked, installed>>

Populates(p, k) == pc[p] \in Populating /\ key[p] = k

LEMMA PopulatingIsLocked == Populating \subseteq Locked
  BY DEF Populating, Locked, Staging, Recording

\* The owner of a key is the process that populates it, if there is one.
LEMMA OwnerMeaning ==
  ASSUME TypeOK, LockDiscipline, NEW k \in Keys
  PROVE  /\ PromisedOwner[k] \in Procs \union {NoProc}
         /\ \A p \in Procs : PromisedOwner[k] = p <=> Populates(p, k)
  BY PopulatingIsLocked, PopulationAssumption
  DEF PromisedOwner, Populates, LockDiscipline, Slot, TypeOK, WellTyped

LEMMA OwnerMeaningNext ==
  ASSUME TypeOK', LockDiscipline', NEW k \in Keys
  PROVE  /\ PromisedOwner'[k] \in Procs \union {NoProc}
         /\ \A p \in Procs : PromisedOwner'[k] = p <=> Populates(p, k)'
  BY PopulatingIsLocked, PopulationAssumption
  DEF PromisedOwner, Populates, LockDiscipline, Slot, TypeOK, WellTyped

\* A key changes owner only if some process starts or stops populating it.
LEMMA OwnerUnchanged ==
  ASSUME TypeOK, LockDiscipline, TypeOK', LockDiscipline', NEW k \in Keys,
         \A p \in Procs : Populates(p, k)' <=> Populates(p, k)
  PROVE  PromisedOwner'[k] = PromisedOwner[k]
  BY OwnerMeaning, OwnerMeaningNext, PopulationAssumption

LEMMA Ownerless ==
  ASSUME TypeOK', LockDiscipline', NEW k \in Keys, \A p \in Procs : ~Populates(p, k)'
  PROVE  PromisedOwner'[k] = NoProc
  BY OwnerMeaningNext

\* At most one process populates a key.
LEMMA SinglePopulation ==
  ASSUME TypeOK, LockDiscipline, NEW k \in Keys, NEW p \in Procs, NEW q \in Procs,
         Populates(p, k), Populates(q, k)
  PROVE  p = q
  BY OwnerMeaning

\* Steps that leave the entries alone: ownership is taken, given up or kept.
LEMMA OwnershipStep ==
  ASSUME TypeOK, LockDiscipline, TypeOK', LockDiscipline', NEW p \in Procs,
         UNCHANGED <<object, acked, installed, key>>,
         \A q \in Procs \ {p} : pc'[q] = pc[q],
         pc'[p] \in Populating => object[key[p]] = Missing \/ key[p] \in installed
  PROVE  PromisedStep
  <1>. DEFINE k == key[p]
  <1>0. k \in Keys /\ PromisedEntry' = PromisedEntry
    BY DEF TypeOK, WellTyped, PromisedEntry, IsValid
  <1>1. \A j \in Keys \ {k} : PromisedOwner'[j] = PromisedOwner[j]
    BY OwnerUnchanged DEF Populates
  <1>2. /\ DOMAIN PromisedOwner = Keys /\ DOMAIN PromisedOwner' = Keys
        /\ PromisedOwner = [j \in Keys |-> PromisedOwner[j]]
        /\ PromisedOwner' = [j \in Keys |-> PromisedOwner'[j]]
    BY DEF PromisedOwner
  <1>3. CASE pc[p] \in Populating <=> pc'[p] \in Populating
    <2>1. PromisedOwner'[k] = PromisedOwner[k]
      BY <1>0, <1>3, OwnerUnchanged DEF Populates
    <2>2. PromisedOwner' = PromisedOwner
      BY <1>1, <1>2, <2>1
    <2>. QED BY <1>0, <2>2 DEF PromisedStep
  <1>4. CASE pc[p] \in Populating /\ pc'[p] \notin Populating
    <2>1. \A q \in Procs : ~Populates(q, k)'
      BY <1>0, <1>4, SinglePopulation DEF Populates
    <2>2. PromisedOwner'[k] = NoProc BY <1>0, <2>1, Ownerless
    <2>3. PromisedOwner' = [PromisedOwner EXCEPT ![k] = NoProc]
      BY <1>1, <1>2, <2>2
    <2>4. Promise!GiveUp(k) BY <1>0, <2>3 DEF Promise!GiveUp
    <2>. QED BY <1>0, <2>4 DEF PromisedStep, Promise!Next
  <1>5. CASE pc[p] \notin Populating /\ pc'[p] \in Populating
    <2>1. PromisedOwner'[k] = p
      BY <1>0, <1>5, OwnerMeaningNext DEF Populates
    <2>2. \A q \in Procs : ~Populates(q, k)
      <3>1. ASSUME NEW q \in Procs, Populates(q, k) PROVE FALSE
        <4>1. q # p BY <1>5, <3>1 DEF Populates
        <4>2. Populates(q, k)' BY <3>1, <4>1 DEF Populates
        <4>. QED BY <1>0, <2>1, <4>1, <4>2, OwnerMeaningNext
      <3>. QED BY <3>1
    <2>3. PromisedOwner[k] = NoProc BY <1>0, <2>2, OwnerMeaning
    <2>4. \A j \in Keys : PromisedOwner[j] # p
      BY <1>5, OwnerMeaning DEF Populates
    <2>5. PromisedOwner' = [PromisedOwner EXCEPT ![k] = p]
      BY <1>1, <1>2, <2>1
    <2>6. PromisedEntry[k] = "absent" \/ k \in installed
      BY <1>0, <1>5 DEF PromisedEntry
    <2>7. Promise!Acquire(p, k)
      BY <1>0, <2>3, <2>4, <2>5, <2>6 DEF Promise!Acquire
    <2>. QED BY <1>0, <2>7 DEF PromisedStep, Promise!Next
  <1>. QED BY <1>3, <1>4, <1>5

\* Nobody starts or stops populating anything.
LEMMA OwnersKept ==
  ASSUME TypeOK, LockDiscipline, TypeOK', LockDiscipline',
         \A p \in Procs, k \in Keys : Populates(p, k)' <=> Populates(p, k)
  PROVE  PromisedOwner' = PromisedOwner
  <1>1. \A k \in Keys : PromisedOwner'[k] = PromisedOwner[k]
    BY OwnerUnchanged
  <1>. QED BY <1>1 DEF PromisedOwner

\* One entry changes.
LEMMA EntryChanged ==
  ASSUME TypeOK, TypeOK', NEW k \in Keys,
         \A j \in Keys \ {k} : object'[j] = object[j]
  PROVE  PromisedEntry' = [PromisedEntry EXCEPT ![k] =
           IF object'[k] = Missing THEN "absent"
           ELSE IF object'[k] = k THEN "complete" ELSE "damaged"]
  BY DEF PromisedEntry, IsValid

\* Removal of a corrupt entry is a repair.
LEMMA UnlinkIsRepair ==
  ASSUME TypeOK, LockDiscipline, TypeOK', LockDiscipline', DurableInv,
         NEW p \in Procs, UnlinkCorrupt(p)
  PROVE  PromisedStep
  <1>. DEFINE k == key[p]
  <1>0. k \in Keys /\ pc[p] = "unlink" BY DEF TypeOK, WellTyped, UnlinkCorrupt, At
  <1>1. \A q \in Procs, j \in Keys : Populates(q, j)' <=> Populates(q, j)
    BY DEF TypeOK, WellTyped, UnlinkCorrupt, At, GoTo, calls, Populates, Populating, Staging
  <1>2. PromisedOwner' = PromisedOwner BY <1>1, OwnersKept
  <1>3. object' = [object EXCEPT ![k] = Missing] /\ acked' = acked \ {k}
        /\ installed' = installed
    BY DEF UnlinkCorrupt, environment
  <1>4. PromisedEntry' = [PromisedEntry EXCEPT ![k] = "absent"]
    BY <1>0, <1>3, EntryChanged DEF TypeOK, WellTyped
  <1>5. PromisedEntry[k] = "damaged" \/ (PromisedEntry[k] = "absent" /\ k \in installed)
    BY <1>0 DEF DurableInv, PublisherInv, EntryInv, PromisedEntry, IsCorrupt, IsValid
  <1>6. Promise!Repair(k)
    BY <1>2, <1>3, <1>4, <1>5 DEF Promise!Repair
  <1>. QED BY <1>0, <1>6 DEF PromisedStep, Promise!Next

\* The rename completes the entry and ends its ownership.
LEMMA RenameCompletes ==
  ASSUME TypeOK, LockDiscipline, TypeOK', LockDiscipline', DurableInv,
         NEW p \in Procs, Rename(p), NEW k \in Keys, k = key[p], object[k] = Missing
  PROVE  PromisedStep
  <1>0. k # Missing /\ pc[p] = "rename"
    BY Distinct DEF TypeOK, WellTyped, Rename, At
  <1>1. /\ object' = [object EXCEPT ![k] = k] /\ pc' = [pc EXCEPT ![p] = "sync_published"]
        /\ key' = key /\ acked' = acked /\ installed' = installed
    BY <1>0 DEF Rename, GoTo, calls, history, environment, DurableInv, PublisherInv,
                HoldsVerified
  <1>2. Populates(p, k) /\ \A q \in Procs : ~Populates(q, k)'
    <2>1. Populates(p, k) BY <1>0 DEF Populates, Populating, Staging
    <2>2. ~Populates(p, k)'
      BY <1>1 DEF TypeOK, WellTyped, Populates, Populating, Staging
    <2>3. ASSUME NEW q \in Procs, q # p PROVE ~Populates(q, k)'
      BY <1>0, <1>1, <2>1, <2>3, SinglePopulation DEF Populates
    <2>. QED BY <2>1, <2>2, <2>3
  <1>3. PromisedOwner[k] = p /\ PromisedOwner'[k] = NoProc
    BY <1>0, <1>2, OwnerMeaning, Ownerless
  <1>4. ASSUME NEW j \in Keys, j # k PROVE PromisedOwner'[j] = PromisedOwner[j]
    BY <1>1, <1>4, OwnerUnchanged DEF Populates
  <1>5. PromisedOwner' = [PromisedOwner EXCEPT ![k] = NoProc]
    BY <1>3, <1>4 DEF PromisedOwner
  <1>6. PromisedEntry' = [PromisedEntry EXCEPT ![k] = "complete"]
    BY <1>0, <1>1, EntryChanged DEF TypeOK, WellTyped
  <1>7. PromisedEntry[k] = "absent" BY <1>0 DEF PromisedEntry
  <1>8. p # NoProc BY PopulationAssumption
  <1>9. Promise!Complete(k)
    BY <1>1, <1>3, <1>5, <1>6, <1>7, <1>8 DEF Promise!Complete
  <1>. QED BY <1>0, <1>9 DEF PromisedStep, Promise!Next

LEMMA ProcessKeepsPromise ==
  ASSUME TypeOK, LockDiscipline, TypeOK', LockDiscipline', DurableInv, OwnersInv',
         NEW p \in Procs, ProcessStep(p)
  PROVE  PromisedStep
  <1>0. key[p] \in Keys BY DEF TypeOK, WellTyped
  <1>1. ASSUME NEW k \in Keys, Begin(p, k) PROVE PromisedStep
    <2>1. /\ pc[p] = "idle" /\ pc' = [pc EXCEPT ![p] = "inspect"]
          /\ key' = [key EXCEPT ![p] = k]
          /\ UNCHANGED <<object, acked, installed>>
      BY <1>1 DEF Begin, At, GoTo, disk, history, environment
    <2>2. \A q \in Procs, j \in Keys : Populates(q, j)' <=> Populates(q, j)
      BY <2>1 DEF TypeOK, WellTyped, Populates, Populating, Staging
    <2>3. PromisedOwner' = PromisedOwner BY <2>2, OwnersKept
    <2>4. PromisedEntry' = PromisedEntry BY <2>1 DEF PromisedEntry, IsValid
    <2>. QED BY <2>1, <2>3, <2>4 DEF PromisedStep
  <1>2. CASE UnlinkCorrupt(p) BY <1>2, UnlinkIsRepair
  <1>3. CASE Rename(p) /\ object[key[p]] = Missing BY <1>0, <1>3, RenameCompletes
  <1>4. CASE Reopen(p) /\ object[key[p]] # Missing
    <2>1. \A q \in Procs, j \in Keys : Populates(q, j)' <=> Populates(q, j)
      BY <1>4 DEF TypeOK, WellTyped, Reopen, At, GoTo, calls, Populates, Populating, Staging
    <2>2. PromisedOwner' = PromisedOwner BY <2>1, OwnersKept
    <2>3. object' = object /\ acked' = acked \union {key[p]} /\ installed' = installed
      BY <1>4 DEF Reopen, disk, environment
    <2>4. PromisedEntry' = PromisedEntry /\ PromisedEntry[key[p]] # "absent"
      BY <1>0, <1>4, <2>3 DEF PromisedEntry, IsValid
    <2>5. Promise!Acknowledge(key[p])
      BY <2>2, <2>3, <2>4 DEF Promise!Acknowledge
    <2>. QED BY <1>0, <2>5 DEF PromisedStep, Promise!Next
  <1>5. ASSUME UNCHANGED <<object, acked, key>> PROVE PromisedStep
    <2>1. installed' = installed /\ \A q \in Procs \ {p} : pc'[q] = pc[q]
      BY StepsAreLocal DEF TypeOK, WritesOwnKey, environment
    <2>2. pc'[p] \in Populating => object[key[p]] = Missing \/ key[p] \in installed
      BY <1>5, <2>1 DEF OwnersInv, OwnerInv, Owns
    <2>. QED BY <1>5, <2>1, <2>2, OwnershipStep
  <1>6. CASE Rename(p) /\ object[key[p]] # Missing
    BY <1>5, <1>6 DEF Rename, calls, history
  <1>7. CASE Reopen(p) /\ object[key[p]] = Missing
    BY <1>5, <1>7 DEF Reopen, disk, calls
  <1>8. CASE IoError(p) BY <1>5, <1>8 DEF IoError, disk, history
  <1>9. CASE Caller(p)
    BY <1>1, <1>5, <1>9
    DEF Caller, Consume, Write, Publish, Abandon, RecordFailure, IntoWriter, disk, calls, history
  <1>10. ASSUME NEW ttl \in Lifetimes, RecordTemp(p, ttl) PROVE PromisedStep
    BY <1>5, <1>10 DEF RecordTemp, disk, history
  <1>11. CASE \/ Inspect(p) \/ ReadFailure(p) \/ TryLock(p) \/ Recheck(p)
              \/ ClearAuxiliary(p) \/ SyncRemoved(p) \/ RecheckFailure(p)
              \/ MakeStagingDir(p) \/ CreateTemp(p) \/ SyncStaged(p)
              \/ SyncPublished(p) \/ InspectWinner(p) \/ DropTemp(p)
              \/ RemoveDir(p) \/ Unlock(p) \/ RecordRename(p) \/ RecordSync(p)
    BY <1>5, <1>11
    DEF Inspect, ReadFailure, TryLock, Recheck, ClearAuxiliary, SyncRemoved, RecheckFailure,
        MakeStagingDir, CreateTemp, SyncStaged, SyncPublished, InspectWinner, DropTemp,
        RemoveDir, Unlock, RecordRename, RecordSync, disk, calls, history
  <1>. QED
    BY <1>2, <1>3, <1>4, <1>6, <1>7, <1>8, <1>9, <1>10, <1>11 DEF ProcessStep, Library

\* Everybody dies in a power loss, and only what was synchronized is certain.
LEMMA PowerLossIsPromised ==
  ASSUME TypeOK, LockDiscipline, TypeOK', LockDiscipline', DurableInv, PowerLoss
  PROVE  PromisedStep
  <1>1. /\ \A q \in Procs : pc'[q] = "idle"
        /\ UNCHANGED <<acked, installed>>
        /\ \A k \in Keys : object'[k] \in onDisk[k]
    BY DEF PowerLoss, Die
  <1>2. ASSUME NEW k \in Keys PROVE PromisedOwner'[k] = NoProc
    BY <1>1, Ownerless DEF Populates, Populating, Staging
  <1>3. PromisedOwner' = [k \in Keys |-> NoProc]
    BY <1>2 DEF PromisedOwner
  <1>4. PromisedEntry' \in [Keys -> Promise!States]
    BY DEF PromisedEntry, Promise!States
  <1>5. ASSUME NEW k \in Keys \ installed, PromisedEntry'[k] = "complete"
        PROVE  PromisedEntry[k] = "complete"
    BY <1>1, <1>5, Distinct DEF PromisedEntry, IsValid, DurableInv, EntryInv
  <1>6. ASSUME NEW k \in Keys, k \in acked \ installed, PromisedEntry[k] = "complete"
        PROVE  PromisedEntry'[k] = "complete"
    BY <1>1, <1>6 DEF PromisedEntry, IsValid, DurableInv, EntryInv
  <1>7. Promise!LosePower
    BY <1>1, <1>3, <1>4, <1>5, <1>6 DEF Promise!LosePower, TypeOK, WellTyped
  <1>. QED BY <1>7 DEF PromisedStep, Promise!Next

LEMMA EnvironmentKeepsPromise ==
  ASSUME TypeOK, LockDiscipline, TypeOK', LockDiscipline', DurableInv,
         \/ \E p \in Procs : Crash(p)
         \/ Tick
         \/ \E k \in Keys : Rot(k) \/ LocklessWithdraw(k)
         \/ \E k \in Keys, c \in Contents : LocklessInstall(k, c)
  PROVE  PromisedStep
  <1>1. ASSUME NEW p \in Procs, Crash(p) PROVE PromisedStep
    <2>1. /\ UNCHANGED <<object, acked, installed, key>>
          /\ \A q \in Procs \ {p} : pc'[q] = pc[q]
          /\ pc'[p] = "idle"
      BY <1>1 DEF Crash, Die, disk
    <2>. QED BY <2>1, OwnershipStep DEF Populating, Staging
  <1>2. ASSUME UNCHANGED <<pc, key>> PROVE PromisedOwner' = PromisedOwner
    BY <1>2, OwnersKept DEF Populates
  <1>3. CASE Tick
    <2>1. UNCHANGED <<object, acked, installed, pc, key>>
      BY <1>3 DEF Tick, disk, calls, history, environment
    <2>2. PromisedEntry' = PromisedEntry BY <2>1 DEF PromisedEntry, IsValid
    <2>. QED BY <1>2, <2>1, <2>2 DEF PromisedStep
  <1>4. ASSUME NEW k \in Keys, Rot(k) PROVE PromisedStep
    <2>1. /\ object' = [object EXCEPT ![k] = Garbage] /\ object[k] # Missing
          /\ UNCHANGED <<acked, installed, pc, key>>
      BY <1>4 DEF Rot, calls, history
    <2>2. PromisedEntry' = [PromisedEntry EXCEPT ![k] = "damaged"]
      BY <2>1, EntryChanged, Distinct DEF TypeOK, WellTyped
    <2>3. CASE PromisedEntry[k] = "complete"
      <3>1. Promise!Damage(k) BY <1>2, <2>1, <2>2, <2>3 DEF Promise!Damage
      <3>. QED BY <3>1 DEF PromisedStep, Promise!Next
    <2>4. CASE PromisedEntry[k] # "complete"
      <3>1. PromisedEntry[k] = "damaged" BY <2>1, <2>4 DEF PromisedEntry
      <3>2. PromisedEntry' = PromisedEntry BY <2>2, <3>1 DEF PromisedEntry
      <3>. QED BY <1>2, <2>1, <3>2 DEF PromisedStep
    <2>. QED BY <2>3, <2>4
  <1>5. ASSUME NEW k \in Keys, LocklessWithdraw(k) PROVE PromisedStep
    <2>1. /\ object' = [object EXCEPT ![k] = Missing] /\ object[k] # Missing /\ k \in installed
          /\ UNCHANGED <<acked, installed, pc, key>>
      BY <1>5 DEF LocklessWithdraw, calls, history
    <2>2. PromisedEntry' = [PromisedEntry EXCEPT ![k] = "absent"]
      BY <2>1, EntryChanged DEF TypeOK, WellTyped
    <2>3. PromisedEntry[k] # "absent" BY <2>1 DEF PromisedEntry
    <2>4. Promise!Withdraw(k) BY <1>2, <2>1, <2>2, <2>3 DEF Promise!Withdraw
    <2>. QED BY <2>4 DEF PromisedStep, Promise!Next
  <1>6. ASSUME NEW k \in Keys, NEW c \in Contents, LocklessInstall(k, c) PROVE PromisedStep
    <2>1. /\ object' = [object EXCEPT ![k] = c] /\ object[k] = Missing /\ k \notin installed
          /\ installed' = installed \union {k}
          /\ UNCHANGED <<acked, pc, key>>
      BY <1>6 DEF LocklessInstall, calls, history
    <2>2. c # Missing BY PopulationAssumption
    <2>3. PromisedEntry' = [PromisedEntry EXCEPT ![k] = IF c = k THEN "complete" ELSE "damaged"]
      BY <2>1, <2>2, EntryChanged DEF TypeOK, WellTyped
    <2>4. PromisedEntry[k] = "absent" BY <2>1 DEF PromisedEntry
    <2>5. Promise!Install(k) BY <1>2, <2>1, <2>3, <2>4 DEF Promise!Install
    <2>. QED BY <2>5 DEF PromisedStep, Promise!Next
  <1>. QED BY <1>1, <1>3, <1>4, <1>5, <1>6

LEMMA StepKeepsPromise ==
  TypeOK /\ LockDiscipline /\ DurableInv /\ [Next]_vars /\ TypeOK' /\ LockDiscipline' /\ OwnersInv'
    => PromisedStep
  <1>. SUFFICES ASSUME TypeOK, LockDiscipline, DurableInv, [Next]_vars,
                       TypeOK', LockDiscipline', OwnersInv'
                PROVE  PromisedStep
    OBVIOUS
  <1>1. ASSUME NEW p \in Procs, ProcessStep(p) PROVE PromisedStep
    BY <1>1, ProcessKeepsPromise
  <1>2. CASE Environment
    BY <1>1, <1>2, PowerLossIsPromised, EnvironmentKeepsPromise DEF Environment, ProcessStep
  <1>3. CASE UNCHANGED vars
    <2>1. UNCHANGED <<object, acked, installed, pc, key>>
      BY <1>3 DEF vars, disk, calls, history, environment
    <2>2. PromisedOwner' = PromisedOwner BY <2>1, OwnersKept DEF Populates
    <2>3. PromisedEntry' = PromisedEntry BY <2>1 DEF PromisedEntry, IsValid
    <2>. QED BY <2>1, <2>2, <2>3 DEF PromisedStep
  <1>. QED BY <1>1, <1>2, <1>3 DEF Next, ProcessStep

\* The population protocol implements the promise.
THEOREM PromiseKept == Spec => ImplementsPromise
  <1>1. Init => Promise!Init
    <2>1. ASSUME Init, NEW k \in Keys PROVE PromisedEntry[k] = "absent" /\ PromisedOwner[k] = NoProc
      BY <2>1, PopulationAssumption DEF Init, PromisedEntry, PromisedOwner
    <2>. QED BY <2>1 DEF Init, Promise!Init, PromisedEntry, PromisedOwner
  <1>. QED
    BY <1>1, StepKeepsPromise, TypeCorrect, LockSafety, Durable, OwnersAlways, PTL
    DEF Spec, ImplementsPromise, Promise!Spec, PromisedStep

-----------------------------------------------------------------------------
(* A pass changes an entry only while it holds the entry's slot, and then  *)
(* no call is past the lock with it.  A staged file belongs to a call past *)
(* the lock, so the sweep of a staging directory never meets one.          *)

WellPlaced ==
  /\ mpc \in [Keepers -> {"idle", "scan", "inspect", "lock"} \union Holding]
  /\ mkey \in [Keepers -> Keys]

KeepersHold == \A m \in Keepers : mpc[m] \in Holding => holder[SlotOf[mkey[m]]] = m

StagingInv(p) ==
  /\ staged[p] # Missing =>
       \/ pc[p] \in {"writing", "sync_staged", "rename", "winner", "drop_temp"}
       \/ resume[p] = "rename"
  /\ pc[p] \in Staging \/ resume[p] = "rename" => key[p] \in stagingDirs

ScrubInv ==
  /\ TypeOK /\ LockDiscipline
  /\ WellPlaced /\ KeepersHold
  /\ \A p \in Procs : StagingInv(p)

\* A step of a call keeps its own staging.
LEMMA StagingLibrary ==
  ASSUME TypeOK, NEW p \in Procs, StagingInv(p), Library(p)
  PROVE  StagingInv(p)'
  <1>. USE DEF TypeOK, WellTyped, WriterHasTemp, StagingInv, At, GoTo, temps, calls, Staging,
           Removing
  <1>1. CASE Inspect(p) BY <1>1 DEF Inspect
  <1>2. CASE ReadFailure(p) BY <1>2 DEF ReadFailure
  <1>3. CASE TryLock(p) BY <1>3 DEF TryLock
  <1>4. CASE Recheck(p) BY <1>4 DEF Recheck
  <1>5. CASE UnlinkCorrupt(p) BY <1>5 DEF UnlinkCorrupt
  <1>6. CASE ClearAuxiliary(p) BY <1>6 DEF ClearAuxiliary
  <1>7. CASE SyncRemoved(p) BY <1>7 DEF SyncRemoved
  <1>8. CASE RecheckFailure(p) BY <1>8 DEF RecheckFailure
  <1>9. CASE MakeStagingDir(p) BY <1>9 DEF MakeStagingDir
  <1>10. CASE CreateTemp(p) BY <1>10 DEF CreateTemp
  <1>11. CASE SyncStaged(p) BY <1>11 DEF SyncStaged
  <1>12. CASE Rename(p) BY <1>12 DEF Rename
  <1>13. CASE SyncPublished(p) BY <1>13 DEF SyncPublished
  <1>14. CASE Reopen(p) BY <1>14 DEF Reopen
  <1>15. CASE InspectWinner(p) BY <1>15 DEF InspectWinner
  <1>16. CASE DropTemp(p) BY <1>16 DEF DropTemp
  <1>17. CASE RemoveDir(p) BY <1>17 DEF RemoveDir
  <1>18. CASE Unlock(p) BY <1>18 DEF Unlock
  <1>19. CASE RecordRename(p) BY <1>19 DEF RecordRename
  <1>20. CASE RecordSync(p) BY <1>20 DEF RecordSync
  <1>21. ASSUME NEW ttl \in Lifetimes, RecordTemp(p, ttl) PROVE StagingInv(p)'
    BY <1>21 DEF RecordTemp
  <1>. QED
    BY <1>1, <1>2, <1>3, <1>4, <1>5, <1>6, <1>7, <1>8, <1>9, <1>10, <1>11, <1>12,
       <1>13, <1>14, <1>15, <1>16, <1>17, <1>18, <1>19, <1>20, <1>21
    DEF Library

LEMMA StagingCaller ==
  ASSUME TypeOK, NEW p \in Procs, StagingInv(p), Caller(p) \/ IoError(p)
  PROVE  StagingInv(p)'
  <1>. USE DEF TypeOK, WellTyped, WriterHasTemp, StagingInv, At, GoTo, temps, calls, Staging,
           Removing
  <1>1. ASSUME NEW k \in Keys, Begin(p, k) PROVE StagingInv(p)'
    BY <1>1 DEF Begin
  <1>2. ASSUME NEW c \in Contents, Write(p, c) PROVE StagingInv(p)'
    BY <1>2 DEF Write
  <1>3. CASE Publish(p) BY <1>3 DEF Publish
  <1>4. CASE Abandon(p) BY <1>4 DEF Abandon
  <1>5. CASE RecordFailure(p) BY <1>5 DEF RecordFailure
  <1>6. CASE IntoWriter(p) BY <1>6 DEF IntoWriter
  <1>7. CASE IoError(p)
    <2>1. /\ pc'[p] = AfterError(p) /\ resume'[p] = "unlock"
          /\ staged' = staged
      BY <1>7 DEF IoError
    <2>2. AfterError(p) \notin Staging
      BY DEF AfterError
    <2>3. staged[p] # Missing => AfterError(p) \in {"idle", "drop_temp"}
      BY DEF AfterError
    <2>4. staged[p] # Missing => pc[p] \notin Unlocked
      BY DEF Unlocked
    <2>. QED BY <2>1, <2>2, <2>3, <2>4 DEF AfterError
  <1>. QED BY <1>1, <1>2, <1>3, <1>4, <1>5, <1>6, <1>7 DEF Caller, Consume

\* What a process stages is its own, and it removes no directory but its own.
StagesOwn(p) ==
  /\ \A q \in Procs \ {p} : staged'[q] = staged[q]
  /\ \A k \in stagingDirs \ stagingDirs' : k = key[p] /\ pc[p] \in Locked

LEMMA StagingIsLocal == ASSUME TypeOK, NEW p \in Procs, ProcessStep(p) PROVE StagesOwn(p)
  BY DEF TypeOK, WellTyped, ProcessStep, StagesOwn, Library, Caller, Consume, temps, At, Locked,
     Leaving, Inspect, ReadFailure, TryLock, Recheck, UnlinkCorrupt, ClearAuxiliary,
     SyncRemoved, RecheckFailure, MakeStagingDir, CreateTemp, SyncStaged, Rename,
     SyncPublished, Reopen, InspectWinner, DropTemp, RemoveDir, Unlock, RecordTemp,
     RecordRename, RecordSync, Begin, Write, Publish, Abandon, RecordFailure, IntoWriter,
     IoError

LEMMA StagingIsLocked ==
  ASSUME TypeOK, NEW p \in Procs, StagingInv(p),
         staged[p] # Missing \/ pc[p] \in Staging \/ resume[p] = "rename"
  PROVE  pc[p] \in Locked
  BY DEF TypeOK, WriterHasTemp, StagingInv, Staging, Locked, Deciding, Removing, Leaving

LEMMA StagingUndisturbed ==
  ASSUME TypeOK, LockDiscipline, NEW p \in Procs, NEW q \in Procs, p # q, ProcessStep(p),
         StagingInv(q)
  PROVE  StagingInv(q)'
  <1>1. pc'[q] = pc[q] /\ key'[q] = key[q] /\ resume'[q] = resume[q]
    BY StepsAreLocal DEF WritesOwnKey, TypeOK
  <1>2. staged'[q] = staged[q]
    BY StagingIsLocal DEF StagesOwn
  <1>3. pc[q] \in Staging \/ resume[q] = "rename" => key[q] \in stagingDirs'
    <2>1. SUFFICES ASSUME pc[q] \in Staging \/ resume[q] = "rename" PROVE key[q] \in stagingDirs'
      OBVIOUS
    <2>2. pc[q] \in Locked /\ key[q] \in stagingDirs
      BY <2>1, StagingIsLocked DEF StagingInv
    <2>. QED BY <2>2, StagingIsLocal, KeysDiffer DEF StagesOwn
  <1>. QED BY <1>1, <1>2, <1>3 DEF StagingInv

LEMMA StagingNext ==
  ASSUME TypeOK, LockDiscipline, \A p \in Procs : StagingInv(p), [Next]_vars
  PROVE  \A p \in Procs : StagingInv(p)'
  <1>1. ASSUME NEW p \in Procs, ProcessStep(p), NEW q \in Procs PROVE StagingInv(q)'
    BY <1>1, StagingLibrary, StagingCaller, StagingUndisturbed DEF ProcessStep
  <1>2. ASSUME NEW P \in SUBSET Procs, Die(P), NEW q \in Procs PROVE StagingInv(q)'
    BY <1>2 DEF Die, StagingInv, Staging
  <1>3. ASSUME UNCHANGED <<temps, pc, calls>>, NEW q \in Procs PROVE StagingInv(q)'
    BY <1>3 DEF StagingInv, temps, calls
  <1>. QED
    BY <1>1, <1>2, <1>3
    DEF Next, Environment, ProcessStep, Crash, PowerLoss, Tick, Rot, LocklessInstall,
        LocklessWithdraw, vars

\* No step of a population takes the slot of a pass.
LEMMA KeepersUndisturbed ==
  ASSUME TypeOK, LockDiscipline, [Next]_vars, NEW s \in Slots, holder[s] \in Keepers
  PROVE  holder'[s] = holder[s]
  <1>. USE PopulationAssumption DEF TypeOK, WellTyped
  <1>1. ASSUME NEW p \in Procs, TryLock(p) PROVE holder'[s] = holder[s]
    BY <1>1 DEF TryLock, Slot
  <1>2. ASSUME NEW p \in Procs, Unlock(p) PROVE holder'[s] = holder[s]
    BY <1>2 DEF Unlock, Slot, LockDiscipline, At, Locked
  <1>3. ASSUME NEW P \in SUBSET Procs, Die(P) PROVE holder'[s] = holder[s]
    BY <1>3 DEF Die
  <1>4. ASSUME NEW p \in Procs, Library(p) PROVE holder'[s] = holder[s]
    BY <1>1, <1>2, <1>4, StaysLocked DEF Library
  <1>5. ASSUME NEW p \in Procs, Caller(p) PROVE holder'[s] = holder[s]
    BY <1>5, StaysLocked DEF Caller, Consume, Begin
  <1>6. CASE Environment
    BY <1>3, <1>6 DEF Environment, IoError, Crash, PowerLoss, Tick, Rot, LocklessInstall,
                      LocklessWithdraw
  <1>. QED BY <1>4, <1>5, <1>6 DEF Next, vars

LEMMA PopulationKeepsScrubInv ==
  ASSUME ScrubInv, [Next]_vars, UNCHANGED <<mpc, mkey>>
  PROVE  ScrubInv'
  <1>1. TypeOK' /\ LockDiscipline'
    BY TypeNext, LockNext DEF ScrubInv
  <1>2. KeepersHold'
    <2>1. ASSUME NEW m \in Keepers, mpc[m] \in Holding
          PROVE  holder'[SlotOf[mkey[m]]] = m
      <3>1. SlotOf[mkey[m]] \in Slots /\ holder[SlotOf[mkey[m]]] = m
        BY <2>1, PopulationAssumption DEF ScrubInv, WellPlaced, KeepersHold
      <3>. QED BY <3>1, KeepersUndisturbed DEF ScrubInv
    <2>. QED BY <2>1 DEF KeepersHold
  <1>3. WellPlaced'
    BY DEF ScrubInv, WellPlaced
  <1>. QED BY <1>1, <1>2, <1>3, StagingNext DEF ScrubInv

-----------------------------------------------------------------------------
(* The steps of a pass.                                                    *)

\* A pass that holds the slot of k meets no call past the lock with k.
LEMMA NobodyPopulates ==
  ASSUME ScrubInv, NEW m \in Keepers, mpc[m] \in Holding, NEW p \in Procs, key[p] = mkey[m]
  PROVE  pc[p] \notin Locked
  BY PopulationAssumption DEF ScrubInv, KeepersHold, LockDiscipline, Slot

\* The sweep of a staging directory takes no file of the living.
LEMMA SweepSpares ==
  ASSUME ScrubInv, NEW m \in Keepers, mpc[m] \in Holding, Sweep(m)
  PROVE  staged' = staged
  <1>1. ASSUME NEW p \in Procs, key[p] = mkey[m] PROVE staged[p] = Missing
    BY <1>1, NobodyPopulates, StagingIsLocked DEF ScrubInv
  <1>. QED BY <1>1 DEF Sweep, ScrubInv, TypeOK, WellTyped

\* The locks of a pass: its own slot, and no other.
LocksOwn(m) ==
  /\ \A s \in Slots : \/ holder'[s] = holder[s]
                      \/ holder[s] = NoProc /\ holder'[s] = m
                      \/ holder[s] = m /\ holder'[s] = NoProc
  /\ holder' \in [Slots -> Procs \union Keepers \union {NoProc}]
  /\ mpc'[m] \in Holding => holder'[SlotOf[mkey'[m]]] = m
  /\ \A n \in Keepers \ {m} : mpc'[n] = mpc[n] /\ mkey'[n] = mkey[n]
  /\ WellPlaced'

LEMMA PassLocksOwn ==
  ASSUME ScrubInv, NEW m \in Keepers, ScrubStep(m) \/ AbortScrub(m)
  PROVE  LocksOwn(m)
  <1>. USE PopulationAssumption
       DEF ScrubInv, TypeOK, WellTyped, WellPlaced, KeepersHold, LocksOwn, MAt, MGoTo, Holding,
           vars
  <1>1. CASE StartScrub(m) BY <1>1 DEF StartScrub
  <1>2. ASSUME NEW k \in Keys, NextEntry(m, k) PROVE LocksOwn(m)
    BY <1>2 DEF NextEntry
  <1>3. CASE NextPhase(m) BY <1>3 DEF NextPhase
  <1>4. CASE InspectEntry(m) BY <1>4 DEF InspectEntry, Leave
  <1>5. CASE LockEntry(m) BY <1>5 DEF LockEntry
  <1>6. CASE Examine(m) BY <1>6 DEF Examine, Leave
  <1>7. CASE RemoveEntry(m)
    <2>1. mpc[m] = "remove" /\ holder' = holder /\ mkey' = mkey
      BY <1>7 DEF RemoveEntry
    <2>2. mpc' = [mpc EXCEPT ![m] = "release"] \/ mpc' = [mpc EXCEPT ![m] = "clear"]
      BY <1>7 DEF RemoveEntry
    <2>. QED BY <2>1, <2>2
  <1>8. CASE ScrubAuxiliary(m) BY <1>8 DEF ScrubAuxiliary
  <1>9. CASE ReleaseEntry(m) BY <1>9 DEF ReleaseEntry
  <1>10. CASE AbortScrub(m) BY <1>10 DEF AbortScrub, Leave
  <1>. QED
    BY <1>1, <1>2, <1>3, <1>4, <1>5, <1>6, <1>7, <1>8, <1>9, <1>10 DEF ScrubStep

\* The files of a pass: never a staged one, nor the directory of a writer.
SparesWriters ==
  /\ staged' = staged /\ pc' = pc /\ calls' = calls
  /\ leftovers' \subseteq leftovers /\ stagingDirs' \subseteq stagingDirs
  /\ UNCHANGED <<strays, now, promised, killed, environment>>
  /\ acked' \subseteq acked
  /\ \A p \in Procs : pc[p] \in Staging \/ resume[p] = "rename" =>
       key[p] \in stagingDirs' \/ key[p] \notin stagingDirs

LEMMA PassSparesWriters ==
  ASSUME ScrubInv, NEW m \in Keepers, ScrubStep(m) \/ AbortScrub(m)
  PROVE  SparesWriters
  <1>. USE DEF SparesWriters, vars, temps, history
  <1>1. CASE Examine(m)
    <2>1. mpc[m] \in Holding BY <1>1 DEF Examine, MAt, Holding
    <2>2. staged' = staged BY <1>1, <2>1, SweepSpares DEF Examine
    <2>. QED BY <1>1, <2>2 DEF Examine, Sweep
  <1>2. CASE RemoveEntry(m)
    <2>1. mpc[m] \in Holding BY <1>2 DEF RemoveEntry, MAt, Holding
    <2>2. ASSUME NEW p \in Procs, pc[p] \in Staging \/ resume[p] = "rename"
          PROVE  key[p] # mkey[m]
      BY <2>1, <2>2, NobodyPopulates, StagingIsLocked DEF ScrubInv
    <2>3. stagingDirs' \in {stagingDirs, stagingDirs \ {mkey[m]}}
      BY <1>2 DEF RemoveEntry
    <2>4. acked' \in {acked, acked \ {mkey[m]}}
      BY <1>2 DEF RemoveEntry
    <2>5. UNCHANGED <<staged, leftovers, strays, pc, calls, now, promised, killed, environment>>
      BY <1>2 DEF RemoveEntry
    <2>. QED BY <2>2, <2>3, <2>4, <2>5
  <1>3. CASE StartScrub(m) BY <1>3 DEF StartScrub
  <1>4. ASSUME NEW k \in Keys, NextEntry(m, k) PROVE SparesWriters
    BY <1>4 DEF NextEntry
  <1>5. CASE NextPhase(m) BY <1>5 DEF NextPhase
  <1>6. CASE InspectEntry(m) BY <1>6 DEF InspectEntry
  <1>7. CASE LockEntry(m) BY <1>7 DEF LockEntry
  <1>8. CASE ScrubAuxiliary(m) BY <1>8 DEF ScrubAuxiliary
  <1>9. CASE ReleaseEntry(m) BY <1>9 DEF ReleaseEntry
  <1>10. CASE AbortScrub(m) BY <1>10 DEF AbortScrub
  <1>. QED
    BY <1>1, <1>2, <1>3, <1>4, <1>5, <1>6, <1>7, <1>8, <1>9, <1>10 DEF ScrubStep

\* The entries of a pass: it removes, and changes nothing else.
OnlyRemoves(m) ==
  /\ \A k \in Keys : object'[k] \in {object[k], Missing} /\ negative'[k] \in {negative[k], Missing}
  /\ \A k \in Keys : /\ onDisk'[k] \subseteq onDisk[k] \union {Missing}
                     /\ negOnDisk'[k] \subseteq negOnDisk[k] \union {Missing}
  /\ object' \in [Keys -> Contents \union {Missing}]
  /\ negative' \in [Keys -> Nat \union {Missing}]
  /\ onDisk' \in [Keys -> SUBSET (Contents \union {Missing})]
  /\ negOnDisk' \in [Keys -> SUBSET (Nat \union {Missing})]

LEMMA PassOnlyRemoves ==
  ASSUME ScrubInv, NEW m \in Keepers, ScrubStep(m) \/ AbortScrub(m)
  PROVE  OnlyRemoves(m)
  <1>1. mkey[m] \in Keys BY DEF ScrubInv, WellPlaced
  <1>. USE <1>1 DEF ScrubInv, TypeOK, WellTyped, OnlyRemoves, vars, disk, RemoveNegative
  <1>2. CASE RemoveEntry(m) BY <1>2 DEF RemoveEntry
  <1>3. CASE ScrubAuxiliary(m) BY <1>3 DEF ScrubAuxiliary
  <1>4. CASE StartScrub(m) BY <1>4 DEF StartScrub
  <1>5. ASSUME NEW k \in Keys, NextEntry(m, k) PROVE OnlyRemoves(m)
    BY <1>5 DEF NextEntry
  <1>6. CASE NextPhase(m) BY <1>6 DEF NextPhase
  <1>7. CASE InspectEntry(m) BY <1>7 DEF InspectEntry
  <1>8. CASE LockEntry(m) BY <1>8 DEF LockEntry
  <1>9. CASE Examine(m) BY <1>9 DEF Examine
  <1>10. CASE ReleaseEntry(m) BY <1>10 DEF ReleaseEntry
  <1>11. CASE AbortScrub(m) BY <1>11 DEF AbortScrub
  <1>. QED
    BY <1>2, <1>3, <1>4, <1>5, <1>6, <1>7, <1>8, <1>9, <1>10, <1>11 DEF ScrubStep

LEMMA PassKeepsScrubInv ==
  ASSUME ScrubInv, NEW m \in Keepers, ScrubStep(m) \/ AbortScrub(m)
  PROVE  ScrubInv'
  <1>1. LocksOwn(m) /\ SparesWriters /\ OnlyRemoves(m)
    BY PassLocksOwn, PassSparesWriters, PassOnlyRemoves
  <1>2. TypeOK'
    <2>1. WellTyped'
      BY <1>1 DEF ScrubInv, TypeOK, WellTyped, LocksOwn, SparesWriters, OnlyRemoves, calls,
                  environment
    <2>2. \A p \in Procs : WriterHasTemp(p)'
      BY <1>1 DEF ScrubInv, TypeOK, WriterHasTemp, SparesWriters, calls
    <2>. QED BY <2>1, <2>2 DEF TypeOK
  <1>3. LockDiscipline'
    BY <1>1, PopulationAssumption
    DEF ScrubInv, TypeOK, WellTyped, LockDiscipline, LocksOwn, SparesWriters, Slot, calls
  <1>4. KeepersHold'
    BY <1>1, PopulationAssumption DEF ScrubInv, WellPlaced, KeepersHold, LocksOwn
  <1>5. \A p \in Procs : StagingInv(p)'
    BY <1>1 DEF ScrubInv, StagingInv, SparesWriters, calls
  <1>. QED BY <1>1, <1>2, <1>3, <1>4, <1>5 DEF ScrubInv, LocksOwn

LEMMA ScrubInvInit == ScrubInit => ScrubInv
  BY TypeInit, PopulationAssumption
  DEF ScrubInit, Init, ScrubInv, WellPlaced, KeepersHold, Holding, StagingInv, LockDiscipline,
      Staging, Locked, Deciding, Removing, Leaving, Recording

LEMMA ScrubInvNext == ScrubInv /\ [ScrubNext]_scrubVars => ScrubInv'
  <1>. SUFFICES ASSUME ScrubInv, [ScrubNext]_scrubVars PROVE ScrubInv'
    OBVIOUS
  <1>1. CASE PopulationStep
    BY <1>1, PopulationKeepsScrubInv DEF PopulationStep, pass
  <1>2. ASSUME NEW k \in Keys, RecordAccess(k) PROVE ScrubInv'
    BY <1>2, PopulationKeepsScrubInv DEF RecordAccess, pass
  <1>3. ASSUME NEW m \in Keepers, ScrubStep(m) \/ AbortScrub(m) PROVE ScrubInv'
    BY <1>3, PassKeepsScrubInv
  <1>4. CASE UNCHANGED scrubVars
    BY <1>4, PopulationKeepsScrubInv DEF scrubVars, pass
  <1>. QED BY <1>1, <1>2, <1>3, <1>4 DEF ScrubNext

LEMMA ScrubInvAlways == ScrubSpec => []ScrubInv
  BY ScrubInvInit, ScrubInvNext, PTL DEF ScrubSpec

\* No scrub takes a staged file, or the directory it is in, from a writer.
THEOREM WritersAreSpared == ScrubSpec => []WriterKeepsStaging
  <1>1. ScrubInv => WriterKeepsStaging
    BY DEF ScrubInv, TypeOK, WriterHasTemp, StagingInv, WriterKeepsStaging, Staging
  <1>. QED BY <1>1, ScrubInvAlways, PTL

-----------------------------------------------------------------------------
(* Markers.  Whoever unlinks one has found its object missing under the    *)
(* slot; the object can then only come back by way of a process that takes *)
(* no lock, or of a power loss, which no pass survives.                    *)

ObjectGone(m) ==
  mpc[m] = "clear" \/ (mpc[m] = "remove" /\ phase[m] = "markers") => object[mkey[m]] = Missing

MarkerInv ==
  /\ ScrubInv /\ RecordsBounded /\ OwnersInv
  /\ phase \in [Keepers -> PhaseNames]
  /\ installed \subseteq Installable
  /\ \A m \in Keepers : ObjectGone(m)

LEMMA StaysGone ==
  ASSUME ScrubInv, Installable = {}, MaxLosses = 0, installed \subseteq Installable, [Next]_vars,
         NEW m \in Keepers, mpc[m] \in Holding, object[mkey[m]] = Missing
  PROVE  object'[mkey[m]] = Missing
  <1>. USE DEF ScrubInv, TypeOK, WellTyped, WellPlaced
  <1>1. ASSUME NEW p \in Procs, ProcessStep(p) PROVE object'[mkey[m]] = Missing
    <2>1. key[p] = mkey[m] => pc[p] \notin Locked
      BY NobodyPopulates
    <2>2. WritesOwnKey(p)
      BY <1>1, StepsAreLocal
    <2>. QED BY <2>1, <2>2 DEF WritesOwnKey, SameFiles
  <1>2. ~PowerLoss
    BY DEF PowerLoss
  <1>3. CASE Environment
    BY <1>1, <1>2, <1>3
    DEF Environment, ProcessStep, Crash, Tick, Rot, LocklessInstall, LocklessWithdraw, disk
  <1>. QED BY <1>1, <1>3 DEF Next, ProcessStep, vars, disk

LEMMA InstalledNext ==
  ASSUME TypeOK, Installable = {}, installed \subseteq Installable, [Next]_vars
  PROVE  installed' \subseteq Installable
  <1>1. ASSUME NEW p \in Procs, ProcessStep(p) PROVE installed' = installed
    BY <1>1, StepsAreLocal DEF TypeOK, WritesOwnKey, environment
  <1>. QED
    BY <1>1
    DEF Next, Environment, ProcessStep, Crash, PowerLoss, Die, Tick, Rot, LocklessInstall,
        LocklessWithdraw, vars, environment

LEMMA PopulationKeepsMarkerInv ==
  ASSUME Installable = {}, MaxLosses = 0, MarkerInv, [Next]_vars, UNCHANGED <<mpc, mkey, phase>>
  PROVE  MarkerInv'
  <1>1. ScrubInv' BY PopulationKeepsScrubInv DEF MarkerInv
  <1>2. RecordsBounded' /\ OwnersInv'
    BY BoundedNext, OwnersNext DEF MarkerInv, ScrubInv
  <1>3. installed' \subseteq Installable BY InstalledNext DEF MarkerInv, ScrubInv
  <1>4. ASSUME NEW m \in Keepers PROVE ObjectGone(m)'
    BY StaysGone DEF MarkerInv, ObjectGone, Holding
  <1>. QED BY <1>1, <1>2, <1>3, <1>4 DEF MarkerInv

\* A pass leaves the phases of the others alone, and finds what it unlinks gone.
PassFinds(m) ==
  /\ phase' \in [Keepers -> PhaseNames] /\ \A n \in Keepers \ {m} : phase'[n] = phase[n]
  /\ ObjectGone(m)'

LEMMA PassFindsGone ==
  ASSUME MarkerInv, NEW m \in Keepers, ScrubStep(m) \/ AbortScrub(m)
  PROVE  PassFinds(m)
  <1>1. mkey[m] \in Keys /\ phase[m] \in PhaseNames
    BY DEF MarkerInv, ScrubInv, WellPlaced
  <1>2. OnlyRemoves(m)
    BY PassOnlyRemoves DEF MarkerInv
  <1>. USE DEF MarkerInv, ScrubInv, WellPlaced, PassFinds, ObjectGone, MAt, MGoTo, Holding
  <1>3. CASE Examine(m)
    <2>1. object' = object /\ mkey' = mkey BY <1>3 DEF Examine, disk
    <2>2. \/ phase' = phase /\ mpc'[m] = "release"
          \/ phase' = phase /\ mpc'[m] = "remove" /\ phase[m] = "temporaries"
          \/ phase' = phase /\ mpc'[m] = "remove" /\ Doomed(m)
          \/ phase' = [phase EXCEPT ![m] = "objects"] /\ mpc'[m] = "idle"
      BY <1>3 DEF Examine, Leave
    <2>3. "objects" \in PhaseNames
      BY DEF PhaseNames, Phases
    <2>4. phase[m] = "markers" /\ Doomed(m) => object[mkey[m]] = Missing
      BY DEF Doomed
    <2>. QED BY <1>1, <2>1, <2>2, <2>3, <2>4
  <1>4. CASE RemoveEntry(m)
    <2>1. phase' = phase /\ mkey' = mkey BY <1>4 DEF RemoveEntry
    <2>2. \/ mpc'[m] = "release"
          \/ mpc'[m] = "clear" /\ object' = [object EXCEPT ![mkey[m]] = Missing]
      BY <1>4 DEF RemoveEntry
    <2>. QED BY <1>1, <2>1, <2>2 DEF TypeOK, WellTyped
  <1>5. CASE StartScrub(m) BY <1>5 DEF StartScrub, PhaseNames, Phases
  <1>6. ASSUME NEW k \in Keys, NextEntry(m, k) PROVE PassFinds(m)
    BY <1>6 DEF NextEntry
  <1>7. CASE NextPhase(m) BY <1>7 DEF NextPhase, PhaseNames, Phases
  <1>8. CASE InspectEntry(m) BY <1>8 DEF InspectEntry, Leave, PhaseNames, Phases
  <1>9. CASE LockEntry(m) BY <1>9 DEF LockEntry
  <1>10. CASE ScrubAuxiliary(m) BY <1>10 DEF ScrubAuxiliary
  <1>11. CASE ReleaseEntry(m) BY <1>11 DEF ReleaseEntry
  <1>12. CASE AbortScrub(m) BY <1>12 DEF AbortScrub, Leave, PhaseNames, Phases
  <1>. QED
    BY <1>3, <1>4, <1>5, <1>6, <1>7, <1>8, <1>9, <1>10, <1>11, <1>12 DEF ScrubStep

LEMMA PassKeepsMarkerInv ==
  ASSUME MarkerInv, NEW m \in Keepers, ScrubStep(m) \/ AbortScrub(m)
  PROVE  MarkerInv'
  <1>1. LocksOwn(m) /\ SparesWriters /\ OnlyRemoves(m) /\ PassFinds(m)
    BY PassLocksOwn, PassSparesWriters, PassOnlyRemoves, PassFindsGone DEF MarkerInv
  <1>2. ScrubInv' BY PassKeepsScrubInv DEF MarkerInv
  <1>3. RecordsBounded'
    BY <1>1 DEF MarkerInv, RecordsBounded, NearFuture, OnlyRemoves, SparesWriters, calls
  <1>4. ASSUME NEW p \in Procs PROVE OwnerInv(p)'
    <2>1. key[p] \in Keys BY DEF MarkerInv, ScrubInv, TypeOK, WellTyped
    <2>2. OwnerInv(p) BY DEF MarkerInv, OwnersInv
    <2>. QED
      BY <1>1, <2>1, <2>2
      DEF OwnerInv, Owns, Live, OnlyRemoves, SparesWriters, calls, environment
  <1>5. ASSUME NEW n \in Keepers PROVE ObjectGone(n)'
    <2>1. CASE n = m BY <1>1, <2>1 DEF PassFinds
    <2>2. CASE n # m
      <3>1. /\ mpc'[n] = mpc[n] /\ mkey'[n] = mkey[n] /\ phase'[n] = phase[n]
            /\ object'[mkey[n]] \in {object[mkey[n]], Missing}
        BY <1>1, <2>2 DEF LocksOwn, PassFinds, OnlyRemoves, MarkerInv, ScrubInv, WellPlaced
      <3>. QED BY <3>1 DEF MarkerInv, ObjectGone
    <2>. QED BY <2>1, <2>2
  <1>. QED
    BY <1>1, <1>2, <1>3, <1>4, <1>5
    DEF MarkerInv, OwnersInv, PassFinds, SparesWriters, environment

LEMMA MarkerInvNext ==
  ASSUME Installable = {}, MaxLosses = 0, MarkerInv, [ScrubNext]_scrubVars
  PROVE  MarkerInv'
  <1>1. CASE PopulationStep
    BY <1>1, PopulationKeepsMarkerInv DEF PopulationStep, pass
  <1>2. ASSUME NEW k \in Keys, RecordAccess(k) PROVE MarkerInv'
    BY <1>2, PopulationKeepsMarkerInv DEF RecordAccess, pass
  <1>3. ASSUME NEW m \in Keepers, ScrubStep(m) \/ AbortScrub(m) PROVE MarkerInv'
    BY <1>3, PassKeepsMarkerInv
  <1>4. CASE UNCHANGED scrubVars
    BY <1>4, PopulationKeepsMarkerInv DEF scrubVars, pass
  <1>. QED BY <1>1, <1>2, <1>3, <1>4 DEF ScrubNext

LEMMA MarkerStep ==
  ASSUME Installable = {}, MarkerInv, [ScrubNext]_scrubVars, NEW k \in markers \ markers'
  PROVE  object[k] = Missing
  <1>1. CASE PopulationStep
    <2>1. PICK p \in Procs : pc[p] \in {"clear", "clear_only"} /\ markers' = markers \ {key[p]}
      BY <1>1 DEF PopulationStep
    <2>. QED BY <2>1 DEF MarkerInv, OwnersInv, OwnerInv
  <1>2. CASE \E j \in Keys : RecordAccess(j)
    BY <1>2 DEF RecordAccess
  <1>3. ASSUME NEW m \in Keepers, ScrubStep(m) \/ AbortScrub(m) PROVE object[k] = Missing
    <2>1. CASE RemoveEntry(m)
      BY <2>1 DEF RemoveEntry, MAt, MarkerInv, ObjectGone
    <2>2. CASE ScrubAuxiliary(m)
      BY <2>2 DEF ScrubAuxiliary, MAt, MarkerInv, ObjectGone
    <2>. QED
      BY <1>3, <2>1, <2>2
      DEF ScrubStep, StartScrub, NextEntry, NextPhase, InspectEntry, LockEntry, Examine,
          ReleaseEntry, AbortScrub, files
  <1>4. CASE UNCHANGED scrubVars BY <1>4 DEF scrubVars, files
  <1>. QED BY <1>1, <1>2, <1>3, <1>4 DEF ScrubNext

\* No scrub, and no repair, forgets the hits of an object that is there, where
\* every process takes the lock and the power stays on.
THEOREM HitsAreKept ==
  ASSUME Installable = {}, MaxLosses = 0
  PROVE  ScrubSpec => MarkersKept
  <1>1. ScrubInit => MarkerInv
    BY ScrubInvInit, PopulationAssumption
    DEF ScrubInit, Init, MarkerInv, RecordsBounded, NearFuture, TicksPerSecond, OwnersInv,
        OwnerInv, Owns, Populating, Staging, ObjectGone, PhaseNames, Phases
  <1>2. MarkerInv /\ [ScrubNext]_scrubVars => MarkerInv'
    BY MarkerInvNext
  <1>3. MarkerInv /\ [ScrubNext]_scrubVars
          => [\A k \in markers \ markers' : object[k] = Missing]_scrubVars
    BY MarkerStep
  <1>. QED BY <1>1, <1>2, <1>3, PTL DEF ScrubSpec, MarkersKept

=============================================================================
