-------------------------- MODULE Recovery_proofs --------------------------
(***************************************************************************)
(* Theorems about Recovery and Update for any subtrees, files, idempotency *)
(* keys, retention, faults and numbers of backups, writes, restores,       *)
(* applies and crashes.                                                    *)
(*                                                                         *)
(* The argument: the phase in the journal tells where the swap stands      *)
(* (PhaseAt), and the copies hold what the swap found (Copies), taken part *)
(* by part from data that is untouched until its turn (Reversible). From   *)
(* the moment the journal names them, its sources are all the copies there *)
(* are (Reversed), so a rollback, also one that a boot begins anew, puts   *)
(* each of them back before it looks at the database. Where they are not   *)
(* named, at a crash before the storage is swapped, the sweep unlinks the  *)
(* database and finds none: it is doomed to halt (Doomed), and until then  *)
(* nobody is served. So a part is missing only in the middle of its own    *)
(* swap or under a rollback that will halt (Present), and since only a     *)
(* missing database is created anew, none of those that are served, kept   *)
(* or backed up was (Genuine). What is swapped in is the backup's or a     *)
(* later write (SwappedIn), as the coroutine alone replaces parts.         *)
(*                                                                         *)
(* Update, the second half: the journal of the update tells where apply    *)
(* stands (Told), and so what is installed and what the copies hold        *)
(* (Matched). A rollback leaves code and schema together if the checkpoint *)
(* has the schema of the old code: it has, or the installation is past     *)
(* every point from which a rollback would be asked for (Checkpoints,      *)
(* Ahead), and the recovery puts in place what it staged (InPlace). That   *)
(* needs Alone: no user restores a backup, or makes one under the key of   *)
(* the update. The lock of apply (Locked) needs nothing.                   *)
(*                                                                         *)
(* The lemmas named ...Effect say what one action does to the parts; those *)
(* named ...Step that a step preserves one conjunct of the invariant.      *)
(***************************************************************************)
EXTENDS Update, TLAPS

-----------------------------------------------------------------------------
(* The parts of the inductive invariant *)

Preparing == {"idle", "requested", "located", "checkpointing", "secured"}
Swapped == {"database", "install", "installed", "swapped", "verifying"}

\* What the journal says while create_recovery or a rollback stands at `at`.
PhaseAt ==
  /\ at = "extracted" => journal.phase = "STAGING"
  /\ at = "staged" => journal.phase = "STAGED"
  /\ at \in {"quiescing", "quiesced"} => journal.phase = "PRE_SWAP"
  /\ at \in {"storage", "place"} => journal.phase = "STORAGE_SWAP_PARTIAL"
  /\ at \in {"database", "install", "installed"} => journal.phase = "STORAGE_SWAP_COMPLETE"
  /\ at = "swapped" => journal.phase = "DATABASE_SWAP_COMPLETE"
  /\ at = "verifying" => journal.phase = "VERIFYING"
  /\ at = "committing" => journal.phase = "COMMITTED"
  /\ at \in {"reverse", "checking"} => journal.phase = "ROLLING_BACK"
  /\ at = "archiving" => journal.phase = "ROLLED_BACK"
  /\ proc = "up" /\ at \in Preparing =>
       journal.phase \notin {"STORAGE_SWAP_PARTIAL", "STORAGE_SWAP_COMPLETE", "ROLLING_BACK"}

\* Without a process there is no coroutine, and a sweep only rolls back.
Alive ==
  /\ proc = "down" => at = "idle"
  /\ proc = "sweeping" => at \in Reverse
  /\ proc # "up" => job.at = "idle"

\* Artifacts have ids of backups that were begun; the one under way has its own,
\* and no sidecar before it is finished.
Ids ==
  /\ \A b \in store : b.id <= made
  /\ job.at # "idle" => job.id <= made
  /\ job.at \in {"started", "captured", "scanned"} => Artifacts(job.id) = {}
  /\ job.at = "assembled" => \A b \in Artifacts(job.id) : ~b.sidecar

\* Every backup holds a database, if an empty one.
HasDatabase ==
  /\ \A b \in store : b.parts[Db] # Absent
  /\ job.at \in {"captured", "scanned"} => job.seen[Db] # Absent
  /\ at \notin Preparing \cup Reverse => staged[Db] # Absent

\* The subtrees still to swap are among those of the backup.
Todo ==
  /\ at \in {"storage", "place"} => \A s \in todo : staged[s] # Absent
  /\ at = "place" => todo # {}
  /\ at \in Swapped => todo = {}

\* The journal names rollback sources only once the storage is swapped, and the
\* database only once it is.
Sources ==
  /\ journal.phase \in PreMutation \cup {"STORAGE_SWAP_PARTIAL"} => journal.sources = {}
  /\ journal.phase = "STORAGE_SWAP_COMPLETE" => Db \notin journal.sources

\* A halted recovery holds the lock, unless an operator took it away.
Halted ==
  journal.phase = "FAILED_NEEDS_OPERATOR" /\ ~forced => lock /\ at \in {"idle", "requested"}

\* The sweep will find no database among the sources, and halt.
Doomed == proc # "up" /\ journal.phase \in Destructive /\ Db \notin journal.sources
Trusted == journal.phase # "FAILED_NEEDS_OPERATOR" /\ ~forced

\* No database in sight was created in the place of a missing one.
Genuine ==
  Trusted =>
    /\ \A b \in store : b.parts[Db].s # "unversioned"
    /\ job.seen[Db].s # "unversioned"
    /\ staged[Db].s # "unversioned" /\ kept[Db].s # "unversioned"
    /\ Doomed \/ live[Db].s # "unversioned"

\* A part is missing only between the two renames of its swap, or where the
\* rollback is going to halt.
Present ==
  Trusted =>
    /\ \A s \in Subtree : live[s] = Absent => (at = "place" /\ s = Current) \/ Doomed
    /\ live[Db] = Absent =>
         at = "install" \/ (at = "checking" /\ Db \notin journal.sources) \/ Doomed
    /\ at = "place" => kept[Current] # Absent
    /\ at = "install" => kept[Db] # Absent

\* The rollback copies hold what was there before the swap.
Copies ==
  /\ before.version <= version
  /\ \A s \in Subtree : kept[s] = Absent \/ kept[s] = before.parts[s]
  /\ kept[Db] = Absent \/ AsBefore(Db, kept[Db])

\* A subtree that the backup replaces has its copy.
Replaceable(s) == kept[s] # Absent \/ staged[s] = Absent \/ before.parts[s] = Absent

\* Without a copy a subtree is still, or again, what it was.
Reversible ==
  /\ at \in {"storage", "place", "database"} =>
       live[Db] = before.parts[Db] \/ before.parts[Db] = Absent
  /\ at \in {"storage", "place"} =>
       /\ \A s \in todo : (live[s] = before.parts[s] /\ kept[s] = Absent)
                         \/ (at = "place" /\ s = Current)
       /\ \A s \in Subtree : s \in todo \/ Replaceable(s)
  /\ at = "place" => kept[Current] = before.parts[Current]
  /\ journal.phase \in Destructive =>
       \A s \in Subtree : kept[s] # Absent \/ AsBefore(s, live[s]) \/ (at = "place" /\ s = Current)
  /\ journal.phase \in {"STORAGE_SWAP_COMPLETE", "DATABASE_SWAP_COMPLETE", "VERIFYING"} =>
       \A s \in Subtree : Replaceable(s)

\* What the rollback has to put back it will put back, or else it halts.
Reversed ==
  /\ journal.phase \in Destructive \ {"STORAGE_SWAP_PARTIAL"} =>
       Doomed \/ \A s \in Subtree : kept[s] # Absent => s \in journal.sources
  /\ at = "reverse" => Doomed \/ \A s \in Subtree : kept[s] # Absent => s \in todo
  /\ at = "checking" =>
       \/ Doomed /\ live[Db] = Absent
       \/ /\ ~Doomed /\ \A s \in Subtree : kept[s] = Absent
          /\ AsBefore(Db, live[Db]) \/ live[Db].s = "empty" \/ live[Db] = Absent

\* What the swap has replaced holds the backup, or a later write.
SwappedIn ==
  /\ at \in {"storage", "place"} \cup Swapped =>
       \A s \in Subtree : s \in todo \/ staged[s] = Absent \/ Restored(s, live[s])
  /\ at \in {"installed", "swapped", "verifying"} => Restored(Db, live[Db])

-----------------------------------------------------------------------------
USE DEF data, backups, durable, coroutine, bookkeeping, recovery

Job == [at : Stage, by : {"user", "recovery", "update"}, id : Nat,
        key : Key \cup {NoKey}, seen : [Part -> Content]]
Journal == [phase : Phase, sources : SUBSET Part, checkpoint : Nat]

\* The type invariant in three parts.
DataType ==
  /\ live \in [Part -> Content] /\ kept \in [Part -> Content] /\ staged \in [Part -> Content]
  /\ version \in Nat /\ version \in 1..MaxVersion
  /\ before.parts \in [Part -> Content] /\ before.version \in Nat
ControlType ==
  /\ journal \in Journal
  /\ lock \in BOOLEAN /\ forced \in BOOLEAN
  /\ at \in {"idle", "committing"} \cup Await \cup Swap \cup Reverse
  /\ want \in Nat /\ saved \in Nat /\ by \in {"user", "update"} /\ todo \subseteq Subtree
  /\ result \in {"none", "restored", "failed"}
  /\ pool \in {"closed", "live", "kept", "lost"}
  /\ proc \in {"up", "down", "sweeping"}
  /\ restores \in Nat /\ crashes \in Nat
BackupType ==
  /\ store \subseteq Artifact
  /\ \A b, c \in store : b.id = c.id => b = c
  /\ job \in Job
  /\ made \in Nat

\* The type invariant is these three parts.
LEMMA TypeParts == RecoveryTypeOK <=> DataType /\ ControlType /\ BackupType
<1> USE RecoveryAssumption, BackupAssumption
<1> QED
  BY DEF RecoveryTypeOK, BackupTypeOK, DataType, ControlType, BackupType, Job, Journal

\* The contents that the actions write are contents.
LEMMA Contents ==
  /\ Db \in Part /\ Subtree \subseteq Part /\ Db \notin Subtree
  /\ Absent \in Content /\ Blank \in Content /\ Empty \in Content
  /\ Nothing \in [Part -> Content]
  /\ \A c \in Content : /\ Upgraded(c) \in Content
                        /\ Open(c) \in Content /\ WithTables(c) \in Content
                        /\ c.v \in Nat
                        /\ \A n \in Nat : [c EXCEPT !.v = n] \in Content
<1> USE BackupAssumption
<1>1. /\ Db \in Part /\ Subtree \subseteq Part /\ Db \notin Subtree
      /\ Absent \in Content /\ Blank \in Content /\ Empty \in Content
  BY DEF Part, Absent, Blank, Empty, Content, Schema
<1>2. Nothing \in [Part -> Content]
  BY <1>1 DEF Nothing
<1>3. ASSUME NEW c \in Content
      PROVE  /\ Upgraded(c) \in Content
             /\ Open(c) \in Content /\ WithTables(c) \in Content
             /\ c.v \in Nat
             /\ \A n \in Nat : [c EXCEPT !.v = n] \in Content
  BY <1>1, <1>3 DEF Upgraded, Open, WithTables, Content, Schema
<1>4. QED
  BY <1>1, <1>2, <1>3

\* So are the jobs, journals and artifacts.
LEMMA Jobs ==
  ASSUME DataType, BackupType
  PROVE  /\ NoJob \in Job /\ NoJob.at = "idle"
         /\ \A st \in Stage : At(st) \in Job
         /\ \A st \in Stage, c \in Content : [At(st) EXCEPT !.seen[Db] = c] \in Job
         /\ \A st \in Stage :
              [At(st) EXCEPT !.seen = [p \in Part |-> IF p = Db THEN @[Db] ELSE live[p]]] \in Job
         /\ \A who \in {"user", "recovery", "update"}, key \in Key \cup {NoKey}, n \in Nat :
              [NoJob EXCEPT !.at = "started", !.by = who, !.id = n, !.key = key] \in Job
         /\ Archived \in Artifact /\ Archived.id = job.id
<1>1. /\ job.at \in Stage /\ job.id \in Nat /\ job.seen \in [Part -> Content] /\ job \in Job
      /\ job.key \in Key \cup {NoKey} /\ live \in [Part -> Content]
  BY DEF DataType, BackupType, Job
<1>2. NoJob \in Job /\ NoJob.at = "idle"
  BY Contents DEF NoJob, Job, Stage
<1>3. \A st \in Stage : At(st) \in Job
  BY <1>1 DEF At, Job
<1>4. \A st \in Stage, c \in Content : [At(st) EXCEPT !.seen[Db] = c] \in Job
  BY <1>1, <1>3, Contents DEF Job
<1>5. \A st \in Stage :
              [At(st) EXCEPT !.seen = [p \in Part |-> IF p = Db THEN @[Db] ELSE live[p]]] \in Job
  BY <1>1, <1>3, Contents DEF Job
<1>6. \A who \in {"user", "recovery", "update"}, key \in Key \cup {NoKey}, n \in Nat :
        [NoJob EXCEPT !.at = "started", !.by = who, !.id = n, !.key = key] \in Job
  BY <1>2 DEF Job, Stage
<1>7. Packed \in [Part -> Content]
  BY <1>1, Contents DEF Packed
<1>8. Archived \in Artifact /\ Archived.id = job.id
  BY <1>1, <1>7 DEF Archived, Artifact
<1>9. QED
  BY <1>1, <1>2, <1>3, <1>4, <1>5, <1>6, <1>8

\* The journals that are written are journals.
LEMMA Journals ==
  ASSUME ControlType
  PROVE  /\ NoJournal \in Journal
         /\ \A n \in Nat : [NoJournal EXCEPT !.phase = "STAGING", !.checkpoint = n] \in Journal
         /\ \A phase \in Phase : InPhase(phase) \in Journal
         /\ \A phase \in Phase : \A S \in SUBSET Part :
              [InPhase(phase) EXCEPT !.sources = S] \in Journal
         /\ journal.sources \subseteq Part /\ journal.phase \in Phase
<1>1. NoJournal \in Journal
  BY DEF NoJournal, Journal, Phase
<1>2. \A n \in Nat : [NoJournal EXCEPT !.phase = "STAGING", !.checkpoint = n] \in Journal
  BY DEF NoJournal, Journal, Phase, PreMutation
<1>3. \A phase \in Phase : InPhase(phase) \in Journal
  BY DEF ControlType, InPhase, Journal
<1>4. \A phase \in Phase : \A S \in SUBSET Part :
              [InPhase(phase) EXCEPT !.sources = S] \in Journal
  BY <1>3 DEF Journal
<1>5. QED
  BY <1>1, <1>2, <1>3, <1>4 DEF ControlType, Journal

\* The three parts of the type invariant, in turn.
LEMMA DataTypeStep ==
  ASSUME DataType, ControlType, BackupType, [RecoveryNext]_restoreVars
  PROVE DataType'
<1> USE RecoveryAssumption, BackupAssumption
<1>1. ASSUME CaptureDatabase /\ UNCHANGED recovery PROVE DataType'
  BY <1>1, Contents DEF DataType, CaptureDatabase, At, Absent
<1>2. ASSUME NEW s \in Subtree, ~Blocked /\ WriteFile(s) /\ UNCHANGED recovery PROVE DataType'
  <2>1. live[s] \in Content /\ version' \in Nat /\ version' \in 1..MaxVersion
    BY <1>2, Contents DEF DataType, WriteFile
  <2>2. [live[s] EXCEPT !.v = version'] \in Content
    BY <2>1, Contents
  <2>3. live' = [live EXCEPT ![s] = [live[s] EXCEPT !.v = version']]
    BY <1>2 DEF WriteFile
  <2>4. QED
    BY <1>2, <2>1, <2>2, <2>3, Contents DEF DataType, WriteFile
<1>3. ASSUME WriteDatabase PROVE DataType'
  <2>1. version' \in Nat /\ version' \in 1..MaxVersion
    BY <1>3 DEF DataType, WriteDatabase
  <2>2. Open(live[Db]) \in Content /\ kept[Db] \in Content
    BY Contents DEF DataType
  <2>3. [Open(live[Db]) EXCEPT !.v = version'] \in Content
        /\ [kept[Db] EXCEPT !.v = version'] \in Content
    BY <2>1, <2>2, Contents
  <2>4. /\ live' \in {live, [live EXCEPT ![Db] = [Open(live[Db]) EXCEPT !.v = version']]}
        /\ kept' \in {kept, [kept EXCEPT ![Db] = [kept[Db] EXCEPT !.v = version']]}
    BY <1>3 DEF WriteDatabase
  <2>5. QED
    BY <1>3, <2>1, <2>3, <2>4, Contents DEF DataType, WriteDatabase
<1>4. ASSUME Extract PROVE DataType'
  BY <1>4, Contents DEF DataType, Extract, CleanUp, Leave, Artifacts, BackupType, Artifact
<1>5. ASSUME ValidateStaged PROVE DataType'
  BY <1>5, Contents DEF DataType, ValidateStaged, CleanUp, Leave, InPhase
<1>6. ASSUME BeginSwap PROVE DataType'
  BY <1>6, Contents DEF DataType, BeginSwap, InPhase
<1>7. ASSUME SwapAway PROVE DataType'
  BY <1>7, Contents DEF DataType, SwapAway
<1>8. ASSUME SwapIn PROVE DataType'
  BY <1>8, Contents DEF DataType, SwapIn
<1>9. ASSUME DatabaseAway PROVE DataType'
  BY <1>9, Contents DEF DataType, DatabaseAway, Renamed
<1>10. ASSUME DatabaseIn PROVE DataType'
  BY <1>10, Contents DEF DataType, DatabaseIn
<1>11. ASSUME ReverseStorage PROVE DataType'
  BY <1>11, Contents DEF DataType, ReverseStorage
<1>12. ASSUME ReverseDatabase PROVE DataType'
  BY <1>12, Contents DEF DataType, ReverseDatabase, Halt, InPhase, Leave, Replaced, Removed
<1>13. ASSUME DiskError PROVE DataType'
  BY <1>13, Contents DEF DataType, DiskError, StartRollback, InPhase, Replaced
<1>14. ASSUME Boot PROVE DataType'
  BY <1>14, Contents DEF DataType, Boot, StartRollback, InPhase
<1>15. ASSUME \/ (ScanStorage /\ UNCHANGED recovery)
             \/ (Assemble /\ UNCHANGED recovery)
             \/ (FinishBackup /\ UNCHANGED recovery)
             \/ (FailBackup /\ UNCHANGED recovery)
             \/ (EndUserBackup /\ UNCHANGED recovery)
             \/ (TimeoutBackup /\ UNCHANGED recovery)
             \/ (\E key \in Key \cup {NoKey} : UserBackup(key) /\ UNCHANGED recovery)
             \/ (\E b \in store : DeleteBackup(b) /\ UNCHANGED recovery)
             \/ (\E b \in store : UserRestore(b))
      PROVE UNCHANGED <<live, version, kept, staged, before>>
  BY <1>15 DEF ScanStorage, At, Assemble, Archived, Packed, FinishBackup, Artifacts,
     FailBackup, EndUserBackup, NoJob, TimeoutBackup, CancelledJob, UserBackup, StartBackup,
     DeleteBackup, UserRestore, RequestRestore
<1>16. ASSUME \/ TakeLock
             \/ StartCheckpoint
             \/ EndCheckpoint
             \/ EnterQuiescence
             \/ Disconnect
             \/ Reconnect
             \/ Commit
             \/ StorageSwapped
             \/ DatabaseSwapped
      PROVE UNCHANGED <<live, version, kept, staged, before>>
  BY <1>16 DEF TakeLock, Leave, StartCheckpoint, StartBackup, NoJob, EndCheckpoint,
     EnterQuiescence, InPhase, Disconnect, CleanUp, Reconnect, StartRollback, Commit,
     StorageSwapped, DatabaseSwapped
<1>17. ASSUME \/ ArchiveCommit
             \/ CheckRollback
             \/ ArchiveRollback
             \/ TimeoutRestore
             \/ DeleteRecovery
             \/ Crash
             \/ Stop
      PROVE UNCHANGED <<live, version, kept, staged, before>>
  BY <1>17 DEF ArchiveCommit, Leave, CheckRollback, Halt, InPhase, ArchiveRollback,
     TimeoutRestore, CutRestore, CancelledJob, NoJob, Archived, Packed, DeleteRecovery,
     Crash, Down, Stop
<1>18. CASE UNCHANGED <<live, version, kept, staged, before>>
  BY <1>18, Contents DEF DataType
<1>19. QED
  BY <1>1, <1>2, <1>3, <1>4, <1>5, <1>6, <1>7, <1>8, <1>9, <1>10, <1>11, <1>12, <1>13,
     <1>14, <1>15, <1>16, <1>17, <1>18 DEF RecoveryNext, BackupThread, RecoveryRun,
     BackupLoop, RestoreStep, SwapStep, RollbackStep, restoreVars

LEMMA ControlTypeStep ==
  ASSUME DataType, ControlType, BackupType, [RecoveryNext]_restoreVars
  PROVE ControlType'
<1> USE RecoveryAssumption, BackupAssumption
<1>1. ASSUME WriteDatabase PROVE ControlType'
  <2>1. /\ pool' \in {pool, "live"} /\ UNCHANGED <<proc, journal, lock, coroutine, bookkeeping>>
    BY <1>1 DEF WriteDatabase
  <2>2. QED
    BY <2>1 DEF ControlType
<1>2. ASSUME NEW b \in store, UserRestore(b) PROVE ControlType'
  <2>1. b.id \in Nat
    BY DEF BackupType, Artifact
  <2>2. QED
    BY <1>2, <2>1 DEF ControlType, UserRestore, RequestRestore, Await
<1>3. ASSUME TakeLock PROVE ControlType'
  BY <1>3, Journals, Contents DEF ControlType, Phase, PreMutation, Destructive, Await, Swap,
     Reverse, TakeLock, Leave
<1>4. ASSUME StartCheckpoint PROVE ControlType'
  BY <1>4, Journals, Contents DEF ControlType, Phase, PreMutation, Destructive, Await, Swap,
     Reverse, StartCheckpoint, StartBackup, Leave
<1>5. ASSUME EndCheckpoint PROVE ControlType'
  BY <1>5, Journals, Contents DEF ControlType, Phase, PreMutation, Destructive, Await, Swap,
     Reverse, EndCheckpoint, Leave, BackupType, Job
<1>6. ASSUME Extract PROVE ControlType'
  <2>1. /\ at' \in {"extracted", "idle"} /\ result' \in {result, "failed"} /\ lock' \in BOOLEAN
        /\ UNCHANGED <<proc, want, by, saved, todo, pool, forced, restores, crashes>>
    BY <1>6 DEF Extract, CleanUp, Leave, ControlType
  <2>2. journal' \in Journal
    BY <1>6, Journals DEF Extract, CleanUp, Leave, ControlType, Phase, PreMutation, Destructive
  <2>3. QED
    BY <2>1, <2>2 DEF ControlType, Await, Reverse
<1>7. ASSUME ValidateStaged PROVE ControlType'
  <2>1. /\ at' \in {"staged", "idle"} /\ result' \in {result, "failed"} /\ lock' \in BOOLEAN
        /\ UNCHANGED <<proc, want, by, saved, todo, pool, forced, restores, crashes>>
    BY <1>7 DEF ValidateStaged, CleanUp, Leave, ControlType
  <2>2. journal' \in Journal
    BY <1>7, Journals DEF ValidateStaged, CleanUp, Leave, ControlType, Phase, PreMutation,
       Destructive
  <2>3. QED
    BY <2>1, <2>2 DEF ControlType, Await, Reverse
<1>8. ASSUME EnterQuiescence PROVE ControlType'
  BY <1>8, Journals, Contents DEF ControlType, Phase, PreMutation, Destructive, Await, Swap,
     Reverse, EnterQuiescence
<1>9. ASSUME Disconnect PROVE ControlType'
  BY <1>9, Journals, Contents DEF ControlType, Phase, PreMutation, Destructive, Await, Swap,
     Reverse, Disconnect, CleanUp, Leave
<1>10. ASSUME Reconnect PROVE ControlType'
  <2>1. /\ InPhase("VERIFYING") \in Journal
        /\ [InPhase("ROLLING_BACK") EXCEPT !.sources = journal.sources] \in Journal
    BY Journals DEF Phase, Destructive
  <2>2. journal' \in Journal /\ lock' \in BOOLEAN /\ todo' \subseteq Subtree
    BY <1>10, <2>1 DEF ControlType, Reconnect, StartRollback
  <2>3. at' \in {"verifying", "reverse"}
    BY <1>10 DEF Reconnect, StartRollback
  <2>4. QED
    BY <1>10, <2>2, <2>3 DEF ControlType, Reconnect, Await, Reverse
<1>11. ASSUME Commit PROVE ControlType'
  BY <1>11, Journals, Contents DEF ControlType, Phase, PreMutation, Destructive, Await,
     Swap, Reverse, Commit
<1>12. ASSUME BeginSwap PROVE ControlType'
  BY <1>12, Journals, Contents DEF ControlType, Phase, PreMutation, Destructive, Await,
     Swap, Reverse, BeginSwap, Nothing
<1>13. ASSUME SwapAway PROVE ControlType'
  BY <1>13, Journals, Contents DEF ControlType, Phase, PreMutation, Destructive, Await,
     Swap, Reverse, SwapAway
<1>14. ASSUME SwapIn PROVE ControlType'
  BY <1>14, Journals, Contents DEF ControlType, Phase, PreMutation, Destructive, Await,
     Swap, Reverse, SwapIn
<1>15. ASSUME StorageSwapped PROVE ControlType'
  BY <1>15, Journals, Contents DEF ControlType, Phase, PreMutation, Destructive, Await,
     Swap, Reverse, StorageSwapped
<1>16. ASSUME DatabaseAway PROVE ControlType'
  BY <1>16, Journals, Contents DEF ControlType, Phase, PreMutation, Destructive, Await,
     Swap, Reverse, DatabaseAway, Renamed
<1>17. ASSUME DatabaseIn PROVE ControlType'
  BY <1>17, Journals, Contents DEF ControlType, Phase, PreMutation, Destructive, Await,
     Swap, Reverse, DatabaseIn
<1>18. ASSUME DatabaseSwapped PROVE ControlType'
  BY <1>18, Journals, Contents DEF ControlType, Phase, PreMutation, Destructive, Await,
     Swap, Reverse, DatabaseSwapped
<1>19. ASSUME ArchiveCommit PROVE ControlType'
  BY <1>19, Journals, Contents DEF ControlType, Phase, PreMutation, Destructive, Await,
     Swap, Reverse, ArchiveCommit, Leave
<1>20. ASSUME ReverseStorage PROVE ControlType'
  BY <1>20, Journals, Contents DEF ControlType, Phase, PreMutation, Destructive, Await,
     Swap, Reverse, ReverseStorage
<1>21. ASSUME ReverseDatabase PROVE ControlType'
  <2>1. /\ at' \in {"checking", "archiving", "idle"}
        /\ result' \in {result, "failed"} /\ lock' \in BOOLEAN
        /\ UNCHANGED <<want, by, saved, todo, forced, restores, crashes>>
    BY <1>21 DEF ReverseDatabase, Halt, Leave, ControlType
  <2>2. proc' \in {proc, "down"} /\ pool' \in {"closed", "live", "kept", "lost"}
    BY <1>21 DEF ReverseDatabase, Halt, ControlType, Replaced, Removed
  <2>3. journal' \in Journal
    BY <1>21, Journals DEF ReverseDatabase, Halt, Leave, ControlType, Phase, PreMutation,
       Destructive
  <2>4. QED
    BY <2>1, <2>2, <2>3 DEF ControlType, Await, Reverse
<1>22. ASSUME CheckRollback PROVE ControlType'
  <2>1. /\ at' \in {"checking", "archiving", "idle"}
        /\ result' \in {result, "failed"} /\ lock' \in BOOLEAN
        /\ UNCHANGED <<want, by, saved, todo, forced, restores, crashes>>
    BY <1>22 DEF CheckRollback, Halt, Leave, ControlType
  <2>2. proc' \in {proc, "down"} /\ pool' \in {"closed", "live", "kept", "lost"}
    BY <1>22 DEF CheckRollback, Halt, ControlType
  <2>3. journal' \in Journal
    BY <1>22, Journals DEF CheckRollback, Halt, Leave, ControlType, Phase, PreMutation,
       Destructive
  <2>4. QED
    BY <2>1, <2>2, <2>3 DEF ControlType, Await, Reverse
<1>23. ASSUME ArchiveRollback PROVE ControlType'
  BY <1>23, Journals, Contents DEF ControlType, Phase, PreMutation, Destructive, Await,
     Swap, Reverse, ArchiveRollback, Leave
<1>24. ASSUME DiskError PROVE ControlType'
  BY <1>24, Journals, Contents DEF ControlType, Phase, PreMutation, Destructive, Await,
     Swap, Reverse, DiskError, StartRollback, Replaced
<1>25. ASSUME TimeoutRestore PROVE ControlType'
  BY <1>25, Journals, Contents DEF ControlType, Phase, PreMutation, Destructive, Await,
     Swap, Reverse, TimeoutRestore, CutRestore, Leave, CancelledJob
<1>26. ASSUME DeleteRecovery PROVE ControlType'
  BY <1>26, Journals, Contents DEF ControlType, Phase, PreMutation, Destructive, Await,
     Swap, Reverse, DeleteRecovery
<1>27. ASSUME Crash PROVE ControlType'
  BY <1>27 DEF ControlType, Crash, Down
<1>28. ASSUME Stop PROVE ControlType'
  <2>1. /\ at' = "idle" /\ result' = "none" /\ todo' = {} /\ proc' = "down" /\ pool' = "closed"
        /\ crashes' = crashes + 1
        /\ by' = "user" /\ UNCHANGED <<journal, want, saved, restores>>
    BY <1>28 DEF Stop, Down
  <2>2. forced' \in BOOLEAN /\ lock' \in BOOLEAN
    BY <1>28 DEF Stop, ControlType
  <2>3. QED
    BY <2>1, <2>2 DEF ControlType
<1>29. ASSUME Boot PROVE ControlType'
  <2>1. /\ NoJournal \in Journal
        /\ [InPhase("ROLLING_BACK") EXCEPT !.sources = journal.sources] \in Journal
    BY Journals DEF Phase, Destructive
  <2>2. /\ journal' \in Journal /\ lock' \in BOOLEAN /\ todo' \subseteq Subtree
        /\ at' \in {at, "reverse"} /\ proc' \in {"up", "sweeping"}
    BY <1>29, <2>1 DEF ControlType, Boot, StartRollback
  <2>3. QED
    BY <1>29, <2>2 DEF ControlType, Boot, Reverse
<1>30. ASSUME \/ (CaptureDatabase /\ UNCHANGED recovery)
             \/ (ScanStorage /\ UNCHANGED recovery)
             \/ (Assemble /\ UNCHANGED recovery)
             \/ (FinishBackup /\ UNCHANGED recovery)
             \/ (FailBackup /\ UNCHANGED recovery)
             \/ (EndUserBackup /\ UNCHANGED recovery)
             \/ (TimeoutBackup /\ UNCHANGED recovery)
             \/ (\E s \in Subtree : WriteFile(s) /\ UNCHANGED recovery)
             \/ (\E key \in Key \cup {NoKey} : UserBackup(key) /\ UNCHANGED recovery)
      PROVE UNCHANGED <<journal, lock, forced, at, want, saved, by, todo, result, pool,
                        proc, restores, crashes>>
  BY <1>30 DEF CaptureDatabase, ScanStorage, Assemble, FinishBackup, Artifacts, FailBackup,
     EndUserBackup, TimeoutBackup, CancelledJob, WriteFile, UserBackup, StartBackup
<1>31. ASSUME \/ (\E b \in store : DeleteBackup(b) /\ UNCHANGED recovery)
      PROVE UNCHANGED <<journal, lock, forced, at, want, saved, by, todo, result, pool,
                        proc, restores, crashes>>
  BY <1>31 DEF DeleteBackup
<1>32. CASE UNCHANGED <<journal, lock, forced, at, want, saved, by, todo, result, pool,
                        proc, restores, crashes>>
  BY <1>32 DEF ControlType
<1>33. QED
  BY <1>1, <1>2, <1>3, <1>4, <1>5, <1>6, <1>7, <1>8, <1>9, <1>10, <1>11, <1>12, <1>13,
     <1>14, <1>15, <1>16, <1>17, <1>18, <1>19, <1>20, <1>21, <1>22, <1>23, <1>24, <1>25,
     <1>26, <1>27, <1>28, <1>29, <1>30, <1>31, <1>32 DEF RecoveryNext, BackupThread,
     RecoveryRun, BackupLoop, RestoreStep, SwapStep, RollbackStep, restoreVars

LEMMA BackupTypeStep ==
  ASSUME DataType, BackupType, Ids, [RecoveryNext]_restoreVars
  PROVE BackupType'
<1> USE RecoveryAssumption, BackupAssumption
<1>1. ASSUME CaptureDatabase /\ UNCHANGED recovery PROVE BackupType'
  <2>1. live[Db] \in Content
    BY Contents DEF DataType
  <2>2. [At("captured") EXCEPT !.seen[Db] = IF live[Db] = Absent THEN Empty ELSE live[Db]] \in Job
    BY <2>1, Jobs, Contents DEF Stage
  <2>3. QED
    BY <1>1, <2>2 DEF BackupType, CaptureDatabase
<1>2. ASSUME ScanStorage /\ UNCHANGED recovery PROVE BackupType'
  BY <1>2, Jobs, Contents DEF BackupType, ScanStorage, Ids, Artifacts, Stage
<1>3. ASSUME Assemble /\ UNCHANGED recovery PROVE BackupType'
  BY <1>3, Jobs, Contents DEF BackupType, Assemble, Ids, Artifacts, Stage
<1>4. ASSUME FinishBackup /\ UNCHANGED recovery PROVE BackupType'
  <2>1. PICK new \in Artifacts(job.id) :
          LET full == [new EXCEPT !.sidecar = TRUE, !.key = job.key]
              others == store \ {new}
          IN \/ /\ new.whole /\ job' = At("finished")
                /\ \E gone \in Pruned(others \cup {full}, full) :
                    store' = (others \cup {full}) \ gone
             \/ ~new.whole /\ job' = At("failed") /\ store' = others
             \/ "storage" \in Faults /\ job' = At("failed") /\ UNCHANGED store
    BY <1>4 DEF FinishBackup
  <2> DEFINE full == [new EXCEPT !.sidecar = TRUE, !.key = job.key]
  <2>2. At("finished") \in Job /\ At("failed") \in Job
    BY Jobs DEF Stage
  <2>3. job' \in Job /\ job.key \in Key \cup {NoKey}
    BY <2>1, <2>2 DEF BackupType, Job
  <2>4. new \in store /\ new \in Artifact
    BY <2>1 DEF Artifacts, BackupType
  <2>5. full \in Artifact /\ full.id = new.id
    BY <2>3, <2>4 DEF Artifact
  <2>6. store' \subseteq (store \ {new}) \cup {full} \/ store' \subseteq store
    BY <2>1
  <2> HIDE DEF full
  <2>7. store' \subseteq Artifact /\ \A b, c \in store' : b.id = c.id => b = c
    BY <2>4, <2>5, <2>6 DEF BackupType
  <2>8. QED
    BY <1>4, <2>3, <2>7 DEF BackupType, FinishBackup
<1>5. ASSUME FailBackup /\ UNCHANGED recovery PROVE BackupType'
  BY <1>5, Jobs, Contents DEF BackupType, FailBackup, Ids, Artifacts, Stage
<1>6. ASSUME EndUserBackup /\ UNCHANGED recovery PROVE BackupType'
  BY <1>6, Jobs, Contents DEF BackupType, EndUserBackup, Ids, Artifacts, Stage
<1>7. ASSUME TimeoutBackup /\ UNCHANGED recovery PROVE BackupType'
  BY <1>7, Jobs, Contents DEF BackupType, TimeoutBackup, CancelledJob, Ids, Artifacts, Stage
<1>8. ASSUME NEW key \in Key \cup {NoKey}, UserBackup(key) /\ UNCHANGED recovery
      PROVE  BackupType'
  <2>1. made' \in Nat
    BY <1>8 DEF BackupType, UserBackup, StartBackup
  <2>2. [NoJob EXCEPT !.at = "started", !.by = "user", !.id = made', !.key = key] \in Job
    BY <2>1, Jobs
  <2>3. QED
    BY <1>8, <2>1, <2>2 DEF BackupType, UserBackup, StartBackup
<1>9. ASSUME NEW b \in store, DeleteBackup(b) /\ UNCHANGED recovery PROVE BackupType'
  BY <1>9, Jobs, Contents DEF BackupType, DeleteBackup, Ids, Artifacts, Stage
<1>10. ASSUME StartCheckpoint PROVE BackupType'
  <2>1. made' \in Nat
    BY <1>10 DEF BackupType, StartCheckpoint, StartBackup
  <2>2. [NoJob EXCEPT !.at = "started", !.by = "recovery", !.id = made', !.key = NoKey] \in Job
    BY <2>1, Jobs
  <2>3. QED
    BY <1>10, <2>1, <2>2 DEF BackupType, StartCheckpoint, StartBackup
<1>11. ASSUME EndCheckpoint PROVE BackupType'
  BY <1>11, Jobs, Contents DEF BackupType, EndCheckpoint, Leave, Ids, Artifacts, Stage
<1>12. ASSUME TimeoutRestore PROVE BackupType'
  BY <1>12, Jobs, Contents DEF BackupType, TimeoutRestore, CutRestore, Leave, CancelledJob,
     Ids, Artifacts, Stage
<1>13. ASSUME Crash PROVE BackupType'
  BY <1>13, Jobs, Contents DEF BackupType, Crash, Down, Ids, Artifacts, Stage
<1>14. ASSUME Stop PROVE BackupType'
  BY <1>14, Jobs, Contents DEF BackupType, Stop, Down, Ids, Artifacts, Stage
<1>15. ASSUME \/ (\E s \in Subtree : WriteFile(s) /\ UNCHANGED recovery)
             \/ WriteDatabase
             \/ (\E b \in store : UserRestore(b))
             \/ TakeLock
             \/ Extract
             \/ ValidateStaged
             \/ EnterQuiescence
             \/ Disconnect
             \/ Reconnect
      PROVE UNCHANGED <<store, job, made>>
  BY <1>15 DEF WriteFile, WriteDatabase, UserRestore, RequestRestore, TakeLock, Leave,
     Extract, CleanUp, ValidateStaged, Upgraded, EnterQuiescence, Disconnect, Reconnect,
     StartRollback
<1>16. ASSUME \/ Commit
             \/ BeginSwap
             \/ SwapAway
             \/ SwapIn
             \/ StorageSwapped
             \/ DatabaseAway
             \/ DatabaseIn
             \/ DatabaseSwapped
             \/ ArchiveCommit
      PROVE UNCHANGED <<store, job, made>>
  BY <1>16 DEF Commit, BeginSwap, Nothing, SwapAway, SwapIn, StorageSwapped, DatabaseAway,
     Renamed, DatabaseIn, DatabaseSwapped, ArchiveCommit, Leave
<1>17. ASSUME \/ ReverseStorage
             \/ ReverseDatabase
             \/ CheckRollback
             \/ ArchiveRollback
             \/ DiskError
             \/ DeleteRecovery
             \/ Boot
      PROVE UNCHANGED <<store, job, made>>
  BY <1>17 DEF ReverseStorage, ReverseDatabase, Halt, Leave, Replaced, Removed,
     CheckRollback, ArchiveRollback, DiskError, StartRollback, DeleteRecovery, Boot,
     WithTables
<1>18. CASE UNCHANGED <<store, job, made>>
  BY <1>18, Jobs, Contents DEF BackupType
<1>19. QED
  BY <1>1, <1>2, <1>3, <1>4, <1>5, <1>6, <1>7, <1>8, <1>9, <1>10, <1>11, <1>12, <1>13,
     <1>14, <1>15, <1>16, <1>17, <1>18 DEF RecoveryNext, BackupThread, RecoveryRun,
     BackupLoop, RestoreStep, SwapStep, RollbackStep, restoreVars

-----------------------------------------------------------------------------
(* What some of the actions do, record by record *)

\* A backup begins with an id of its own and nothing seen.
LEMMA StartEffect ==
  ASSUME BackupType, NEW who, NEW key, StartBackup(who, key)
  PROVE  /\ job.at = "idle" /\ store' = store /\ made' = made + 1
         /\ job'.at = "started" /\ job'.id = made + 1 /\ job'.seen = Nothing
<1> QED
  BY DEF StartBackup, NoJob

\* Extract takes what a backup holds and begins a journal, or drops it.
LEMMA ExtractEffect ==
  ASSUME Extract
  PROVE  /\ at = "secured"
         /\ UNCHANGED <<data, backups, proc, kept, want, by, saved, todo, pool, bookkeeping>>
         /\ \/ /\ \E b \in store : staged' = b.parts
               /\ journal'.phase = "STAGING" /\ journal'.sources = {}
               /\ at' = "extracted" /\ lock' = lock
            \/ /\ journal'.phase = "NONE" /\ journal'.sources = {}
               /\ at' = "idle" /\ lock' = FALSE /\ staged' = staged
<1>1. CASE \E b \in Artifacts(want) :
             /\ b.whole /\ staged' = b.parts
             /\ journal' = [NoJournal EXCEPT !.phase = "STAGING", !.checkpoint = saved]
             /\ at' = "extracted" /\ UNCHANGED <<result, lock>>
  BY <1>1 DEF Extract, Artifacts, NoJournal
<1>2. CASE CleanUp /\ UNCHANGED staged
  BY <1>2 DEF Extract, CleanUp, Leave, NoJournal
<1>3. QED
  BY <1>1, <1>2 DEF Extract

\* Boot purges the journal, starts a rollback by it, or leaves it.
LEMMA BootEffect ==
  ASSUME ControlType, Boot
  PROVE  /\ proc = "down" /\ live' = [live EXCEPT ![Db] = WithTables(@)]
         /\ UNCHANGED <<version, backups, kept, want, by, saved, staged, result, bookkeeping>>
         /\ \/ /\ journal.phase \in {"NONE", "COMMITTED"} \cup PreMutation
               /\ journal'.phase = "NONE" /\ journal'.sources = {}
               /\ proc' = "up" /\ lock' = FALSE /\ UNCHANGED <<at, todo>>
            \/ /\ journal.phase \in Destructive
               /\ journal'.phase = "ROLLING_BACK" /\ journal'.sources = journal.sources
               /\ proc' = "sweeping" /\ at' = "reverse" /\ lock' = lock
               /\ todo' = journal.sources \cap Subtree
            \/ /\ journal.phase \in {"ROLLED_BACK", "FAILED_NEEDS_OPERATOR"}
               /\ proc' = "up" /\ UNCHANGED <<journal, lock, at, todo>>
<1>1. CASE journal.phase \in {"NONE", "COMMITTED"} \cup PreMutation
  BY <1>1 DEF Boot, NoJournal, PreMutation, Destructive
<1>2. CASE journal.phase \in Destructive
  BY <1>2 DEF Boot, StartRollback, InPhase, ControlType, Journal, PreMutation, Destructive
<1>3. CASE journal.phase \in {"ROLLED_BACK", "FAILED_NEEDS_OPERATOR"}
  BY <1>3 DEF Boot, PreMutation, Destructive
<1>4. QED
  BY <1>1, <1>2, <1>3 DEF Boot

\* Ids are given once, and a sidecar comes last.
LEMMA IdsStep ==
  ASSUME RecoveryTypeOK, Ids, [RecoveryNext]_restoreVars
  PROVE Ids'
<1> USE RecoveryAssumption, BackupAssumption
<1>1. BackupType
  BY TypeParts, Contents DEF BackupType, Job
<1>2. ASSUME CaptureDatabase /\ UNCHANGED recovery PROVE Ids'
  BY <1>1, <1>2 DEF Ids, Artifacts, CaptureDatabase, At
<1>3. ASSUME ScanStorage /\ UNCHANGED recovery PROVE Ids'
  BY <1>1, <1>3 DEF Ids, Artifacts, ScanStorage, At
<1>4. ASSUME Assemble /\ UNCHANGED recovery PROVE Ids'
  <2>1. Archived.id = job.id /\ ~Archived.sidecar
    BY DEF Archived
  <2>2. job.at = "scanned" /\ made' = made
    BY <1>4 DEF Assemble
  <2>3. CASE store' = store \cup {Archived} /\ job' = At("assembled")
    <3>1. job'.at = "assembled" /\ job'.id = job.id
      BY <2>3, <1>1 DEF At, BackupType, Job
    <3>2. QED
      BY <2>1, <2>2, <2>3, <3>1 DEF Ids, Artifacts
  <2>4. CASE store' = store /\ job' = At("failed")
    <3>1. job'.at = "failed" /\ job'.id = job.id
      BY <2>4, <1>1 DEF At, BackupType, Job
    <3>2. QED
      BY <2>2, <2>4, <3>1 DEF Ids
  <2>5. QED
    BY <1>4, <2>3, <2>4 DEF Assemble
<1>5. ASSUME FinishBackup /\ UNCHANGED recovery PROVE Ids'
  <2>1. job.at = "assembled" /\ job'.at \in {"finished", "failed"}
        /\ job'.id = job.id /\ made' = made
    BY <1>5, <1>1 DEF FinishBackup, At, BackupType, Job
  <2>2. \A b \in store' : b.id <= made
    <3>1. PICK new \in Artifacts(job.id) :
            store' \subseteq store \cup {[new EXCEPT !.sidecar = TRUE, !.key = job.key]}
      BY <1>5 DEF FinishBackup
    <3>2. [new EXCEPT !.sidecar = TRUE, !.key = job.key].id = new.id /\ new \in store
      BY <3>1, <1>1 DEF Artifacts, BackupType, Artifact
    <3>3. QED
      BY <3>1, <3>2 DEF Ids
  <2>3. QED
    BY <2>1, <2>2 DEF Ids
<1>6. ASSUME FailBackup /\ UNCHANGED recovery PROVE Ids'
  BY <1>1, <1>6 DEF Ids, Artifacts, FailBackup, At
<1>7. ASSUME EndUserBackup /\ UNCHANGED recovery PROVE Ids'
  BY <1>1, <1>7 DEF Ids, Artifacts, EndUserBackup, NoJob
<1>8. ASSUME TimeoutBackup /\ UNCHANGED recovery PROVE Ids'
  BY <1>1, <1>8 DEF Ids, Artifacts, TimeoutBackup, CancelledJob, NoJob, Archived
<1>9. ASSUME NEW key \in Key \cup {NoKey}, UserBackup(key) /\ UNCHANGED recovery PROVE Ids'
  <2>1. CASE StartBackup("user", key)
    <3>1. /\ store' = store /\ made' = made + 1 /\ job'.at = "started" /\ job'.id = made + 1
      BY <2>1, <1>1, StartEffect
    <3>2. \A b \in store : b.id \in Nat /\ b.id <= made /\ made \in Nat
      BY <1>1 DEF Ids, BackupType, Artifact
    <3>3. QED
      BY <3>1, <3>2 DEF Ids, Artifacts
  <2>2. CASE UNCHANGED backups
    BY <2>2 DEF Ids, Artifacts
  <2>3. QED
    BY <1>9, <2>1, <2>2 DEF UserBackup
<1>10. ASSUME NEW b \in store, DeleteBackup(b) /\ UNCHANGED recovery PROVE Ids'
  BY <1>1, <1>10 DEF Ids, Artifacts, DeleteBackup
<1>11. ASSUME StartCheckpoint PROVE Ids'
  <2>1. CASE StartBackup("recovery", NoKey)
    <3>1. /\ store' = store /\ made' = made + 1 /\ job'.at = "started" /\ job'.id = made + 1
      BY <2>1, <1>1, StartEffect
    <3>2. \A b \in store : b.id \in Nat /\ b.id <= made /\ made \in Nat
      BY <1>1 DEF Ids, BackupType, Artifact
    <3>3. QED
      BY <3>1, <3>2 DEF Ids, Artifacts
  <2>2. CASE UNCHANGED backups
    BY <2>2 DEF Ids, Artifacts
  <2>3. QED
    BY <1>11, <2>1, <2>2 DEF StartCheckpoint
<1>12. ASSUME EndCheckpoint PROVE Ids'
  BY <1>1, <1>12 DEF Ids, Artifacts, EndCheckpoint, NoJob, Leave
<1>13. ASSUME TimeoutRestore PROVE Ids'
  BY <1>1, <1>13 DEF Ids, Artifacts, TimeoutRestore, CutRestore, Leave, CancelledJob, NoJob,
     Archived
<1>14. ASSUME Crash PROVE Ids'
  BY <1>1, <1>14 DEF Ids, Artifacts, Crash, Down, NoJob
<1>15. ASSUME Stop PROVE Ids'
  BY <1>1, <1>15 DEF Ids, Artifacts, Stop, Down, NoJob
<1>16. ASSUME \/ (\E s \in Subtree : WriteFile(s) /\ UNCHANGED recovery)
             \/ WriteDatabase
             \/ (\E b \in store : UserRestore(b))
             \/ TakeLock
             \/ Extract
             \/ ValidateStaged
             \/ EnterQuiescence
             \/ Disconnect
             \/ Reconnect
      PROVE UNCHANGED <<store, job, made>>
  BY <1>16 DEF WriteFile, WriteDatabase, Open, UserRestore, RequestRestore, TakeLock, Leave,
     Extract, CleanUp, NoJournal, Artifacts, ValidateStaged, InPhase, Upgraded,
     EnterQuiescence, Disconnect, Reconnect, StartRollback
<1>17. ASSUME \/ Commit
             \/ BeginSwap
             \/ SwapAway
             \/ SwapIn
             \/ StorageSwapped
             \/ DatabaseAway
             \/ DatabaseIn
             \/ DatabaseSwapped
             \/ ArchiveCommit
      PROVE UNCHANGED <<store, job, made>>
  BY <1>17 DEF Commit, InPhase, BeginSwap, Nothing, SwapAway, SwapIn, StorageSwapped,
     DatabaseAway, Renamed, DatabaseIn, DatabaseSwapped, ArchiveCommit, NoJournal, Leave
<1>18. ASSUME \/ ReverseStorage
             \/ ReverseDatabase
             \/ CheckRollback
             \/ ArchiveRollback
             \/ DiskError
             \/ DeleteRecovery
             \/ Boot
      PROVE UNCHANGED <<store, job, made>>
  BY <1>18 DEF ReverseStorage, ReverseDatabase, Halt, InPhase, Leave, Replaced, Removed,
     CheckRollback, ArchiveRollback, NoJournal, DiskError, StartRollback, DeleteRecovery,
     Boot, WithTables, Open
<1>19. CASE UNCHANGED <<store, job, made>>
  BY <1>1, <1>19 DEF Ids, Artifacts
<1>20. QED
  BY <1>2, <1>3, <1>4, <1>5, <1>6, <1>7, <1>8, <1>9, <1>10, <1>11, <1>12, <1>13, <1>14,
     <1>15, <1>16, <1>17, <1>18, <1>19 DEF RecoveryNext, BackupThread, RecoveryRun,
     BackupLoop, RestoreStep, SwapStep, RollbackStep, restoreVars

\* The journal is written where the coroutine moves on.
LEMMA PhaseAtStep ==
  ASSUME RecoveryTypeOK, PhaseAt, Alive, [RecoveryNext]_restoreVars
  PROVE PhaseAt'
<1> USE RecoveryAssumption, BackupAssumption
<1>1. ControlType
  BY TypeParts, Contents DEF BackupType, Job
<1>2. ASSUME NEW b \in store, UserRestore(b) PROVE PhaseAt'
  BY <1>1, <1>2 DEF PhaseAt, Preparing, PreMutation, Destructive, Reverse, Await, Alive,
     UserRestore, RequestRestore, Journal, ControlType
<1>3. ASSUME TakeLock PROVE PhaseAt'
  BY <1>1, <1>3 DEF PhaseAt, Preparing, PreMutation, Destructive, Reverse, Await, Alive,
     TakeLock, Leave, Journal, ControlType
<1>4. ASSUME StartCheckpoint PROVE PhaseAt'
  BY <1>1, <1>4 DEF PhaseAt, Preparing, PreMutation, Destructive, Reverse, Await, Alive,
     StartCheckpoint, StartBackup, NoJob, Leave, Journal, ControlType
<1>5. ASSUME EndCheckpoint PROVE PhaseAt'
  BY <1>1, <1>5 DEF PhaseAt, Preparing, PreMutation, Destructive, Reverse, Await, Alive,
     EndCheckpoint, NoJob, Leave, Journal, ControlType
<1>6. ASSUME Extract PROVE PhaseAt'
  <2>1. \/ journal'.phase = "STAGING" /\ journal'.sources = {} /\ at' = "extracted"
        \/ journal'.phase = "NONE" /\ journal'.sources = {} /\ at' = "idle"
    BY <1>6, ExtractEffect
  <2>2. QED
    BY <1>6, <2>1 DEF Extract, PhaseAt, Preparing
<1>7. ASSUME ValidateStaged PROVE PhaseAt'
  BY <1>1, <1>7 DEF PhaseAt, Preparing, PreMutation, Destructive, Reverse, Await, Alive,
     ValidateStaged, CleanUp, Leave, NoJournal, InPhase, Journal, ControlType
<1>8. ASSUME EnterQuiescence PROVE PhaseAt'
  BY <1>1, <1>8 DEF PhaseAt, Preparing, PreMutation, Destructive, Reverse, Await, Alive,
     EnterQuiescence, InPhase, Journal, ControlType
<1>9. ASSUME Disconnect PROVE PhaseAt'
  BY <1>1, <1>9 DEF PhaseAt, Preparing, PreMutation, Destructive, Reverse, Await, Alive,
     Disconnect, CleanUp, Leave, NoJournal, Journal, ControlType
<1>10. ASSUME Reconnect PROVE PhaseAt'
  BY <1>1, <1>10 DEF PhaseAt, Preparing, PreMutation, Destructive, Reverse, Await, Alive,
     Reconnect, InPhase, StartRollback, Journal, ControlType
<1>11. ASSUME Commit PROVE PhaseAt'
  BY <1>1, <1>11 DEF PhaseAt, Preparing, PreMutation, Destructive, Reverse, Await, Alive,
     Commit, InPhase, Journal, ControlType
<1>12. ASSUME BeginSwap PROVE PhaseAt'
  BY <1>1, <1>12 DEF PhaseAt, Preparing, PreMutation, Destructive, Reverse, Await, Alive,
     BeginSwap, InPhase, Journal, ControlType
<1>13. ASSUME SwapAway PROVE PhaseAt'
  BY <1>1, <1>13 DEF PhaseAt, Preparing, PreMutation, Destructive, Reverse, Await, Alive,
     SwapAway, Journal, ControlType
<1>14. ASSUME SwapIn PROVE PhaseAt'
  BY <1>1, <1>14 DEF PhaseAt, Preparing, PreMutation, Destructive, Reverse, Await, Alive,
     SwapIn, Journal, ControlType
<1>15. ASSUME StorageSwapped PROVE PhaseAt'
  BY <1>1, <1>15 DEF PhaseAt, Preparing, PreMutation, Destructive, Reverse, Await, Alive,
     StorageSwapped, InPhase, Journal, ControlType
<1>16. ASSUME DatabaseAway PROVE PhaseAt'
  BY <1>1, <1>16 DEF PhaseAt, Preparing, PreMutation, Destructive, Reverse, Await, Alive,
     DatabaseAway, Renamed, Journal, ControlType
<1>17. ASSUME DatabaseIn PROVE PhaseAt'
  BY <1>1, <1>17 DEF PhaseAt, Preparing, PreMutation, Destructive, Reverse, Await, Alive,
     DatabaseIn, Journal, ControlType
<1>18. ASSUME DatabaseSwapped PROVE PhaseAt'
  BY <1>1, <1>18 DEF PhaseAt, Preparing, PreMutation, Destructive, Reverse, Await, Alive,
     DatabaseSwapped, InPhase, Journal, ControlType
<1>19. ASSUME ArchiveCommit PROVE PhaseAt'
  BY <1>1, <1>19 DEF PhaseAt, Preparing, PreMutation, Destructive, Reverse, Await, Alive,
     ArchiveCommit, NoJournal, Leave, Journal, ControlType
<1>20. ASSUME ReverseStorage PROVE PhaseAt'
  BY <1>1, <1>20 DEF PhaseAt, Preparing, PreMutation, Destructive, Reverse, Await, Alive,
     ReverseStorage, Journal, ControlType
<1>21. ASSUME ReverseDatabase PROVE PhaseAt'
  BY <1>1, <1>21 DEF PhaseAt, Preparing, PreMutation, Destructive, Reverse, Await, Alive,
     ReverseDatabase, Halt, InPhase, Leave, Replaced, Removed, Journal, ControlType
<1>22. ASSUME CheckRollback PROVE PhaseAt'
  BY <1>1, <1>22 DEF PhaseAt, Preparing, PreMutation, Destructive, Reverse, Await, Alive,
     CheckRollback, Halt, InPhase, Leave, Journal, ControlType
<1>23. ASSUME ArchiveRollback PROVE PhaseAt'
  BY <1>1, <1>23 DEF PhaseAt, Preparing, PreMutation, Destructive, Reverse, Await, Alive,
     ArchiveRollback, NoJournal, Leave, Journal, ControlType
<1>24. ASSUME DiskError PROVE PhaseAt'
  BY <1>1, <1>24 DEF PhaseAt, Preparing, PreMutation, Destructive, Reverse, Await, Alive,
     DiskError, StartRollback, InPhase, Replaced, Journal, ControlType
<1>25. ASSUME TimeoutRestore PROVE PhaseAt'
  BY <1>1, <1>25 DEF PhaseAt, Preparing, PreMutation, Destructive, Reverse, Await, Alive,
     TimeoutRestore, CutRestore, Leave, CancelledJob, NoJob, Journal, ControlType
<1>26. ASSUME DeleteRecovery PROVE PhaseAt'
  BY <1>1, <1>26 DEF PhaseAt, Preparing, PreMutation, Destructive, Reverse, Await, Alive,
     DeleteRecovery, NoJournal, Journal, ControlType
<1>27. ASSUME Crash PROVE PhaseAt'
  BY <1>1, <1>27 DEF PhaseAt, Preparing, PreMutation, Destructive, Reverse, Await, Alive,
     Crash, Down, NoJob, Journal, ControlType
<1>28. ASSUME Stop PROVE PhaseAt'
  BY <1>1, <1>28 DEF PhaseAt, Preparing, PreMutation, Destructive, Reverse, Await, Alive,
     Stop, Down, NoJob, Journal, ControlType
<1>29. ASSUME Boot PROVE PhaseAt'
  <2>1. \/ /\ journal'.phase = "NONE" /\ journal'.sources = {} /\ proc' = "up" /\ at' = at
        \/ /\ journal'.phase = "ROLLING_BACK" /\ journal'.sources = journal.sources
           /\ proc' = "sweeping" /\ at' = "reverse"
        \/ /\ journal.phase \in {"ROLLED_BACK", "FAILED_NEEDS_OPERATOR"}
           /\ proc' = "up" /\ UNCHANGED <<journal, lock, at>>
    BY <1>29, <1>1, BootEffect
  <2>2. at = "idle" /\ forced' = forced
    BY <1>29 DEF Alive, Boot
  <2>3. QED
    BY <2>1, <2>2 DEF PhaseAt, Preparing
<1>30. ASSUME \/ (CaptureDatabase /\ UNCHANGED recovery)
             \/ (ScanStorage /\ UNCHANGED recovery)
             \/ (Assemble /\ UNCHANGED recovery)
             \/ (FinishBackup /\ UNCHANGED recovery)
             \/ (FailBackup /\ UNCHANGED recovery)
             \/ (EndUserBackup /\ UNCHANGED recovery)
             \/ (TimeoutBackup /\ UNCHANGED recovery)
             \/ (\E s \in Subtree : WriteFile(s) /\ UNCHANGED recovery)
             \/ (\E key \in Key \cup {NoKey} : UserBackup(key) /\ UNCHANGED recovery)
      PROVE UNCHANGED <<journal, at, proc>>
  BY <1>30 DEF CaptureDatabase, ScanStorage, Assemble, FinishBackup, FailBackup,
     EndUserBackup, NoJob, TimeoutBackup, CancelledJob, WriteFile, UserBackup, StartBackup
<1>31. ASSUME \/ (\E b \in store : DeleteBackup(b) /\ UNCHANGED recovery)
             \/ WriteDatabase
      PROVE UNCHANGED <<journal, at, proc>>
  BY <1>31 DEF DeleteBackup, WriteDatabase
<1>32. CASE UNCHANGED <<journal, at, proc>>
  BY <1>1, <1>32 DEF PhaseAt
<1>33. QED
  BY <1>2, <1>3, <1>4, <1>5, <1>6, <1>7, <1>8, <1>9, <1>10, <1>11, <1>12, <1>13, <1>14,
     <1>15, <1>16, <1>17, <1>18, <1>19, <1>20, <1>21, <1>22, <1>23, <1>24, <1>25, <1>26,
     <1>27, <1>28, <1>29, <1>30, <1>31, <1>32 DEF RecoveryNext, BackupThread, RecoveryRun,
     BackupLoop, RestoreStep, SwapStep, RollbackStep, restoreVars

\* A crash takes the coroutine and the backup under way.
LEMMA AliveStep ==
  ASSUME RecoveryTypeOK, Alive, [RecoveryNext]_restoreVars
  PROVE Alive'
<1> USE RecoveryAssumption, BackupAssumption
<1>1. ControlType /\ job.at \in Stage
  BY TypeParts, Contents DEF BackupType, Job
<1>2. ASSUME CaptureDatabase /\ UNCHANGED recovery PROVE Alive'
  BY <1>1, <1>2 DEF Alive, Reverse, Await, CaptureDatabase
<1>3. ASSUME ScanStorage /\ UNCHANGED recovery PROVE Alive'
  BY <1>1, <1>3 DEF Alive, Reverse, Await, ScanStorage
<1>4. ASSUME Assemble /\ UNCHANGED recovery PROVE Alive'
  BY <1>1, <1>4 DEF Alive, Reverse, Await, Assemble
<1>5. ASSUME FinishBackup /\ UNCHANGED recovery PROVE Alive'
  BY <1>1, <1>5 DEF Alive, Reverse, Await, FinishBackup
<1>6. ASSUME FailBackup /\ UNCHANGED recovery PROVE Alive'
  BY <1>1, <1>6 DEF Alive, Reverse, Await, FailBackup
<1>7. ASSUME EndUserBackup /\ UNCHANGED recovery PROVE Alive'
  BY <1>1, <1>7 DEF Alive, Reverse, Await, EndUserBackup, NoJob
<1>8. ASSUME TimeoutBackup /\ UNCHANGED recovery PROVE Alive'
  BY <1>1, <1>8 DEF Alive, Reverse, Await, TimeoutBackup, CancelledJob, NoJob
<1>9. ASSUME NEW s \in Subtree, ~Blocked /\ WriteFile(s) /\ UNCHANGED recovery PROVE Alive'
  BY <1>1, <1>9 DEF Alive, Reverse, Await, WriteFile
<1>10. ASSUME NEW key \in Key \cup {NoKey}, UserBackup(key) /\ UNCHANGED recovery PROVE Alive'
  BY <1>1, <1>10 DEF Alive, Reverse, Await, UserBackup, StartBackup, NoJob
<1>11. ASSUME NEW b \in store, DeleteBackup(b) /\ UNCHANGED recovery PROVE Alive'
  BY <1>1, <1>11 DEF Alive, Reverse, Await, DeleteBackup
<1>12. ASSUME WriteDatabase PROVE Alive'
  BY <1>1, <1>12 DEF Alive, Reverse, Await, WriteDatabase
<1>13. ASSUME NEW b \in store, UserRestore(b) PROVE Alive'
  BY <1>1, <1>13 DEF Alive, Reverse, Await, UserRestore, RequestRestore
<1>14. ASSUME TakeLock PROVE Alive'
  BY <1>1, <1>14 DEF Alive, Reverse, Await, TakeLock, Leave
<1>15. ASSUME StartCheckpoint PROVE Alive'
  <2>1. StartBackup("recovery", NoKey) => job'.at = "started"
    BY DEF StartBackup, NoJob
  <2>2. QED
    BY <1>15, <2>1, <1>1 DEF StartCheckpoint, Alive, Reverse, Leave, ControlType
<1>16. ASSUME EndCheckpoint PROVE Alive'
  BY <1>1, <1>16 DEF Alive, Reverse, Await, EndCheckpoint, NoJob, Leave
<1>17. ASSUME Extract PROVE Alive'
  BY <1>1, <1>17 DEF Alive, Reverse, Await, Extract, CleanUp, Leave, NoJournal
<1>18. ASSUME ValidateStaged PROVE Alive'
  BY <1>1, <1>18 DEF Alive, Reverse, Await, ValidateStaged, CleanUp, Leave, NoJournal, InPhase
<1>19. ASSUME EnterQuiescence PROVE Alive'
  BY <1>1, <1>19 DEF Alive, Reverse, Await, EnterQuiescence, InPhase
<1>20. ASSUME Disconnect PROVE Alive'
  BY <1>1, <1>20 DEF Alive, Reverse, Await, Disconnect, CleanUp, Leave, NoJournal
<1>21. ASSUME Reconnect PROVE Alive'
  BY <1>1, <1>21 DEF Alive, Reverse, Await, Reconnect, InPhase, StartRollback
<1>22. ASSUME Commit PROVE Alive'
  BY <1>1, <1>22 DEF Alive, Reverse, Await, Commit, InPhase
<1>23. ASSUME BeginSwap PROVE Alive'
  BY <1>1, <1>23 DEF Alive, Reverse, Await, BeginSwap, InPhase
<1>24. ASSUME SwapAway PROVE Alive'
  BY <1>1, <1>24 DEF Alive, Reverse, Await, SwapAway
<1>25. ASSUME SwapIn PROVE Alive'
  BY <1>1, <1>25 DEF Alive, Reverse, Await, SwapIn
<1>26. ASSUME StorageSwapped PROVE Alive'
  BY <1>1, <1>26 DEF Alive, Reverse, Await, StorageSwapped, InPhase
<1>27. ASSUME DatabaseAway PROVE Alive'
  BY <1>1, <1>27 DEF Alive, Reverse, Await, DatabaseAway, Renamed
<1>28. ASSUME DatabaseIn PROVE Alive'
  BY <1>1, <1>28 DEF Alive, Reverse, Await, DatabaseIn
<1>29. ASSUME DatabaseSwapped PROVE Alive'
  BY <1>1, <1>29 DEF Alive, Reverse, Await, DatabaseSwapped, InPhase
<1>30. ASSUME ArchiveCommit PROVE Alive'
  BY <1>1, <1>30 DEF Alive, Reverse, Await, ArchiveCommit, NoJournal, Leave
<1>31. ASSUME ReverseStorage PROVE Alive'
  BY <1>1, <1>31 DEF Alive, Reverse, Await, ReverseStorage
<1>32. ASSUME ReverseDatabase PROVE Alive'
  BY <1>1, <1>32 DEF Alive, Reverse, Await, ReverseDatabase, Halt, InPhase, Leave, Replaced,
     Removed
<1>33. ASSUME CheckRollback PROVE Alive'
  BY <1>1, <1>33 DEF Alive, Reverse, Await, CheckRollback, Halt, InPhase, Leave
<1>34. ASSUME ArchiveRollback PROVE Alive'
  BY <1>1, <1>34 DEF Alive, Reverse, Await, ArchiveRollback, NoJournal, Leave
<1>35. ASSUME DiskError PROVE Alive'
  BY <1>1, <1>35 DEF Alive, Reverse, Await, DiskError, StartRollback, InPhase, Replaced
<1>36. ASSUME TimeoutRestore PROVE Alive'
  BY <1>1, <1>36 DEF Alive, Reverse, Await, TimeoutRestore, CutRestore, Leave, CancelledJob,
     NoJob
<1>37. ASSUME DeleteRecovery PROVE Alive'
  BY <1>1, <1>37 DEF Alive, Reverse, Await, DeleteRecovery, NoJournal
<1>38. ASSUME Crash PROVE Alive'
  BY <1>1, <1>38 DEF Alive, Reverse, Await, Crash, Down, NoJob
<1>39. ASSUME Stop PROVE Alive'
  BY <1>1, <1>39 DEF Alive, Reverse, Await, Stop, Down, NoJob
<1>40. ASSUME Boot PROVE Alive'
  BY <1>1, <1>40 DEF Alive, Reverse, Await, Boot, StartRollback, InPhase, NoJournal
<1>41. CASE UNCHANGED <<at, proc, job>>
  BY <1>1, <1>41 DEF Alive
<1>42. QED
  BY <1>2, <1>3, <1>4, <1>5, <1>6, <1>7, <1>8, <1>9, <1>10, <1>11, <1>12, <1>13, <1>14,
     <1>15, <1>16, <1>17, <1>18, <1>19, <1>20, <1>21, <1>22, <1>23, <1>24, <1>25, <1>26,
     <1>27, <1>28, <1>29, <1>30, <1>31, <1>32, <1>33, <1>34, <1>35, <1>36, <1>37, <1>38,
     <1>39, <1>40, <1>41 DEF RecoveryNext, BackupThread, RecoveryRun, BackupLoop,
     RestoreStep, SwapStep, RollbackStep, restoreVars

\* The subtrees to swap come from the staged backup and are all swapped.
LEMMA TodoStep ==
  ASSUME RecoveryTypeOK, Todo, [RecoveryNext]_restoreVars
  PROVE Todo'
<1> USE RecoveryAssumption, BackupAssumption
<1>1. ASSUME NEW b \in store, UserRestore(b) PROVE Todo'
  BY <1>1 DEF Todo, Swapped, Await, UserRestore, RequestRestore
<1>2. ASSUME TakeLock PROVE Todo'
  BY <1>2 DEF Todo, Swapped, Await, TakeLock, Leave
<1>3. ASSUME StartCheckpoint PROVE Todo'
  BY <1>3 DEF Todo, Swapped, Await, StartCheckpoint, StartBackup, NoJob, Leave
<1>4. ASSUME EndCheckpoint PROVE Todo'
  BY <1>4 DEF Todo, Swapped, Await, EndCheckpoint, NoJob, Leave
<1>5. ASSUME Extract PROVE Todo'
  BY <1>5 DEF Todo, Swapped, Await, Extract, CleanUp, Leave, NoJournal
<1>6. ASSUME ValidateStaged PROVE Todo'
  BY <1>6 DEF Todo, Swapped, Await, ValidateStaged, CleanUp, Leave, NoJournal, InPhase
<1>7. ASSUME EnterQuiescence PROVE Todo'
  BY <1>7 DEF Todo, Swapped, Await, EnterQuiescence, InPhase
<1>8. ASSUME Disconnect PROVE Todo'
  BY <1>8 DEF Todo, Swapped, Await, Disconnect, CleanUp, Leave, NoJournal
<1>9. ASSUME Reconnect PROVE Todo'
  BY <1>9 DEF Todo, Swapped, Await, Reconnect, InPhase, StartRollback
<1>10. ASSUME Commit PROVE Todo'
  BY <1>10 DEF Todo, Swapped, Await, Commit, InPhase
<1>11. ASSUME BeginSwap PROVE Todo'
  BY <1>11 DEF Todo, Swapped, Await, BeginSwap, InPhase
<1>12. ASSUME SwapAway PROVE Todo'
  BY <1>12 DEF Todo, Swapped, Await, SwapAway
<1>13. ASSUME SwapIn PROVE Todo'
  BY <1>13 DEF Todo, Swapped, Await, SwapIn
<1>14. ASSUME StorageSwapped PROVE Todo'
  BY <1>14 DEF Todo, Swapped, Await, StorageSwapped, InPhase
<1>15. ASSUME DatabaseAway PROVE Todo'
  BY <1>15 DEF Todo, Swapped, Await, DatabaseAway, Renamed
<1>16. ASSUME DatabaseIn PROVE Todo'
  BY <1>16 DEF Todo, Swapped, Await, DatabaseIn
<1>17. ASSUME DatabaseSwapped PROVE Todo'
  BY <1>17 DEF Todo, Swapped, Await, DatabaseSwapped, InPhase
<1>18. ASSUME ArchiveCommit PROVE Todo'
  BY <1>18 DEF Todo, Swapped, Await, ArchiveCommit, NoJournal, Leave
<1>19. ASSUME ReverseStorage PROVE Todo'
  BY <1>19 DEF Todo, Swapped, Await, ReverseStorage
<1>20. ASSUME ReverseDatabase PROVE Todo'
  BY <1>20 DEF Todo, Swapped, Await, ReverseDatabase, Halt, InPhase, Leave, Replaced, Removed
<1>21. ASSUME CheckRollback PROVE Todo'
  BY <1>21 DEF Todo, Swapped, Await, CheckRollback, Halt, InPhase, Leave
<1>22. ASSUME ArchiveRollback PROVE Todo'
  BY <1>22 DEF Todo, Swapped, Await, ArchiveRollback, NoJournal, Leave
<1>23. ASSUME DiskError PROVE Todo'
  BY <1>23 DEF Todo, Swapped, Await, DiskError, StartRollback, InPhase, Replaced
<1>24. ASSUME TimeoutRestore PROVE Todo'
  BY <1>24 DEF Todo, Swapped, Await, TimeoutRestore, CutRestore, Leave, CancelledJob, NoJob
<1>25. ASSUME Crash PROVE Todo'
  BY <1>25 DEF Todo, Swapped, Await, Crash, Down, NoJob
<1>26. ASSUME Stop PROVE Todo'
  BY <1>26 DEF Todo, Swapped, Await, Stop, Down, NoJob
<1>27. ASSUME Boot PROVE Todo'
  BY <1>27 DEF Todo, Swapped, Await, Boot, StartRollback, InPhase, NoJournal
<1>28. ASSUME \/ (CaptureDatabase /\ UNCHANGED recovery)
             \/ (ScanStorage /\ UNCHANGED recovery)
             \/ (Assemble /\ UNCHANGED recovery)
             \/ (FinishBackup /\ UNCHANGED recovery)
             \/ (FailBackup /\ UNCHANGED recovery)
             \/ (EndUserBackup /\ UNCHANGED recovery)
             \/ (TimeoutBackup /\ UNCHANGED recovery)
             \/ (\E s \in Subtree : WriteFile(s) /\ UNCHANGED recovery)
             \/ (\E key \in Key \cup {NoKey} : UserBackup(key) /\ UNCHANGED recovery)
      PROVE UNCHANGED <<at, todo, staged>>
  BY <1>28 DEF CaptureDatabase, ScanStorage, Assemble, FinishBackup, FailBackup,
     EndUserBackup, NoJob, TimeoutBackup, CancelledJob, WriteFile, UserBackup, StartBackup
<1>29. ASSUME \/ (\E b \in store : DeleteBackup(b) /\ UNCHANGED recovery)
             \/ WriteDatabase
             \/ DeleteRecovery
      PROVE UNCHANGED <<at, todo, staged>>
  BY <1>29 DEF DeleteBackup, WriteDatabase, DeleteRecovery, NoJournal
<1>30. CASE UNCHANGED <<at, todo, staged>>
  BY <1>30 DEF Todo, Swapped
<1>31. QED
  BY <1>1, <1>2, <1>3, <1>4, <1>5, <1>6, <1>7, <1>8, <1>9, <1>10, <1>11, <1>12, <1>13,
     <1>14, <1>15, <1>16, <1>17, <1>18, <1>19, <1>20, <1>21, <1>22, <1>23, <1>24, <1>25,
     <1>26, <1>27, <1>28, <1>29, <1>30 DEF RecoveryNext, BackupThread, RecoveryRun,
     BackupLoop, RestoreStep, SwapStep, RollbackStep, restoreVars

\* The sources are recorded after the storage and after the database.
LEMMA SourcesStep ==
  ASSUME RecoveryTypeOK, Sources, PhaseAt, Alive, [RecoveryNext]_restoreVars
  PROVE Sources'
<1> USE RecoveryAssumption, BackupAssumption
<1>1. ControlType /\ Db \notin Subtree
  BY TypeParts, Contents DEF BackupType, Job
<1>2. ASSUME Extract PROVE Sources'
  <2>1. \/ journal'.phase = "STAGING" /\ journal'.sources = {} /\ at' = "extracted"
        \/ journal'.phase = "NONE" /\ journal'.sources = {} /\ at' = "idle"
    BY <1>2, ExtractEffect
  <2>2. QED
    BY <1>2, <2>1 DEF Extract, Sources, PreMutation
<1>3. ASSUME ValidateStaged PROVE Sources'
  BY <1>1, <1>3 DEF Sources, PreMutation, PhaseAt, ValidateStaged, CleanUp, Leave,
     NoJournal, InPhase, ControlType, Journal
<1>4. ASSUME EnterQuiescence PROVE Sources'
  BY <1>1, <1>4 DEF Sources, PreMutation, PhaseAt, EnterQuiescence, InPhase, ControlType,
     Journal
<1>5. ASSUME Disconnect PROVE Sources'
  BY <1>1, <1>5 DEF Sources, PreMutation, PhaseAt, Disconnect, CleanUp, Leave, NoJournal,
     ControlType, Journal
<1>6. ASSUME Reconnect PROVE Sources'
  BY <1>1, <1>6 DEF Sources, PreMutation, PhaseAt, Reconnect, InPhase, StartRollback,
     ControlType, Journal
<1>7. ASSUME Commit PROVE Sources'
  BY <1>1, <1>7 DEF Sources, PreMutation, PhaseAt, Commit, InPhase, ControlType, Journal
<1>8. ASSUME BeginSwap PROVE Sources'
  BY <1>1, <1>8 DEF Sources, PreMutation, PhaseAt, BeginSwap, InPhase, ControlType, Journal
<1>9. ASSUME StorageSwapped PROVE Sources'
  BY <1>1, <1>9 DEF Sources, PreMutation, PhaseAt, StorageSwapped, InPhase, ControlType,
     Journal
<1>10. ASSUME DatabaseSwapped PROVE Sources'
  BY <1>1, <1>10 DEF Sources, PreMutation, PhaseAt, DatabaseSwapped, InPhase, ControlType,
     Journal
<1>11. ASSUME ArchiveCommit PROVE Sources'
  BY <1>1, <1>11 DEF Sources, PreMutation, PhaseAt, ArchiveCommit, NoJournal, Leave,
     ControlType, Journal
<1>12. ASSUME ReverseDatabase PROVE Sources'
  BY <1>1, <1>12 DEF Sources, PreMutation, PhaseAt, ReverseDatabase, Halt, InPhase, Leave,
     Replaced, Removed, ControlType, Journal
<1>13. ASSUME CheckRollback PROVE Sources'
  BY <1>1, <1>13 DEF Sources, PreMutation, PhaseAt, CheckRollback, Halt, InPhase, Leave,
     ControlType, Journal
<1>14. ASSUME ArchiveRollback PROVE Sources'
  BY <1>1, <1>14 DEF Sources, PreMutation, PhaseAt, ArchiveRollback, NoJournal, Leave,
     ControlType, Journal
<1>15. ASSUME DiskError PROVE Sources'
  BY <1>1, <1>15 DEF Sources, PreMutation, PhaseAt, DiskError, StartRollback, InPhase,
     Replaced, ControlType, Journal
<1>16. ASSUME DeleteRecovery PROVE Sources'
  BY <1>1, <1>16 DEF Sources, PreMutation, PhaseAt, DeleteRecovery, NoJournal, ControlType,
     Journal
<1>17. ASSUME Boot PROVE Sources'
  <2>1. \/ /\ journal'.phase = "NONE" /\ journal'.sources = {} /\ proc' = "up" /\ at' = at
        \/ /\ journal'.phase = "ROLLING_BACK" /\ journal'.sources = journal.sources
           /\ proc' = "sweeping" /\ at' = "reverse"
        \/ /\ journal.phase \in {"ROLLED_BACK", "FAILED_NEEDS_OPERATOR"}
           /\ proc' = "up" /\ UNCHANGED <<journal, lock, at>>
    BY <1>17, <1>1, BootEffect
  <2>2. at = "idle" /\ forced' = forced
    BY <1>17 DEF Alive, Boot
  <2>3. QED
    BY <2>1, <2>2 DEF Sources, PreMutation
<1>18. ASSUME \/ (CaptureDatabase /\ UNCHANGED recovery)
             \/ (ScanStorage /\ UNCHANGED recovery)
             \/ (Assemble /\ UNCHANGED recovery)
             \/ (FinishBackup /\ UNCHANGED recovery)
             \/ (FailBackup /\ UNCHANGED recovery)
             \/ (EndUserBackup /\ UNCHANGED recovery)
             \/ (TimeoutBackup /\ UNCHANGED recovery)
             \/ (\E s \in Subtree : WriteFile(s) /\ UNCHANGED recovery)
             \/ (\E key \in Key \cup {NoKey} : UserBackup(key) /\ UNCHANGED recovery)
      PROVE UNCHANGED <<journal>>
  BY <1>18 DEF CaptureDatabase, ScanStorage, Assemble, FinishBackup, FailBackup,
     EndUserBackup, NoJob, TimeoutBackup, CancelledJob, WriteFile, UserBackup, StartBackup
<1>19. ASSUME \/ (\E b \in store : DeleteBackup(b) /\ UNCHANGED recovery)
             \/ WriteDatabase
             \/ (\E b \in store : UserRestore(b))
             \/ TakeLock
             \/ StartCheckpoint
             \/ EndCheckpoint
             \/ SwapAway
             \/ SwapIn
             \/ DatabaseAway
      PROVE UNCHANGED <<journal>>
  BY <1>19 DEF DeleteBackup, WriteDatabase, UserRestore, RequestRestore, TakeLock, Leave,
     StartCheckpoint, StartBackup, NoJob, EndCheckpoint, SwapAway, SwapIn, DatabaseAway,
     Renamed
<1>20. ASSUME \/ DatabaseIn
             \/ ReverseStorage
             \/ TimeoutRestore
             \/ Crash
             \/ Stop
      PROVE UNCHANGED <<journal>>
  BY <1>20 DEF DatabaseIn, ReverseStorage, TimeoutRestore, CutRestore, Leave, CancelledJob,
     NoJob, Crash, Down, Stop
<1>21. CASE UNCHANGED <<journal>>
  BY <1>1, <1>21 DEF Sources
<1>22. QED
  BY <1>2, <1>3, <1>4, <1>5, <1>6, <1>7, <1>8, <1>9, <1>10, <1>11, <1>12, <1>13, <1>14,
     <1>15, <1>16, <1>17, <1>18, <1>19, <1>20, <1>21 DEF RecoveryNext, BackupThread,
     RecoveryRun, BackupLoop, RestoreStep, SwapStep, RollbackStep, restoreVars

\* Only an operator takes away the lock of a halted recovery.
LEMMA HaltedStep ==
  ASSUME RecoveryTypeOK, Halted, PhaseAt, Alive, [RecoveryNext]_restoreVars
  PROVE Halted'
<1> USE RecoveryAssumption, BackupAssumption
<1>1. ControlType
  BY TypeParts, Contents DEF BackupType, Job
<1>2. ASSUME NEW b \in store, UserRestore(b) PROVE Halted'
  BY <1>1, <1>2 DEF Halted, PhaseAt, Alive, Destructive, Reverse, UserRestore,
     RequestRestore, ControlType, Journal
<1>3. ASSUME TakeLock PROVE Halted'
  BY <1>1, <1>3 DEF Halted, PhaseAt, Alive, Destructive, Reverse, TakeLock, Leave,
     ControlType, Journal
<1>4. ASSUME StartCheckpoint PROVE Halted'
  BY <1>1, <1>4 DEF Halted, PhaseAt, Alive, Destructive, Reverse, StartCheckpoint,
     StartBackup, NoJob, Leave, ControlType, Journal
<1>5. ASSUME EndCheckpoint PROVE Halted'
  BY <1>1, <1>5 DEF Halted, PhaseAt, Alive, Destructive, Reverse, EndCheckpoint, NoJob,
     Leave, ControlType, Journal
<1>6. ASSUME Extract PROVE Halted'
  <2>1. \/ journal'.phase = "STAGING" /\ journal'.sources = {} /\ at' = "extracted"
        \/ journal'.phase = "NONE" /\ journal'.sources = {} /\ at' = "idle"
    BY <1>6, ExtractEffect
  <2>2. QED
    BY <1>6, <2>1 DEF Extract, Halted
<1>7. ASSUME ValidateStaged PROVE Halted'
  BY <1>1, <1>7 DEF Halted, PhaseAt, Alive, Destructive, Reverse, ValidateStaged, CleanUp,
     Leave, NoJournal, InPhase, ControlType, Journal
<1>8. ASSUME EnterQuiescence PROVE Halted'
  BY <1>1, <1>8 DEF Halted, PhaseAt, Alive, Destructive, Reverse, EnterQuiescence, InPhase,
     ControlType, Journal
<1>9. ASSUME Disconnect PROVE Halted'
  BY <1>1, <1>9 DEF Halted, PhaseAt, Alive, Destructive, Reverse, Disconnect, CleanUp,
     Leave, NoJournal, ControlType, Journal
<1>10. ASSUME Reconnect PROVE Halted'
  BY <1>1, <1>10 DEF Halted, PhaseAt, Alive, Destructive, Reverse, Reconnect, InPhase,
     StartRollback, ControlType, Journal
<1>11. ASSUME Commit PROVE Halted'
  BY <1>1, <1>11 DEF Halted, PhaseAt, Alive, Destructive, Reverse, Commit, InPhase,
     ControlType, Journal
<1>12. ASSUME BeginSwap PROVE Halted'
  BY <1>1, <1>12 DEF Halted, PhaseAt, Alive, Destructive, Reverse, BeginSwap, InPhase,
     ControlType, Journal
<1>13. ASSUME SwapAway PROVE Halted'
  BY <1>1, <1>13 DEF Halted, PhaseAt, Alive, Destructive, Reverse, SwapAway, ControlType,
     Journal
<1>14. ASSUME SwapIn PROVE Halted'
  BY <1>1, <1>14 DEF Halted, PhaseAt, Alive, Destructive, Reverse, SwapIn, ControlType, Journal
<1>15. ASSUME StorageSwapped PROVE Halted'
  BY <1>1, <1>15 DEF Halted, PhaseAt, Alive, Destructive, Reverse, StorageSwapped, InPhase,
     ControlType, Journal
<1>16. ASSUME DatabaseAway PROVE Halted'
  BY <1>1, <1>16 DEF Halted, PhaseAt, Alive, Destructive, Reverse, DatabaseAway, Renamed,
     ControlType, Journal
<1>17. ASSUME DatabaseIn PROVE Halted'
  BY <1>1, <1>17 DEF Halted, PhaseAt, Alive, Destructive, Reverse, DatabaseIn, ControlType,
     Journal
<1>18. ASSUME DatabaseSwapped PROVE Halted'
  BY <1>1, <1>18 DEF Halted, PhaseAt, Alive, Destructive, Reverse, DatabaseSwapped, InPhase,
     ControlType, Journal
<1>19. ASSUME ArchiveCommit PROVE Halted'
  BY <1>1, <1>19 DEF Halted, PhaseAt, Alive, Destructive, Reverse, ArchiveCommit, NoJournal,
     Leave, ControlType, Journal
<1>20. ASSUME ReverseStorage PROVE Halted'
  BY <1>1, <1>20 DEF Halted, PhaseAt, Alive, Destructive, Reverse, ReverseStorage,
     ControlType, Journal
<1>21. ASSUME ReverseDatabase PROVE Halted'
  BY <1>1, <1>21 DEF Halted, PhaseAt, Alive, Destructive, Reverse, ReverseDatabase, Halt,
     InPhase, Leave, Replaced, Removed, ControlType, Journal
<1>22. ASSUME CheckRollback PROVE Halted'
  BY <1>1, <1>22 DEF Halted, PhaseAt, Alive, Destructive, Reverse, CheckRollback, Halt,
     InPhase, Leave, ControlType, Journal
<1>23. ASSUME ArchiveRollback PROVE Halted'
  BY <1>1, <1>23 DEF Halted, PhaseAt, Alive, Destructive, Reverse, ArchiveRollback,
     NoJournal, Leave, ControlType, Journal
<1>24. ASSUME DiskError PROVE Halted'
  BY <1>1, <1>24 DEF Halted, PhaseAt, Alive, Destructive, Reverse, DiskError, StartRollback,
     InPhase, Replaced, ControlType, Journal
<1>25. ASSUME TimeoutRestore PROVE Halted'
  BY <1>1, <1>25 DEF Halted, PhaseAt, Alive, Destructive, Reverse, TimeoutRestore,
     CutRestore, Leave, CancelledJob, NoJob, ControlType, Journal
<1>26. ASSUME DeleteRecovery PROVE Halted'
  BY <1>1, <1>26 DEF Halted, PhaseAt, Alive, Destructive, Reverse, DeleteRecovery,
     NoJournal, ControlType, Journal
<1>27. ASSUME Crash PROVE Halted'
  BY <1>1, <1>27 DEF Halted, PhaseAt, Alive, Destructive, Reverse, Crash, Down, NoJob,
     ControlType, Journal
<1>28. ASSUME Stop PROVE Halted'
  BY <1>1, <1>28 DEF Halted, PhaseAt, Alive, Destructive, Reverse, Stop, Down, NoJob,
     ControlType, Journal
<1>29. ASSUME Boot PROVE Halted'
  <2>1. \/ /\ journal'.phase = "NONE" /\ journal'.sources = {} /\ proc' = "up" /\ at' = at
        \/ /\ journal'.phase = "ROLLING_BACK" /\ journal'.sources = journal.sources
           /\ proc' = "sweeping" /\ at' = "reverse"
        \/ /\ journal.phase \in {"ROLLED_BACK", "FAILED_NEEDS_OPERATOR"}
           /\ proc' = "up" /\ UNCHANGED <<journal, lock, at>>
    BY <1>29, <1>1, BootEffect
  <2>2. at = "idle" /\ forced' = forced
    BY <1>29 DEF Alive, Boot
  <2>3. QED
    BY <2>1, <2>2 DEF Halted
<1>30. ASSUME \/ (CaptureDatabase /\ UNCHANGED recovery)
             \/ (ScanStorage /\ UNCHANGED recovery)
             \/ (Assemble /\ UNCHANGED recovery)
             \/ (FinishBackup /\ UNCHANGED recovery)
             \/ (FailBackup /\ UNCHANGED recovery)
             \/ (EndUserBackup /\ UNCHANGED recovery)
             \/ (TimeoutBackup /\ UNCHANGED recovery)
             \/ (\E s \in Subtree : WriteFile(s) /\ UNCHANGED recovery)
             \/ (\E key \in Key \cup {NoKey} : UserBackup(key) /\ UNCHANGED recovery)
      PROVE UNCHANGED <<journal, lock, at, forced>>
  BY <1>30 DEF CaptureDatabase, ScanStorage, Assemble, FinishBackup, FailBackup,
     EndUserBackup, NoJob, TimeoutBackup, CancelledJob, WriteFile, UserBackup, StartBackup
<1>31. ASSUME \/ (\E b \in store : DeleteBackup(b) /\ UNCHANGED recovery)
             \/ WriteDatabase
      PROVE UNCHANGED <<journal, lock, at, forced>>
  BY <1>31 DEF DeleteBackup, WriteDatabase
<1>32. CASE UNCHANGED <<journal, lock, at, forced>>
  BY <1>1, <1>32 DEF Halted
<1>33. QED
  BY <1>2, <1>3, <1>4, <1>5, <1>6, <1>7, <1>8, <1>9, <1>10, <1>11, <1>12, <1>13, <1>14,
     <1>15, <1>16, <1>17, <1>18, <1>19, <1>20, <1>21, <1>22, <1>23, <1>24, <1>25, <1>26,
     <1>27, <1>28, <1>29, <1>30, <1>31, <1>32 DEF RecoveryNext, BackupThread, RecoveryRun,
     BackupLoop, RestoreStep, SwapStep, RollbackStep, restoreVars

\* A capture always sees a database.
LEMMA HasDatabaseStep ==
  ASSUME RecoveryTypeOK, HasDatabase, [RecoveryNext]_restoreVars
  PROVE HasDatabase'
<1> USE RecoveryAssumption, BackupAssumption
<1>1. /\ DataType /\ BackupType /\ Db \in Part
  BY TypeParts, Contents DEF BackupType, Job
<1>2. ASSUME CaptureDatabase /\ UNCHANGED recovery PROVE HasDatabase'
  BY <1>1, <1>2 DEF HasDatabase, Preparing, Reverse, Await, Swap, CaptureDatabase, At,
     DataType, BackupType, Job, Absent, Empty, Artifact, Nothing
<1>3. ASSUME ScanStorage /\ UNCHANGED recovery PROVE HasDatabase'
  BY <1>1, <1>3 DEF HasDatabase, Preparing, Reverse, Await, Swap, ScanStorage, At, DataType,
     BackupType, Job, Absent, Empty, Artifact, Nothing
<1>4. ASSUME Assemble /\ UNCHANGED recovery PROVE HasDatabase'
  BY <1>1, <1>4 DEF HasDatabase, Preparing, Reverse, Await, Swap, Assemble, Archived,
     Packed, At, DataType, BackupType, Job, Absent, Empty, Artifact, Nothing
<1>5. ASSUME FinishBackup /\ UNCHANGED recovery PROVE HasDatabase'
  <2>1. PICK new \in Artifacts(job.id) :
          store' \subseteq store \cup {[new EXCEPT !.sidecar = TRUE, !.key = job.key]}
    BY <1>5 DEF FinishBackup
  <2>2. [new EXCEPT !.sidecar = TRUE, !.key = job.key].parts = new.parts /\ new \in store
    BY <1>1, <2>1 DEF Artifacts, BackupType, Artifact
  <2>3. job'.at \in {"finished", "failed"} /\ UNCHANGED <<at, staged>>
    BY <1>1, <1>5 DEF FinishBackup, At, BackupType, Job
  <2>4. QED
    BY <2>1, <2>2, <2>3 DEF HasDatabase
<1>6. ASSUME FailBackup /\ UNCHANGED recovery PROVE HasDatabase'
  BY <1>1, <1>6 DEF HasDatabase, Preparing, Reverse, Await, Swap, FailBackup, At, DataType,
     BackupType, Job, Absent, Empty, Artifact, Nothing
<1>7. ASSUME EndUserBackup /\ UNCHANGED recovery PROVE HasDatabase'
  BY <1>1, <1>7 DEF HasDatabase, Preparing, Reverse, Await, Swap, EndUserBackup, NoJob,
     DataType, BackupType, Job, Absent, Empty, Artifact, Nothing
<1>8. ASSUME TimeoutBackup /\ UNCHANGED recovery PROVE HasDatabase'
  BY <1>1, <1>8 DEF HasDatabase, Preparing, Reverse, Await, Swap, TimeoutBackup,
     CancelledJob, NoJob, Archived, Packed, DataType, BackupType, Job, Absent, Empty,
     Artifact, Nothing
<1>9. ASSUME NEW key \in Key \cup {NoKey}, UserBackup(key) /\ UNCHANGED recovery
      PROVE  HasDatabase'
  BY <1>1, <1>9 DEF HasDatabase, Preparing, Reverse, Await, Swap, UserBackup, StartBackup,
     NoJob, DataType, BackupType, Job, Absent, Empty, Artifact, Nothing
<1>10. ASSUME NEW b \in store, DeleteBackup(b) /\ UNCHANGED recovery PROVE HasDatabase'
  BY <1>1, <1>10 DEF HasDatabase, Preparing, Reverse, Await, Swap, DeleteBackup, DataType,
     BackupType, Job, Absent, Empty, Artifact, Nothing
<1>11. ASSUME NEW b \in store, UserRestore(b) PROVE HasDatabase'
  BY <1>1, <1>11 DEF HasDatabase, Preparing, Reverse, Await, Swap, UserRestore, RequestRestore
<1>12. ASSUME TakeLock PROVE HasDatabase'
  BY <1>1, <1>12 DEF HasDatabase, Preparing, Reverse, Await, Swap, TakeLock, Leave
<1>13. ASSUME StartCheckpoint PROVE HasDatabase'
  BY <1>1, <1>13 DEF HasDatabase, Preparing, Reverse, Await, Swap, StartCheckpoint,
     StartBackup, NoJob, Leave, DataType, BackupType, Job, Absent, Empty, Artifact, Nothing
<1>14. ASSUME EndCheckpoint PROVE HasDatabase'
  BY <1>1, <1>14 DEF HasDatabase, Preparing, Reverse, Await, Swap, EndCheckpoint, NoJob,
     Leave, DataType, BackupType, Job, Absent, Empty, Artifact, Nothing
<1>15. ASSUME Extract PROVE HasDatabase'
  BY <1>1, <1>15 DEF HasDatabase, Preparing, Reverse, Await, Swap, Extract, CleanUp, Leave,
     Artifacts
<1>16. ASSUME ValidateStaged PROVE HasDatabase'
  BY <1>1, <1>16 DEF HasDatabase, Preparing, Reverse, Await, Swap, ValidateStaged, CleanUp,
     Leave
<1>17. ASSUME EnterQuiescence PROVE HasDatabase'
  BY <1>1, <1>17 DEF HasDatabase, Preparing, Reverse, Await, Swap, EnterQuiescence
<1>18. ASSUME Disconnect PROVE HasDatabase'
  BY <1>1, <1>18 DEF HasDatabase, Preparing, Reverse, Await, Swap, Disconnect, CleanUp, Leave
<1>19. ASSUME Reconnect PROVE HasDatabase'
  BY <1>1, <1>19 DEF HasDatabase, Preparing, Reverse, Await, Swap, Reconnect, StartRollback
<1>20. ASSUME Commit PROVE HasDatabase'
  BY <1>1, <1>20 DEF HasDatabase, Preparing, Reverse, Await, Swap, Commit
<1>21. ASSUME BeginSwap PROVE HasDatabase'
  BY <1>1, <1>21 DEF HasDatabase, Preparing, Reverse, Await, Swap, BeginSwap
<1>22. ASSUME SwapAway PROVE HasDatabase'
  BY <1>1, <1>22 DEF HasDatabase, Preparing, Reverse, Await, Swap, SwapAway
<1>23. ASSUME SwapIn PROVE HasDatabase'
  BY <1>1, <1>23 DEF HasDatabase, Preparing, Reverse, Await, Swap, SwapIn
<1>24. ASSUME StorageSwapped PROVE HasDatabase'
  BY <1>1, <1>24 DEF HasDatabase, Preparing, Reverse, Await, Swap, StorageSwapped
<1>25. ASSUME DatabaseAway PROVE HasDatabase'
  BY <1>1, <1>25 DEF HasDatabase, Preparing, Reverse, Await, Swap, DatabaseAway, Renamed
<1>26. ASSUME DatabaseIn PROVE HasDatabase'
  BY <1>1, <1>26 DEF HasDatabase, Preparing, Reverse, Await, Swap, DatabaseIn
<1>27. ASSUME DatabaseSwapped PROVE HasDatabase'
  BY <1>1, <1>27 DEF HasDatabase, Preparing, Reverse, Await, Swap, DatabaseSwapped
<1>28. ASSUME ArchiveCommit PROVE HasDatabase'
  BY <1>1, <1>28 DEF HasDatabase, Preparing, Reverse, Await, Swap, ArchiveCommit, Leave
<1>29. ASSUME ReverseStorage PROVE HasDatabase'
  BY <1>1, <1>29 DEF HasDatabase, Preparing, Reverse, Await, Swap, ReverseStorage
<1>30. ASSUME ReverseDatabase PROVE HasDatabase'
  BY <1>1, <1>30 DEF HasDatabase, Preparing, Reverse, Await, Swap, ReverseDatabase, Halt,
     Leave, Replaced, Removed
<1>31. ASSUME CheckRollback PROVE HasDatabase'
  BY <1>1, <1>31 DEF HasDatabase, Preparing, Reverse, Await, Swap, CheckRollback, Halt, Leave
<1>32. ASSUME ArchiveRollback PROVE HasDatabase'
  BY <1>1, <1>32 DEF HasDatabase, Preparing, Reverse, Await, Swap, ArchiveRollback, Leave
<1>33. ASSUME DiskError PROVE HasDatabase'
  BY <1>1, <1>33 DEF HasDatabase, Preparing, Reverse, Await, Swap, DiskError, StartRollback,
     Replaced
<1>34. ASSUME TimeoutRestore PROVE HasDatabase'
  BY <1>1, <1>34 DEF HasDatabase, Preparing, Reverse, Await, Swap, TimeoutRestore,
     CutRestore, Leave, CancelledJob, NoJob, Archived, Packed, DataType, BackupType, Job,
     Absent, Empty, Artifact, Nothing
<1>35. ASSUME Crash PROVE HasDatabase'
  BY <1>1, <1>35 DEF HasDatabase, Preparing, Reverse, Await, Swap, Crash, Down, NoJob,
     DataType, BackupType, Job, Absent, Empty, Artifact, Nothing
<1>36. ASSUME Stop PROVE HasDatabase'
  BY <1>1, <1>36 DEF HasDatabase, Preparing, Reverse, Await, Swap, Stop, Down, NoJob,
     DataType, BackupType, Job, Absent, Empty, Artifact, Nothing
<1>37. ASSUME Boot PROVE HasDatabase'
  BY <1>1, <1>37 DEF HasDatabase, Preparing, Reverse, Await, Swap, Boot, StartRollback
<1>38. ASSUME \/ (\E s \in Subtree : WriteFile(s) /\ UNCHANGED recovery)
             \/ WriteDatabase
             \/ DeleteRecovery
      PROVE UNCHANGED <<store, job, at, staged>>
  BY <1>38 DEF WriteFile, WriteDatabase, DeleteRecovery
<1>39. CASE UNCHANGED <<store, job, at, staged>>
  BY <1>1, <1>39 DEF HasDatabase, Preparing, Reverse
<1>40. QED
  BY <1>2, <1>3, <1>4, <1>5, <1>6, <1>7, <1>8, <1>9, <1>10, <1>11, <1>12, <1>13, <1>14,
     <1>15, <1>16, <1>17, <1>18, <1>19, <1>20, <1>21, <1>22, <1>23, <1>24, <1>25, <1>26,
     <1>27, <1>28, <1>29, <1>30, <1>31, <1>32, <1>33, <1>34, <1>35, <1>36, <1>37, <1>38,
     <1>39 DEF RecoveryNext, BackupThread, RecoveryRun, BackupLoop, RestoreStep, SwapStep,
     RollbackStep, restoreVars

\* The subtree in hand is one of those still to do, and stays in hand.
LEMMA CurrentTodo ==
  ASSUME ControlType, todo # {}
  PROVE  Current \in todo /\ Current \in Subtree /\ Current \in Part /\ Current # Db
<1> QED
  BY Contents DEF Current, ControlType

LEMMA CurrentStays ==
  ASSUME todo' = todo
  PROVE  Current' = Current
<1> QED
  BY DEF Current

\* A write is newer than everything before.
LEMMA WriteFileEffect ==
  ASSUME DataType, NEW s \in Subtree, WriteFile(s)
  PROVE  /\ proc = "up" /\ live[s] # Absent
         /\ version' = version + 1 /\ live'[s].v = version' /\ live'[s] # Absent
         /\ \A p \in Part \ {s} : live'[p] = live[p]
         /\ UNCHANGED <<backups, proc>>
<1>1. live \in [Part -> Content] /\ s \in Part /\ version \in Nat
  BY Contents DEF DataType
<1>2. live' = [live EXCEPT ![s] = [live[s] EXCEPT !.v = version']]
  BY DEF WriteFile
<1>3. live'[s].v = version' /\ version' = version + 1
  BY <1>1, <1>2 DEF WriteFile, Content
<1>4. QED
  BY <1>1, <1>2, <1>3 DEF WriteFile, Absent

\* A write to the database goes where the connections are open.
LEMMA WriteDatabaseEffect ==
  ASSUME DataType, WriteDatabase
  PROVE  /\ proc = "up" /\ ~Blocked /\ version' = version + 1
         /\ \A s \in Subtree : live'[s] = live[s] /\ kept'[s] = kept[s]
         /\ \/ live'[Db] = live[Db]
            \/ live'[Db].v = version' /\ live'[Db] # Absent
         /\ live[Db] # Absent => live'[Db].s = live[Db].s
         /\ \/ kept'[Db] = kept[Db]
            \/ kept'[Db].v = version' /\ kept'[Db] # Absent
         /\ kept'[Db].s = kept[Db].s
         /\ UNCHANGED <<backups, proc, journal, lock, coroutine, bookkeeping>>
<1>1. /\ live \in [Part -> Content] /\ kept \in [Part -> Content] /\ version \in Nat
      /\ Open(live[Db]) \in Content /\ kept[Db] \in Content
  BY Contents DEF DataType
<1>2. /\ live' \in {live, [live EXCEPT ![Db] = [Open(live[Db]) EXCEPT !.v = version']]}
      /\ kept' \in {kept, [kept EXCEPT ![Db] = [kept[Db] EXCEPT !.v = version']]}
  BY DEF WriteDatabase
<1>3. version' = version + 1 /\ version' # 0
  BY <1>1 DEF WriteDatabase
<1>4. /\ [Open(live[Db]) EXCEPT !.v = version'].v = version'
      /\ [Open(live[Db]) EXCEPT !.v = version'] # Absent
      /\ [Open(live[Db]) EXCEPT !.v = version'].s = Open(live[Db]).s
      /\ [kept[Db] EXCEPT !.v = version'].v = version'
      /\ [kept[Db] EXCEPT !.v = version'] # Absent
      /\ [kept[Db] EXCEPT !.v = version'].s = kept[Db].s
  BY <1>1, <1>3 DEF Content, Absent
<1>5. live[Db] # Absent => Open(live[Db]) = live[Db]
  BY DEF Open
<1>6. CASE live' = live
  BY <1>1, <1>2, <1>3, <1>4, <1>6, Contents DEF WriteDatabase
<1>7. CASE live' = [live EXCEPT ![Db] = [Open(live[Db]) EXCEPT !.v = version']]
  BY <1>1, <1>2, <1>3, <1>4, <1>5, <1>7, Contents DEF WriteDatabase
<1>8. QED
  BY <1>2, <1>6, <1>7

\* A capture sees the database, or an empty one if there is none.
LEMMA CaptureEffect ==
  ASSUME DataType, BackupType, CaptureDatabase
  PROVE  /\ job.at = "started" /\ job'.at = "captured" /\ job'.id = job.id
         /\ job'.seen[Db] = IF live[Db] = Absent THEN Empty ELSE live[Db]
         /\ \A s \in Subtree : live'[s] = live[s]
         /\ live'[Db] = live[Db] \/ (live[Db] = Absent /\ live'[Db] = Empty)
         /\ UNCHANGED <<version, store, made, proc>>
<1>1. live \in [Part -> Content] /\ job.seen \in [Part -> Content]
  BY DEF DataType, BackupType, Job
<1>2. /\ \A s \in Subtree : live'[s] = live[s]
      /\ live'[Db] = live[Db] \/ (live[Db] = Absent /\ live'[Db] = Empty)
  <2>1. /\ live' \in {live, [live EXCEPT ![Db] = Empty]}
        /\ live' # live => live[Db] = Absent
    BY DEF CaptureDatabase
  <2>2. Db \in Part /\ Subtree \subseteq Part /\ Db \notin Subtree
    BY Contents
  <2>3. CASE live' = live
    BY <2>3
  <2>4. CASE live' # live
    BY <1>1, <2>1, <2>2, <2>4
  <2>5. QED
    BY <2>3, <2>4
<1>3. /\ job'.at = "captured" /\ job'.id = job.id
      /\ job'.seen[Db] = IF live[Db] = Absent THEN Empty ELSE live[Db]
  BY <1>1, Contents DEF CaptureDatabase, At, BackupType, Job
<1>4. QED
  BY <1>2, <1>3 DEF CaptureDatabase

\* The swap of a subtree: away, and in.
LEMMA SwapAwayEffect ==
  ASSUME DataType, ControlType, SwapAway
  PROVE  /\ at = "storage" /\ at' = "place" /\ todo # {} /\ Current' = Current
         /\ Current \in todo /\ Current \in Subtree /\ Current # Db
         /\ kept'[Current] = live[Current] /\ live'[Current] = Absent
         /\ \A p \in Part \ {Current} : kept'[p] = kept[p] /\ live'[p] = live[p]
         /\ UNCHANGED <<version, backups, proc, journal, lock, want, by, saved, staged, todo,
                        result, pool, bookkeeping>>
<1>1. live \in [Part -> Content] /\ kept \in [Part -> Content]
  BY DEF DataType
<1>2. Current \in todo /\ Current \in Subtree /\ Current \in Part
      /\ Current # Db /\ Current' = Current
  BY CurrentTodo, CurrentStays DEF SwapAway
<1>3. QED
  BY <1>1, <1>2 DEF SwapAway

LEMMA SwapInEffect ==
  ASSUME DataType, ControlType, Todo, SwapIn
  PROVE  /\ at = "place" /\ at' = "storage" /\ todo' = todo \ {Current}
         /\ Current \in todo /\ Current \in Subtree /\ Current # Db
         /\ live'[Current] = staged[Current]
         /\ \A p \in Part \ {Current} : live'[p] = live[p]
         /\ UNCHANGED <<version, backups, proc, durable, want, by, saved, staged, result, pool,
                        bookkeeping>>
<1>1. live \in [Part -> Content]
  BY DEF DataType
<1>2. Current \in todo /\ Current \in Subtree /\ Current \in Part /\ Current # Db
  BY CurrentTodo DEF SwapIn, Todo
<1>3. QED
  BY <1>1, <1>2 DEF SwapIn

\* The same for the database.
LEMMA DatabaseSwapEffect ==
  ASSUME DataType, DatabaseAway \/ DatabaseIn
  PROVE  /\ \A s \in Subtree : live'[s] = live[s] /\ kept'[s] = kept[s]
         /\ DatabaseAway => live'[Db] = Absent /\ kept'[Db] = live[Db]
         /\ DatabaseIn => live'[Db] = staged[Db] /\ kept'[Db] = kept[Db]
         /\ UNCHANGED <<version, backups, proc, journal, lock, want, by, saved, staged, todo,
                        result, bookkeeping>>
<1>1. live \in [Part -> Content] /\ kept \in [Part -> Content]
  BY DEF DataType
<1>2. QED
  BY <1>1, Contents DEF DatabaseAway, DatabaseIn

\* A file error: the restorer at work puts its own copies back.
LEMMA DiskErrorEffect ==
  ASSUME DataType, ControlType, DiskError
  PROVE  /\ at \in {"storage", "place", "database", "install"} /\ at' = "reverse"
         /\ \A p \in Part :
              \/ live'[p] = live[p] /\ kept'[p] = kept[p]
              \/ kept[p] # Absent /\ live'[p] = kept[p] /\ kept'[p] = Absent
         /\ at \in {"storage", "place"} =>
              /\ \A s \in Subtree : kept'[s] = Absent
              /\ live'[Db] = live[Db] /\ kept'[Db] = kept[Db]
              /\ \A s \in Subtree : kept[s] # Absent => live'[s] = kept[s]
         /\ at \in {"database", "install"} =>
              /\ \A s \in Subtree : kept'[s] = kept[s] /\ live'[s] = live[s]
              /\ kept[Db] # Absent => live'[Db] = kept[Db]
         /\ journal'.phase = "ROLLING_BACK" /\ journal'.sources = journal.sources
         /\ todo' = journal.sources \cap Subtree
         /\ UNCHANGED <<version, backups, proc, lock, want, by, saved, staged, result, bookkeeping>>
<1> DEFINE mine == IF at \in {"storage", "place"} THEN Subtree ELSE {Db}
           undone == {p \in mine : kept[p] # Absent}
<1>1. /\ at \in {"storage", "place", "database", "install"} /\ at' = "reverse"
      /\ todo' = journal.sources \cap Subtree
      /\ UNCHANGED <<version, backups, proc, lock, want, by, saved, staged, result, bookkeeping>>
  BY DEF DiskError, StartRollback
<1>2. journal'.phase = "ROLLING_BACK" /\ journal'.sources = journal.sources
  BY DEF DiskError, StartRollback, InPhase, ControlType, Journal
<1>3. \A p \in Part : /\ live'[p] = IF p \in undone THEN kept[p] ELSE live[p]
                      /\ kept'[p] = IF p \in undone THEN Absent ELSE kept[p]
  BY DEF DiskError
<1>4. QED
  BY <1>1, <1>2, <1>3, Contents

\* A step of the storage's reversal puts a copy back, if it is there.
LEMMA ReverseStorageEffect ==
  ASSUME DataType, ControlType, ReverseStorage
  PROVE  /\ at = "reverse" /\ Current \in todo /\ Current \in Subtree /\ todo' = todo \ {Current}
         /\ live'[Current] = IF kept[Current] # Absent THEN kept[Current] ELSE live[Current]
         /\ kept'[Current] = Absent
         /\ \A p \in Part \ {Current} : live'[p] = live[p] /\ kept'[p] = kept[p]
         /\ Db # Current
         /\ UNCHANGED <<version, backups, proc, journal, lock, at, want, by, saved, staged, result,
                        pool, bookkeeping>>
<1>1. live \in [Part -> Content] /\ kept \in [Part -> Content]
  BY DEF DataType
<1>2. Current \in todo /\ Current \in Subtree /\ Current \in Part /\ Current # Db
  BY CurrentTodo DEF ReverseStorage
<1>3. QED
  BY <1>1, <1>2 DEF ReverseStorage

\* The database is put back or unlinked, or the recovery halts.
LEMMA ReverseDatabaseEffect ==
  ASSUME DataType, ControlType, ReverseDatabase
  PROVE  /\ at = "reverse" /\ todo = {} /\ todo' = todo
         /\ \A s \in Subtree : live'[s] = live[s] /\ kept'[s] = kept[s]
         /\ \/ /\ Db \in journal.sources /\ kept[Db] # Absent
               /\ live'[Db] = kept[Db] /\ kept'[Db] = Absent
               /\ at' = "checking" /\ UNCHANGED <<journal, lock, proc>>
            \/ /\ Db \in journal.sources /\ live'[Db] = live[Db] /\ kept'[Db] = kept[Db]
               /\ journal'.phase = "FAILED_NEEDS_OPERATOR" /\ lock' = TRUE /\ at' = "idle"
               /\ proc' \in {proc, "down"}
            \/ /\ Db \notin journal.sources
               /\ live'[Db] = Absent /\ kept'[Db] = kept[Db]
               /\ at' = "checking" /\ UNCHANGED <<journal, lock, proc>>
         /\ UNCHANGED <<version, backups, want, by, saved, staged, bookkeeping>>
<1>1. live \in [Part -> Content] /\ kept \in [Part -> Content]
  BY DEF DataType
<1>2. CASE Db \in journal.sources /\ kept[Db] # Absent
  BY <1>1, <1>2, Contents DEF ReverseDatabase
<1>3. CASE Db \in journal.sources /\ kept[Db] = Absent
  <2>1. journal' = InPhase("FAILED_NEEDS_OPERATOR") /\ lock' = TRUE
        /\ at' = "idle" /\ proc' \in {proc, "down"}
    BY <1>3 DEF ReverseDatabase, Halt, Leave
  <2>2. journal'.phase = "FAILED_NEEDS_OPERATOR"
    BY <2>1 DEF InPhase, ControlType, Journal
  <2>3. QED
    BY <1>3, <2>1, <2>2 DEF ReverseDatabase
<1>4. CASE Db \notin journal.sources
  BY <1>1, <1>4, Contents DEF ReverseDatabase
<1>5. QED
  BY <1>2, <1>3, <1>4

\* The rollback's check records ROLLED_BACK or halts.
LEMMA CheckEffect ==
  ASSUME ControlType, CheckRollback
  PROVE  /\ at = "checking"
         /\ \/ /\ live[Db] # Absent /\ journal'.phase = "ROLLED_BACK" /\ at' = "archiving"
               /\ UNCHANGED <<lock, proc>>
            \/ /\ journal'.phase = "FAILED_NEEDS_OPERATOR" /\ lock' = TRUE /\ at' = "idle"
               /\ proc' \in {proc, "down"}
         /\ UNCHANGED <<data, backups, kept, want, by, saved, staged, todo, bookkeeping>>
<1> QED
  BY DEF CheckRollback, Halt, Leave, InPhase, ControlType, Journal

\* A staged schema is migrated on the live database.
LEMMA ValidateEffect ==
  ASSUME DataType, ControlType, ValidateStaged
  PROVE  /\ at = "extracted"
         /\ \A s \in Subtree : live'[s] = live[s]
         /\ live'[Db] = live[Db] \/ (live'[Db] # Absent /\ live'[Db].s = "head")
         /\ \/ journal'.phase = "STAGED" /\ at' = "staged" /\ lock' = lock
            \/ journal'.phase = "NONE" /\ journal'.sources = {} /\ at' = "idle" /\ lock' = FALSE
         /\ UNCHANGED <<version, backups, proc, kept, want, by, saved, staged, todo,
                        pool, bookkeeping>>
<1>1. live \in [Part -> Content]
  BY DEF DataType
<1>2. live' \in {live, [live EXCEPT ![Db] = Upgraded(@)]}
  BY DEF ValidateStaged
<1>3. Upgraded(live[Db]).s = "head" /\ Upgraded(live[Db]) # Absent
  BY <1>1, Contents DEF Upgraded, Absent, Content
<1>4. \/ journal'.phase = "STAGED" /\ at' = "staged" /\ lock' = lock
      \/ journal'.phase = "NONE" /\ journal'.sources = {} /\ at' = "idle" /\ lock' = FALSE
  BY DEF ValidateStaged, CleanUp, Leave, NoJournal, InPhase, ControlType, Journal
<1>5. /\ \A s \in Subtree : live'[s] = live[s]
      /\ live'[Db] = live[Db] \/ (live'[Db] # Absent /\ live'[Db].s = "head")
  <2>1. Db \in Part /\ Subtree \subseteq Part /\ Db \notin Subtree
    BY Contents
  <2>2. CASE live' = live
    BY <2>2
  <2>3. CASE live' = [live EXCEPT ![Db] = Upgraded(@)]
    BY <1>1, <1>3, <2>1, <2>3
  <2>4. QED
    BY <1>2, <2>2, <2>3
<1>6. QED
  BY <1>4, <1>5 DEF ValidateStaged

\* Trust is not regained, and while it lasts a doomed rollback stays doomed.
LEMMA TrustStep ==
  ASSUME RecoveryTypeOK, PhaseAt, Alive, Halted, Reversed, [RecoveryNext]_restoreVars
  PROVE (Trusted' => Trusted /\ (Doomed => Doomed'))
<1> USE RecoveryAssumption, BackupAssumption
<1>1. DataType /\ ControlType
  BY TypeParts, Contents DEF BackupType, Job
<1>2. ASSUME Extract PROVE (Trusted' => Trusted /\ (Doomed => Doomed'))
  <2>1. at \notin {"idle", "requested"} /\ proc = "up"
    BY <1>2, <1>1 DEF Extract, Alive, Reverse, ControlType
  <2>2. forced' = forced
    BY <1>2 DEF Extract
  <2>3. QED
    BY <2>1, <2>2 DEF Trusted, Doomed, Halted
<1>3. ASSUME ValidateStaged PROVE (Trusted' => Trusted /\ (Doomed => Doomed'))
  <2>1. at \notin {"idle", "requested"} /\ proc = "up"
    BY <1>3, <1>1 DEF ValidateStaged, Alive, Reverse, ControlType
  <2>2. forced' = forced
    BY <1>3 DEF ValidateStaged
  <2>3. QED
    BY <2>1, <2>2 DEF Trusted, Doomed, Halted
<1>4. ASSUME EnterQuiescence PROVE (Trusted' => Trusted /\ (Doomed => Doomed'))
  <2>1. at \notin {"idle", "requested"} /\ proc = "up"
    BY <1>4, <1>1 DEF EnterQuiescence, Alive, Reverse, ControlType
  <2>2. forced' = forced
    BY <1>4 DEF EnterQuiescence
  <2>3. QED
    BY <2>1, <2>2 DEF Trusted, Doomed, Halted
<1>5. ASSUME Disconnect PROVE (Trusted' => Trusted /\ (Doomed => Doomed'))
  <2>1. at \notin {"idle", "requested"} /\ proc = "up"
    BY <1>5, <1>1 DEF Disconnect, Alive, Reverse, ControlType
  <2>2. forced' = forced
    BY <1>5 DEF Disconnect
  <2>3. QED
    BY <2>1, <2>2 DEF Trusted, Doomed, Halted
<1>6. ASSUME Reconnect PROVE (Trusted' => Trusted /\ (Doomed => Doomed'))
  <2>1. at \notin {"idle", "requested"} /\ proc = "up"
    BY <1>6, <1>1 DEF Reconnect, Alive, Reverse, ControlType
  <2>2. forced' = forced
    BY <1>6 DEF Reconnect
  <2>3. QED
    BY <2>1, <2>2 DEF Trusted, Doomed, Halted
<1>7. ASSUME Commit PROVE (Trusted' => Trusted /\ (Doomed => Doomed'))
  <2>1. at \notin {"idle", "requested"} /\ proc = "up"
    BY <1>7, <1>1 DEF Commit, Alive, Reverse, ControlType
  <2>2. forced' = forced
    BY <1>7 DEF Commit
  <2>3. QED
    BY <2>1, <2>2 DEF Trusted, Doomed, Halted
<1>8. ASSUME BeginSwap PROVE (Trusted' => Trusted /\ (Doomed => Doomed'))
  <2>1. at \notin {"idle", "requested"} /\ proc = "up"
    BY <1>8, <1>1 DEF BeginSwap, Alive, Reverse, ControlType
  <2>2. forced' = forced
    BY <1>8 DEF BeginSwap
  <2>3. QED
    BY <2>1, <2>2 DEF Trusted, Doomed, Halted
<1>9. ASSUME StorageSwapped PROVE (Trusted' => Trusted /\ (Doomed => Doomed'))
  <2>1. at \notin {"idle", "requested"} /\ proc = "up"
    BY <1>9, <1>1 DEF StorageSwapped, Alive, Reverse, ControlType
  <2>2. forced' = forced
    BY <1>9 DEF StorageSwapped
  <2>3. QED
    BY <2>1, <2>2 DEF Trusted, Doomed, Halted
<1>10. ASSUME DatabaseSwapped PROVE (Trusted' => Trusted /\ (Doomed => Doomed'))
  <2>1. at \notin {"idle", "requested"} /\ proc = "up"
    BY <1>10, <1>1 DEF DatabaseSwapped, Alive, Reverse, ControlType
  <2>2. forced' = forced
    BY <1>10 DEF DatabaseSwapped
  <2>3. QED
    BY <2>1, <2>2 DEF Trusted, Doomed, Halted
<1>11. ASSUME ArchiveCommit PROVE (Trusted' => Trusted /\ (Doomed => Doomed'))
  <2>1. at \notin {"idle", "requested"} /\ proc = "up"
    BY <1>11, <1>1 DEF ArchiveCommit, Alive, Reverse, ControlType
  <2>2. forced' = forced
    BY <1>11 DEF ArchiveCommit
  <2>3. QED
    BY <2>1, <2>2 DEF Trusted, Doomed, Halted
<1>12. ASSUME ReverseDatabase PROVE (Trusted' => Trusted /\ (Doomed => Doomed'))
  <2>1. /\ at = "reverse" /\ forced' = forced
        /\ (journal' = journal /\ proc' = proc) \/ journal'.phase = "FAILED_NEEDS_OPERATOR"
    BY <1>12, <1>1, ReverseDatabaseEffect
  <2>2. QED
    BY <2>1 DEF Trusted, Doomed, Halted
<1>13. ASSUME CheckRollback PROVE (Trusted' => Trusted /\ (Doomed => Doomed'))
  <2>1. /\ at = "checking" /\ forced' = forced
        /\ (live[Db] # Absent /\ proc' = proc) \/ journal'.phase = "FAILED_NEEDS_OPERATOR"
    BY <1>13, <1>1, CheckEffect
  <2>2. live[Db] # Absent => ~Doomed
    BY <2>1 DEF Reversed
  <2>3. QED
    BY <2>1, <2>2 DEF Trusted, Doomed, Halted
<1>14. ASSUME ArchiveRollback PROVE (Trusted' => Trusted /\ (Doomed => Doomed'))
  <2>1. at = "archiving" /\ forced' = forced /\ journal.phase = "ROLLED_BACK"
    BY <1>14 DEF ArchiveRollback, PhaseAt
  <2>2. QED
    BY <2>1 DEF Trusted, Doomed, Halted, Destructive
<1>15. ASSUME DiskError PROVE (Trusted' => Trusted /\ (Doomed => Doomed'))
  <2>1. at \notin {"idle", "requested"} /\ proc = "up" /\ forced' = forced
    BY <1>15, <1>1, DiskErrorEffect DEF Alive, Reverse, ControlType
  <2>2. QED
    BY <2>1 DEF Trusted, Doomed, Halted
<1>16. ASSUME DeleteRecovery PROVE (Trusted' => Trusted /\ (Doomed => Doomed'))
  BY <1>1, <1>16 DEF Trusted, Doomed, DeleteRecovery
<1>17. ASSUME Crash PROVE (Trusted' => Trusted /\ (Doomed => Doomed'))
  BY <1>1, <1>17 DEF Trusted, Doomed, Crash, Down, NoJob
<1>18. ASSUME Stop PROVE (Trusted' => Trusted /\ (Doomed => Doomed'))
  BY <1>1, <1>18 DEF Trusted, Doomed, Stop, Down, NoJob
<1>19. ASSUME Boot PROVE (Trusted' => Trusted /\ (Doomed => Doomed'))
  <2>1. /\ forced' = forced /\ proc = "down"
        /\ \/ journal.phase \notin Destructive \cup {"FAILED_NEEDS_OPERATOR"}
           \/ /\ journal.phase \in Destructive /\ journal'.phase = "ROLLING_BACK"
              /\ journal'.sources = journal.sources /\ proc' = "sweeping"
           \/ journal' = journal /\ journal.phase \notin Destructive
    BY <1>19, <1>1, BootEffect DEF PreMutation, Destructive
  <2>2. QED
    BY <2>1 DEF Trusted, Doomed, Destructive
<1>20. ASSUME \/ (CaptureDatabase /\ UNCHANGED recovery)
             \/ (ScanStorage /\ UNCHANGED recovery)
             \/ (Assemble /\ UNCHANGED recovery)
             \/ (FinishBackup /\ UNCHANGED recovery)
             \/ (FailBackup /\ UNCHANGED recovery)
             \/ (EndUserBackup /\ UNCHANGED recovery)
             \/ (TimeoutBackup /\ UNCHANGED recovery)
             \/ (\E s \in Subtree : WriteFile(s) /\ UNCHANGED recovery)
             \/ (\E key \in Key \cup {NoKey} : UserBackup(key) /\ UNCHANGED recovery)
      PROVE UNCHANGED <<journal, forced, proc>>
  BY <1>20 DEF CaptureDatabase, At, ScanStorage, Assemble, Archived, Packed, FinishBackup,
     Artifacts, FailBackup, EndUserBackup, NoJob, TimeoutBackup, CancelledJob, WriteFile,
     UserBackup, StartBackup
<1>21. ASSUME \/ (\E b \in store : DeleteBackup(b) /\ UNCHANGED recovery)
             \/ WriteDatabase
             \/ (\E b \in store : UserRestore(b))
             \/ TakeLock
             \/ StartCheckpoint
             \/ EndCheckpoint
             \/ SwapAway
             \/ SwapIn
             \/ DatabaseAway
      PROVE UNCHANGED <<journal, forced, proc>>
  BY <1>21 DEF DeleteBackup, WriteDatabase, UserRestore, RequestRestore, TakeLock, Leave,
     StartCheckpoint, StartBackup, NoJob, EndCheckpoint, SwapAway, SwapIn, DatabaseAway,
     Renamed
<1>22. ASSUME \/ DatabaseIn
             \/ ReverseStorage
             \/ TimeoutRestore
      PROVE UNCHANGED <<journal, forced, proc>>
  BY <1>22 DEF DatabaseIn, ReverseStorage, TimeoutRestore, CutRestore, Leave, CancelledJob,
     NoJob, Archived, Packed
<1>23. CASE UNCHANGED <<journal, forced, proc>>
  BY <1>1, <1>23 DEF Trusted, Doomed
<1>24. QED
  BY <1>2, <1>3, <1>4, <1>5, <1>6, <1>7, <1>8, <1>9, <1>10, <1>11, <1>12, <1>13, <1>14,
     <1>15, <1>16, <1>17, <1>18, <1>19, <1>20, <1>21, <1>22, <1>23 DEF RecoveryNext,
     BackupThread, RecoveryRun, BackupLoop, RestoreStep, SwapStep, RollbackStep, restoreVars

\* What the backups and the one under way hold of the database they held before,
\* but for a capture.
SeenFlow ==
  /\ \A b \in store' : (\E c \in store : b.parts = c.parts) \/ b.parts[Db] = job.seen[Db]
  /\ CaptureDatabase \/ job'.seen[Db] \in {job.seen[Db], Absent}

\* Only a capture adds to what backups hold of the database.
LEMMA SeenStep ==
  ASSUME RecoveryTypeOK, [RecoveryNext]_restoreVars
  PROVE SeenFlow
<1> USE RecoveryAssumption, BackupAssumption
<1>1. BackupType /\ Archived.parts[Db] = job.seen[Db] /\ Db \in Part
  BY TypeParts, Contents DEF Archived, Packed
<1>2. ASSUME CaptureDatabase /\ UNCHANGED recovery PROVE SeenFlow
  <2>1. store' = store /\ CaptureDatabase
    BY <1>2 DEF CaptureDatabase
  <2>2. QED
    BY <2>1 DEF SeenFlow
<1>3. ASSUME ScanStorage /\ UNCHANGED recovery PROVE SeenFlow
  <2>1. store' \subseteq store \cup {Archived}
    BY <1>3 DEF ScanStorage, At
  <2>2. job'.seen[Db] \in {job.seen[Db], Absent}
    BY <1>3, <1>1 DEF ScanStorage, At, BackupType, Job
  <2>3. QED
    BY <2>1, <2>2, <1>1 DEF SeenFlow
<1>4. ASSUME Assemble /\ UNCHANGED recovery PROVE SeenFlow
  <2>1. store' \subseteq store \cup {Archived}
    BY <1>4 DEF Assemble, At
  <2>2. job'.seen[Db] \in {job.seen[Db], Absent}
    BY <1>4, <1>1 DEF Assemble, At, BackupType, Job
  <2>3. QED
    BY <2>1, <2>2, <1>1 DEF SeenFlow
<1>5. ASSUME FinishBackup /\ UNCHANGED recovery PROVE SeenFlow
  <2>1. PICK new \in Artifacts(job.id) :
          store' \subseteq store \cup {[new EXCEPT !.sidecar = TRUE, !.key = job.key]}
    BY <1>5 DEF FinishBackup
  <2>2. [new EXCEPT !.sidecar = TRUE, !.key = job.key].parts = new.parts /\ new \in store
    BY <2>1, <1>1 DEF Artifacts, BackupType, Artifact
  <2>3. job'.seen = job.seen
    BY <1>5, <1>1 DEF FinishBackup, At, BackupType, Job
  <2>4. QED
    BY <2>1, <2>2, <2>3 DEF SeenFlow
<1>6. ASSUME FailBackup /\ UNCHANGED recovery PROVE SeenFlow
  <2>1. store' \subseteq store \cup {Archived}
    BY <1>6 DEF FailBackup, At
  <2>2. job'.seen[Db] \in {job.seen[Db], Absent}
    BY <1>6, <1>1 DEF FailBackup, At, BackupType, Job
  <2>3. QED
    BY <2>1, <2>2, <1>1 DEF SeenFlow
<1>7. ASSUME EndUserBackup /\ UNCHANGED recovery PROVE SeenFlow
  <2>1. store' \subseteq store \cup {Archived}
    BY <1>7 DEF EndUserBackup, NoJob, Nothing
  <2>2. job'.seen[Db] \in {job.seen[Db], Absent}
    BY <1>7, <1>1 DEF EndUserBackup, NoJob, Nothing, BackupType, Job
  <2>3. QED
    BY <2>1, <2>2, <1>1 DEF SeenFlow
<1>8. ASSUME TimeoutBackup /\ UNCHANGED recovery PROVE SeenFlow
  <2>1. store' \subseteq store \cup {Archived}
    BY <1>8 DEF TimeoutBackup, CancelledJob, NoJob, Nothing
  <2>2. job'.seen[Db] \in {job.seen[Db], Absent}
    BY <1>8, <1>1 DEF TimeoutBackup, CancelledJob, NoJob, Nothing, BackupType, Job
  <2>3. QED
    BY <2>1, <2>2, <1>1 DEF SeenFlow
<1>9. ASSUME NEW key \in Key \cup {NoKey}, UserBackup(key) /\ UNCHANGED recovery PROVE SeenFlow
  <2>1. store' \subseteq store \cup {Archived}
    BY <1>9 DEF UserBackup, StartBackup, NoJob, Nothing
  <2>2. job'.seen[Db] \in {job.seen[Db], Absent}
    BY <1>9, <1>1 DEF UserBackup, StartBackup, NoJob, Nothing, BackupType, Job
  <2>3. QED
    BY <2>1, <2>2, <1>1 DEF SeenFlow
<1>10. ASSUME NEW b \in store, DeleteBackup(b) /\ UNCHANGED recovery PROVE SeenFlow
  <2>1. store' \subseteq store \cup {Archived}
    BY <1>10 DEF DeleteBackup
  <2>2. job'.seen[Db] \in {job.seen[Db], Absent}
    BY <1>10, <1>1 DEF DeleteBackup, BackupType, Job
  <2>3. QED
    BY <2>1, <2>2, <1>1 DEF SeenFlow
<1>11. ASSUME StartCheckpoint PROVE SeenFlow
  <2>1. CASE StartBackup("recovery", NoKey)
    <3>1. store' = store /\ job'.seen = Nothing
      BY <2>1, <1>1, StartEffect
    <3>2. QED
      BY <3>1, <1>1 DEF SeenFlow, Nothing
  <2>2. CASE UNCHANGED backups
    BY <2>2 DEF SeenFlow
  <2>3. QED
    BY <1>11, <2>1, <2>2 DEF StartCheckpoint
<1>12. ASSUME EndCheckpoint PROVE SeenFlow
  <2>1. store' \subseteq store \cup {Archived}
    BY <1>12 DEF EndCheckpoint, NoJob, Nothing
  <2>2. job'.seen[Db] \in {job.seen[Db], Absent}
    BY <1>12, <1>1 DEF EndCheckpoint, NoJob, Nothing, BackupType, Job
  <2>3. QED
    BY <2>1, <2>2, <1>1 DEF SeenFlow
<1>13. ASSUME TimeoutRestore PROVE SeenFlow
  <2>1. store' \subseteq store \cup {Archived}
    BY <1>13 DEF TimeoutRestore, CutRestore, CancelledJob, NoJob, Nothing
  <2>2. job'.seen[Db] \in {job.seen[Db], Absent}
    BY <1>13, <1>1 DEF TimeoutRestore, CutRestore, CancelledJob, NoJob, Nothing, BackupType,
       Job
  <2>3. QED
    BY <2>1, <2>2, <1>1 DEF SeenFlow
<1>14. ASSUME Crash PROVE SeenFlow
  <2>1. store' \subseteq store \cup {Archived}
    BY <1>14 DEF Crash, Down, NoJob, Nothing
  <2>2. job'.seen[Db] \in {job.seen[Db], Absent}
    BY <1>14, <1>1 DEF Crash, Down, NoJob, Nothing, BackupType, Job
  <2>3. QED
    BY <2>1, <2>2, <1>1 DEF SeenFlow
<1>15. ASSUME Stop PROVE SeenFlow
  <2>1. store' \subseteq store \cup {Archived}
    BY <1>15 DEF Stop, Down, NoJob, Nothing
  <2>2. job'.seen[Db] \in {job.seen[Db], Absent}
    BY <1>15, <1>1 DEF Stop, Down, NoJob, Nothing, BackupType, Job
  <2>3. QED
    BY <2>1, <2>2, <1>1 DEF SeenFlow
<1>16. ASSUME \/ (\E s \in Subtree : WriteFile(s) /\ UNCHANGED recovery)
             \/ WriteDatabase
             \/ (\E b \in store : UserRestore(b))
             \/ TakeLock
             \/ Extract
             \/ ValidateStaged
             \/ EnterQuiescence
             \/ Disconnect
             \/ Reconnect
      PROVE UNCHANGED <<store, job>>
  BY <1>16 DEF WriteFile, WriteDatabase, Open, UserRestore, RequestRestore, TakeLock, Leave,
     Extract, CleanUp, NoJournal, Artifacts, ValidateStaged, InPhase, Upgraded,
     EnterQuiescence, Disconnect, Reconnect, StartRollback
<1>17. ASSUME \/ Commit
             \/ BeginSwap
             \/ SwapAway
             \/ SwapIn
             \/ StorageSwapped
             \/ DatabaseAway
             \/ DatabaseIn
             \/ DatabaseSwapped
             \/ ArchiveCommit
      PROVE UNCHANGED <<store, job>>
  BY <1>17 DEF Commit, InPhase, BeginSwap, Nothing, SwapAway, SwapIn, StorageSwapped,
     DatabaseAway, Renamed, DatabaseIn, DatabaseSwapped, ArchiveCommit, NoJournal, Leave
<1>18. ASSUME \/ ReverseStorage
             \/ ReverseDatabase
             \/ CheckRollback
             \/ ArchiveRollback
             \/ DiskError
             \/ DeleteRecovery
             \/ Boot
      PROVE UNCHANGED <<store, job>>
  BY <1>18 DEF ReverseStorage, ReverseDatabase, Halt, InPhase, Leave, Replaced, Removed,
     CheckRollback, ArchiveRollback, NoJournal, DiskError, StartRollback, DeleteRecovery,
     Boot, WithTables, Open
<1>19. CASE UNCHANGED <<store, job>>
  BY <1>1, <1>19 DEF SeenFlow
<1>20. QED
  BY <1>2, <1>3, <1>4, <1>5, <1>6, <1>7, <1>8, <1>9, <1>10, <1>11, <1>12, <1>13, <1>14,
     <1>15, <1>16, <1>17, <1>18, <1>19 DEF RecoveryNext, BackupThread, RecoveryRun,
     BackupLoop, RestoreStep, SwapStep, RollbackStep, restoreVars

\* A missing database is created anew only under a rollback that will halt.
LEMMA GenuineStep ==
  ASSUME RecoveryTypeOK, PhaseAt, Alive, Todo, Halted, Reversed, Present, Genuine,
         [RecoveryNext]_restoreVars
  PROVE Genuine'
<1> USE RecoveryAssumption, BackupAssumption
<1>1. /\ DataType /\ ControlType /\ BackupType /\ Db \in Part /\ Db \notin Subtree
      /\ SeenFlow /\ (Trusted' => Trusted /\ (Doomed => Doomed'))
  BY TypeParts, SeenStep, TrustStep, Contents
<1>2. ASSUME CaptureDatabase /\ UNCHANGED recovery PROVE Genuine'
  <2>1. /\ job'.seen[Db] = IF live[Db] = Absent THEN Empty ELSE live[Db]
        /\ live'[Db] \in {live[Db], Empty} /\ staged' = staged /\ kept' = kept /\ store' = store
    BY <1>2, <1>1, CaptureEffect
  <2>2. ~Doomed
    <3>1. job.at # "idle"
      BY <1>2, <1>1, CaptureEffect
    <3>2. QED
      BY <3>1 DEF Alive, Doomed
  <2>3. Empty.s # "unversioned"
    BY DEF Empty
  <2>4. QED
    BY <2>1, <2>2, <2>3, <1>1 DEF Genuine
<1>3. ASSUME NEW s \in Subtree, ~Blocked /\ WriteFile(s) /\ UNCHANGED recovery PROVE Genuine'
  <2>1. live'[Db] = live[Db] /\ UNCHANGED <<store, job, staged, kept>>
    BY <1>3, <1>1, WriteFileEffect, Contents
  <2>2. QED
    BY <2>1, <1>1 DEF Genuine
<1>4. ASSUME WriteDatabase PROVE Genuine'
  <2>1. /\ proc = "up" /\ ~Blocked /\ UNCHANGED <<store, job, staged>>
        /\ live[Db] # Absent => live'[Db].s = live[Db].s
        /\ kept'[Db].s = kept[Db].s
    BY <1>4, <1>1, WriteDatabaseEffect
  <2>2. Trusted => live[Db] # Absent
    BY <2>1 DEF Present, Blocked, Doomed, Swap, Reverse
  <2>3. QED
    BY <2>1, <2>2, <1>1 DEF Genuine
<1>5. ASSUME Extract PROVE Genuine'
  <2>1. /\ UNCHANGED <<store, job, kept, live>>
        /\ staged' = staged \/ \E b \in store : staged' = b.parts
    BY <1>5, ExtractEffect
  <2>2. QED
    BY <2>1, <1>1 DEF Genuine
<1>6. ASSUME ValidateStaged PROVE Genuine'
  <2>1. /\ UNCHANGED <<store, job, kept, staged>>
        /\ live'[Db] = live[Db] \/ live'[Db].s = "head"
    BY <1>6, <1>1, ValidateEffect
  <2>2. QED
    BY <2>1, <1>1 DEF Genuine
<1>7. ASSUME BeginSwap PROVE Genuine'
  <2>1. UNCHANGED <<store, job, live, staged>> /\ kept'[Db].s = "none"
    BY <1>7, <1>1 DEF BeginSwap, Nothing, Absent
  <2>2. QED
    BY <2>1, <1>1 DEF Genuine
<1>8. ASSUME SwapAway PROVE Genuine'
  <2>1. UNCHANGED <<store, job, staged>> /\ live'[Db] = live[Db] /\ kept'[Db] = kept[Db]
    BY <1>8, <1>1, SwapAwayEffect
  <2>2. QED
    BY <2>1, <1>1 DEF Genuine
<1>9. ASSUME SwapIn PROVE Genuine'
  <2>1. UNCHANGED <<store, job, staged>> /\ live'[Db] = live[Db] /\ kept'[Db] = kept[Db]
    BY <1>9, <1>1, SwapInEffect
  <2>2. QED
    BY <2>1, <1>1 DEF Genuine
<1>10. ASSUME DatabaseAway PROVE Genuine'
  <2>1. /\ UNCHANGED <<store, job, staged>> /\ live'[Db] = Absent /\ kept'[Db] = live[Db]
        /\ proc = "up" /\ Absent.s = "none"
    BY <1>10, <1>1, DatabaseSwapEffect DEF DatabaseAway, Alive, Reverse, ControlType, Absent
  <2>2. QED
    BY <2>1, <1>1 DEF Genuine, Doomed
<1>11. ASSUME DatabaseIn PROVE Genuine'
  <2>1. UNCHANGED <<store, job, staged>> /\ live'[Db] = staged[Db] /\ kept'[Db] = kept[Db]
    BY <1>11, <1>1, DatabaseSwapEffect
  <2>2. QED
    BY <2>1, <1>1 DEF Genuine
<1>12. ASSUME ReverseStorage PROVE Genuine'
  <2>1. UNCHANGED <<store, job, staged>> /\ live'[Db] = live[Db] /\ kept'[Db] = kept[Db]
    BY <1>12, <1>1, ReverseStorageEffect
  <2>2. QED
    BY <2>1, <1>1 DEF Genuine
<1>13. ASSUME ReverseDatabase PROVE Genuine'
  <2>1. /\ UNCHANGED <<store, job, staged>>
        /\ \/ live'[Db] = kept[Db] /\ kept'[Db] = Absent
           \/ live'[Db] = Absent /\ kept'[Db] = kept[Db]
           \/ journal'.phase = "FAILED_NEEDS_OPERATOR"
    BY <1>13, <1>1, ReverseDatabaseEffect
  <2>2. Absent.s = "none"
    BY DEF Absent
  <2>3. QED
    BY <2>1, <2>2, <1>1 DEF Genuine, Trusted
<1>14. ASSUME DiskError PROVE Genuine'
  <2>1. /\ UNCHANGED <<store, job, staged>>
        /\ \/ live'[Db] = live[Db] /\ kept'[Db] = kept[Db]
           \/ live'[Db] = kept[Db] /\ kept'[Db] = Absent
    BY <1>14, <1>1, DiskErrorEffect
  <2>2. Absent.s = "none"
    BY DEF Absent
  <2>3. QED
    BY <2>1, <2>2, <1>1 DEF Genuine
<1>15. ASSUME Boot PROVE Genuine'
  <2>1. UNCHANGED <<store, job, staged, kept>> /\ live'[Db] = WithTables(live[Db])
    BY <1>15, <1>1, BootEffect DEF DataType
  <2>2. at = "idle"
    BY <1>15 DEF Boot, Alive
  <2>3. Trusted /\ live[Db] = Absent => Doomed
    BY <2>2 DEF Present
  <2>4. live[Db] # Absent => \/ WithTables(live[Db]).s = "filled"
                            \/ WithTables(live[Db]).s = live[Db].s
    BY <1>1 DEF WithTables, Open, DataType, Content
  <2>5. QED
    BY <2>1, <2>3, <2>4, <1>1 DEF Genuine
<1>16. ASSUME \/ (ScanStorage /\ UNCHANGED recovery)
             \/ (Assemble /\ UNCHANGED recovery)
             \/ (FinishBackup /\ UNCHANGED recovery)
             \/ (FailBackup /\ UNCHANGED recovery)
             \/ (EndUserBackup /\ UNCHANGED recovery)
             \/ (TimeoutBackup /\ UNCHANGED recovery)
             \/ (\E key \in Key \cup {NoKey} : UserBackup(key) /\ UNCHANGED recovery)
             \/ (\E b \in store : DeleteBackup(b) /\ UNCHANGED recovery)
             \/ (\E b \in store : UserRestore(b))
      PROVE UNCHANGED <<staged, kept, live>>
  BY <1>16 DEF ScanStorage, At, Assemble, FinishBackup, Artifacts, FailBackup,
     EndUserBackup, NoJob, TimeoutBackup, CancelledJob, UserBackup, StartBackup,
     DeleteBackup, UserRestore, RequestRestore
<1>17. ASSUME \/ TakeLock
             \/ StartCheckpoint
             \/ EndCheckpoint
             \/ EnterQuiescence
             \/ Disconnect
             \/ Reconnect
             \/ Commit
             \/ StorageSwapped
             \/ DatabaseSwapped
      PROVE UNCHANGED <<staged, kept, live>>
  BY <1>17 DEF TakeLock, Leave, StartCheckpoint, StartBackup, NoJob, EndCheckpoint,
     EnterQuiescence, Disconnect, Reconnect, StartRollback, Commit, StorageSwapped,
     DatabaseSwapped
<1>18. ASSUME \/ ArchiveCommit
             \/ CheckRollback
             \/ ArchiveRollback
             \/ TimeoutRestore
             \/ DeleteRecovery
             \/ Crash
             \/ Stop
      PROVE UNCHANGED <<staged, kept, live>>
  BY <1>18 DEF ArchiveCommit, Leave, CheckRollback, Halt, ArchiveRollback, TimeoutRestore,
     CutRestore, CancelledJob, NoJob, DeleteRecovery, Crash, Down, Stop
<1>19. CASE UNCHANGED <<staged, kept, live>>
  <2>1. CASE CaptureDatabase
    <3>1. store' = store /\ job'.seen[Db] = IF live[Db] = Absent THEN Empty ELSE live[Db]
      BY <2>1, <1>1, CaptureEffect
    <3>2. ~Doomed
      BY <2>1, <1>1, CaptureEffect DEF Alive, Doomed
    <3>3. Empty.s # "unversioned"
      BY DEF Empty
    <3>4. QED
      BY <3>1, <3>2, <3>3, <1>1, <1>19 DEF Genuine
  <2>2. CASE job'.seen[Db] \in {job.seen[Db], Absent}
    <3>1. Absent.s # "unversioned"
      BY DEF Absent
    <3>2. QED
      BY <2>2, <3>1, <1>1, <1>19 DEF Genuine, SeenFlow
  <2>3. QED
    BY <2>1, <2>2, <1>1 DEF SeenFlow
<1>20. QED
  BY <1>2, <1>3, <1>4, <1>5, <1>6, <1>7, <1>8, <1>9, <1>10, <1>11, <1>12, <1>13, <1>14,
     <1>15, <1>16, <1>17, <1>18, <1>19 DEF RecoveryNext, BackupThread, RecoveryRun,
     BackupLoop, RestoreStep, SwapStep, RollbackStep, restoreVars

\* A rollback that is going to halt does, or is interrupted and halts later.
LEMMA DoomStep ==
  ASSUME RecoveryTypeOK, Alive, [RecoveryNext]_restoreVars
  PROVE  Doomed => Doomed' \/ journal'.phase \notin Destructive
<1> USE RecoveryAssumption, BackupAssumption
<1>1. DataType /\ ControlType
  BY TypeParts
<1>2. ASSUME ReverseDatabase PROVE Doomed => Doomed' \/ journal'.phase \notin Destructive
  <2>1. \/ journal' = journal /\ proc' = proc
        \/ journal'.phase = "FAILED_NEEDS_OPERATOR"
    BY <1>2, <1>1, ReverseDatabaseEffect
  <2>2. QED
    BY <2>1 DEF Doomed, Destructive
<1>3. ASSUME CheckRollback PROVE Doomed => Doomed' \/ journal'.phase \notin Destructive
  <2>1. journal'.phase \in {"ROLLED_BACK", "FAILED_NEEDS_OPERATOR"}
    BY <1>3, <1>1, CheckEffect
  <2>2. QED
    BY <2>1 DEF Destructive
<1>4. ASSUME ArchiveRollback PROVE Doomed => Doomed' \/ journal'.phase \notin Destructive
  <2>1. journal'.phase = "NONE"
    BY <1>4 DEF ArchiveRollback, NoJournal
  <2>2. QED
    BY <2>1 DEF Destructive
<1>5. ASSUME DeleteRecovery PROVE Doomed => Doomed' \/ journal'.phase \notin Destructive
  <2>1. journal'.phase = "NONE"
    BY <1>5 DEF DeleteRecovery, NoJournal
  <2>2. QED
    BY <2>1 DEF Destructive
<1>6. ASSUME Crash PROVE Doomed => Doomed' \/ journal'.phase \notin Destructive
  <2>1. journal' = journal /\ proc' # "up"
    BY <1>6 DEF Crash, Down
  <2>2. QED
    BY <2>1 DEF Doomed
<1>7. ASSUME Stop PROVE Doomed => Doomed' \/ journal'.phase \notin Destructive
  <2>1. journal' = journal /\ proc' # "up"
    BY <1>7 DEF Stop, Down
  <2>2. QED
    BY <2>1 DEF Doomed
<1>8. ASSUME Boot PROVE Doomed => Doomed' \/ journal'.phase \notin Destructive
  <2>1. \/ journal.phase \in Destructive /\ proc' = "sweeping" /\ journal'.phase \in Destructive
           /\ journal'.sources = journal.sources
        \/ journal.phase \notin Destructive
    BY <1>8, <1>1, BootEffect DEF PreMutation, Destructive
  <2>2. QED
    BY <2>1 DEF Doomed
<1>9. ASSUME \/ Extract
             \/ ValidateStaged
             \/ EnterQuiescence
             \/ Disconnect
             \/ Reconnect
             \/ Commit
             \/ BeginSwap
             \/ StorageSwapped
             \/ DatabaseSwapped
      PROVE  proc = "up"
  BY <1>1, <1>9 DEF Extract, Artifacts, ValidateStaged, EnterQuiescence, Disconnect,
     Reconnect, Commit, BeginSwap, StorageSwapped, DatabaseSwapped, Alive, Reverse, Await,
     Swap, ControlType
<1>10. ASSUME \/ ArchiveCommit
             \/ DiskError
      PROVE  proc = "up"
  BY <1>1, <1>10 DEF ArchiveCommit, DiskError, Alive, Reverse, Await, Swap, ControlType
<1>11. CASE proc = "up"
  BY <1>11 DEF Doomed
<1>12. ASSUME \/ (CaptureDatabase /\ UNCHANGED recovery)
             \/ (ScanStorage /\ UNCHANGED recovery)
             \/ (Assemble /\ UNCHANGED recovery)
             \/ (FinishBackup /\ UNCHANGED recovery)
             \/ (FailBackup /\ UNCHANGED recovery)
             \/ (EndUserBackup /\ UNCHANGED recovery)
             \/ (TimeoutBackup /\ UNCHANGED recovery)
             \/ (\E s \in Subtree : WriteFile(s) /\ UNCHANGED recovery)
             \/ (\E key \in Key \cup {NoKey} : UserBackup(key) /\ UNCHANGED recovery)
      PROVE  UNCHANGED <<journal, proc>>
  BY <1>12 DEF CaptureDatabase, At, ScanStorage, Assemble, FinishBackup, Artifacts,
     FailBackup, EndUserBackup, NoJob, TimeoutBackup, CancelledJob, WriteFile, UserBackup,
     StartBackup
<1>13. ASSUME \/ (\E b \in store : DeleteBackup(b) /\ UNCHANGED recovery)
             \/ WriteDatabase
             \/ (\E b \in store : UserRestore(b))
             \/ TakeLock
             \/ StartCheckpoint
             \/ EndCheckpoint
             \/ SwapAway
             \/ SwapIn
             \/ DatabaseAway
      PROVE  UNCHANGED <<journal, proc>>
  BY <1>13 DEF DeleteBackup, WriteDatabase, UserRestore, RequestRestore, TakeLock, Leave,
     StartCheckpoint, StartBackup, NoJob, EndCheckpoint, SwapAway, SwapIn, DatabaseAway,
     Renamed
<1>14. ASSUME \/ DatabaseIn
             \/ ReverseStorage
             \/ TimeoutRestore
      PROVE  UNCHANGED <<journal, proc>>
  BY <1>14 DEF DatabaseIn, ReverseStorage, TimeoutRestore, CutRestore, Leave, CancelledJob,
     NoJob
<1>15. CASE UNCHANGED <<journal, proc>>
  BY <1>15 DEF Doomed
<1>16. QED
  BY <1>2, <1>3, <1>4, <1>5, <1>6, <1>7, <1>8, <1>9, <1>10, <1>11, <1>12, <1>13, <1>14,
     <1>15 DEF RecoveryNext, BackupThread, RecoveryRun, BackupLoop, RestoreStep, SwapStep,
     RollbackStep, restoreVars

\* What is missing is missing for a reason.
LEMMA PresentStep ==
  ASSUME RecoveryTypeOK, PhaseAt, Alive, HasDatabase, Todo, Sources, Halted, Reversed, Present,
         [RecoveryNext]_restoreVars
  PROVE  Present'
<1> USE RecoveryAssumption, BackupAssumption
<1>1. /\ DataType /\ ControlType /\ BackupType /\ Db \in Part /\ Db \notin Subtree
      /\ (Trusted' => Trusted /\ (Doomed => Doomed'))
  BY TypeParts, TrustStep, Contents
<1>2. ASSUME CaptureDatabase /\ UNCHANGED recovery PROVE Present'
  <2>1. /\ \A s \in Subtree : live'[s] = live[s]
        /\ live'[Db] = Absent => live[Db] = Absent
        /\ UNCHANGED <<kept, at, todo, journal, proc, forced>>
    BY <1>2, <1>1, CaptureEffect DEF Empty, Absent
  <2>2. Current' = Current
    BY <2>1, CurrentStays
  <2>3. QED
    BY <2>1, <2>2, <1>1 DEF Present
<1>3. ASSUME NEW s \in Subtree, ~Blocked /\ WriteFile(s) /\ UNCHANGED recovery PROVE Present'
  <2>1. /\ \A p \in Part : live'[p] = live[p] \/ live'[p] # Absent
        /\ UNCHANGED <<kept, at, todo, journal, proc, forced>>
    BY <1>3, <1>1, WriteFileEffect
  <2>2. Current' = Current
    BY <2>1, CurrentStays
  <2>3. QED
    BY <2>1, <2>2, <1>1, Contents DEF Present
<1>4. ASSUME WriteDatabase PROVE Present'
  <2>1. /\ \A s \in Subtree : live'[s] = live[s] /\ kept'[s] = kept[s]
        /\ live'[Db] = Absent => live[Db] = Absent
        /\ at \notin {"place", "install"}
        /\ UNCHANGED <<at, todo, journal, proc, forced>>
    BY <1>4, <1>1, WriteDatabaseEffect DEF Blocked, Swap
  <2>2. QED
    BY <2>1, <1>1 DEF Present
<1>5. ASSUME ValidateStaged PROVE Present'
  <2>1. /\ \A s \in Subtree : live'[s] = live[s]
        /\ live'[Db] = Absent => live[Db] = Absent
        /\ at = "extracted" /\ at' \in {"staged", "idle"}
    BY <1>5, <1>1, ValidateEffect
  <2>2. QED
    BY <2>1, <1>1 DEF Present
<1>6. ASSUME SwapAway PROVE Present'
  <2>1. /\ at = "storage" /\ at' = "place" /\ Current' = Current /\ Current \in Subtree
        /\ kept'[Current] = live[Current] /\ live'[Db] = live[Db]
        /\ \A s \in Subtree \ {Current} : live'[s] = live[s]
        /\ UNCHANGED <<journal, proc, forced>>
    BY <1>6, <1>1, SwapAwayEffect, Contents
  <2>2. ~Doomed
    BY <2>1, <1>1 DEF Doomed, Alive, Reverse, ControlType
  <2>3. QED
    BY <2>1, <2>2, <1>1 DEF Present
<1>7. ASSUME SwapIn PROVE Present'
  <2>1. /\ at = "place" /\ at' = "storage" /\ staged[Current] # Absent
        /\ live'[Current] = staged[Current] /\ live'[Db] = live[Db]
        /\ \A s \in Subtree \ {Current} : live'[s] = live[s]
        /\ UNCHANGED <<journal, proc, forced>>
    BY <1>7, <1>1, SwapInEffect, Contents DEF Todo
  <2>2. QED
    BY <2>1, <1>1 DEF Present
<1>8. ASSUME DatabaseAway PROVE Present'
  <2>1. /\ at = "database" /\ at' = "install" /\ kept'[Db] = live[Db]
        /\ \A s \in Subtree : live'[s] = live[s]
    BY <1>8, <1>1, DatabaseSwapEffect DEF DatabaseAway
  <2>2. ~Doomed
    BY <2>1, <1>1 DEF Doomed, Alive, Reverse, ControlType
  <2>3. QED
    BY <2>1, <2>2, <1>1 DEF Present
<1>9. ASSUME DatabaseIn PROVE Present'
  <2>1. /\ at = "install" /\ at' = "installed" /\ live'[Db] # Absent
        /\ \A s \in Subtree : live'[s] = live[s]
    BY <1>9, <1>1, DatabaseSwapEffect DEF DatabaseIn, HasDatabase, Preparing, Reverse
  <2>2. QED
    BY <2>1, <1>1 DEF Present
<1>10. ASSUME ReverseStorage PROVE Present'
  <2>1. /\ at = "reverse" /\ at' = "reverse"
        /\ \A p \in Part : live'[p] = live[p] \/ live'[p] # Absent
    BY <1>10, <1>1, ReverseStorageEffect
  <2>2. QED
    BY <2>1, <1>1, Contents DEF Present
<1>11. ASSUME ReverseDatabase PROVE Present'
  <2>1. /\ at = "reverse" /\ \A s \in Subtree : live'[s] = live[s]
        /\ \/ at' = "checking" /\ live'[Db] # Absent
           \/ at' = "checking" /\ Db \notin journal.sources /\ journal' = journal
           \/ journal'.phase = "FAILED_NEEDS_OPERATOR"
    BY <1>11, <1>1, ReverseDatabaseEffect
  <2>2. QED
    BY <2>1, <1>1 DEF Present, Trusted
<1>12. ASSUME CheckRollback PROVE Present'
  <2>1. /\ at = "checking" /\ live' = live
        /\ (live[Db] # Absent /\ at' = "archiving") \/ journal'.phase = "FAILED_NEEDS_OPERATOR"
    BY <1>12, <1>1, CheckEffect
  <2>2. QED
    BY <2>1, <1>1 DEF Present, Trusted
<1>13. ASSUME DiskError PROVE Present'
  <2>1. /\ at \in {"storage", "place", "database", "install"} /\ at' = "reverse"
        /\ \A p \in Part : live'[p] = live[p] \/ live'[p] # Absent
        /\ at \in {"storage", "place"} =>
             \A s \in Subtree : kept[s] = Absent \/ live'[s] # Absent
        /\ at \in {"database", "install"} =>
             kept[Db] = Absent \/ live'[Db] # Absent
        /\ proc' = proc
    BY <1>13, <1>1, DiskErrorEffect
  <2>2. ~Doomed
    BY <2>1, <1>1 DEF Doomed, Alive, Reverse, ControlType
  <2>3. QED
    BY <2>1, <2>2, <1>1, Contents DEF Present
<1>14. ASSUME Crash PROVE Present'
  <2>1. /\ live' = live /\ journal' = journal /\ proc' # "up" /\ at' = "idle"
    BY <1>14 DEF Crash, Down
  <2>2. at \in {"place", "install"} \/ (at = "checking" /\ Db \notin journal.sources) => Doomed'
    BY <2>1 DEF Doomed, PhaseAt, Sources, Destructive, PreMutation
  <2>3. QED
    BY <2>1, <2>2, <1>1 DEF Present
<1>15. ASSUME Boot PROVE Present'
  <2>1. /\ live' = [live EXCEPT ![Db] = WithTables(live[Db])]
        /\ at = "idle" /\ at' \in {"idle", "reverse"}
    BY <1>15, <1>1, BootEffect DEF Alive
  <2>2. WithTables(live[Db]) # Absent
    BY <1>1 DEF WithTables, Open, DataType, Content, Absent, Blank
  <2>3. \A s \in Subtree : live'[s] = live[s]
    BY <2>1, <1>1, Contents DEF DataType
  <2>4. live'[Db] # Absent
    BY <2>1, <2>2, <1>1 DEF DataType
  <2>5. QED
    BY <2>1, <2>3, <2>4, <1>1 DEF Present
<1>16. ASSUME \/ (\E b \in store : UserRestore(b))
             \/ TakeLock
             \/ StartCheckpoint
             \/ EndCheckpoint
             \/ Extract
      PROVE  /\ live' = live /\ at \notin {"place", "install", "checking"}
             /\ at' \notin {"place", "install"}
  BY <1>16 DEF UserRestore, RequestRestore, TakeLock, Leave, StartCheckpoint, EndCheckpoint,
     Extract, Artifacts, CleanUp, Blocked, Swap, Reverse, Await
<1>17. ASSUME \/ EnterQuiescence
             \/ Disconnect
             \/ Reconnect
             \/ Commit
             \/ BeginSwap
      PROVE  /\ live' = live /\ at \notin {"place", "install", "checking"}
             /\ at' \notin {"place", "install"}
  BY <1>17 DEF EnterQuiescence, Disconnect, Leave, Reconnect, StartRollback, Commit,
     BeginSwap, CleanUp, Blocked, Swap, Reverse, Await
<1>18. ASSUME \/ StorageSwapped
             \/ DatabaseSwapped
             \/ ArchiveCommit
             \/ ArchiveRollback
             \/ TimeoutRestore
      PROVE  /\ live' = live /\ at \notin {"place", "install", "checking"}
             /\ at' \notin {"place", "install"}
  BY <1>18 DEF StorageSwapped, DatabaseSwapped, ArchiveCommit, Leave, ArchiveRollback,
     TimeoutRestore, CutRestore, CancelledJob, CleanUp, Blocked, Swap, Reverse, Await
<1>19. ASSUME \/ DeleteRecovery
             \/ Stop
      PROVE  /\ live' = live /\ at \notin {"place", "install", "checking"}
             /\ at' \notin {"place", "install"}
  BY <1>19 DEF DeleteRecovery, Stop, Down, CleanUp, Leave, Blocked, Swap, Reverse, Await
<1>20. CASE /\ live' = live /\ at \notin {"place", "install", "checking"}
             /\ at' \notin {"place", "install"}
  BY <1>1, <1>20 DEF Present
<1>21. ASSUME \/ (ScanStorage /\ UNCHANGED recovery)
             \/ (Assemble /\ UNCHANGED recovery)
             \/ (FinishBackup /\ UNCHANGED recovery)
             \/ (FailBackup /\ UNCHANGED recovery)
             \/ (EndUserBackup /\ UNCHANGED recovery)
      PROVE  UNCHANGED <<live, kept, at, todo, journal, proc, forced>>
  BY <1>21 DEF ScanStorage, At, Assemble, FinishBackup, Artifacts, FailBackup,
     EndUserBackup, NoJob
<1>22. ASSUME \/ (TimeoutBackup /\ UNCHANGED recovery)
             \/ (\E key \in Key \cup {NoKey} : UserBackup(key) /\ UNCHANGED recovery)
             \/ (\E b \in store : DeleteBackup(b) /\ UNCHANGED recovery)
      PROVE  UNCHANGED <<live, kept, at, todo, journal, proc, forced>>
  BY <1>22 DEF TimeoutBackup, CancelledJob, NoJob, UserBackup, StartBackup, DeleteBackup
<1>23. CASE UNCHANGED <<live, kept, at, todo, journal, proc, forced>>
  <2>1. Current' = Current
    BY <1>23, CurrentStays
  <2>2. QED
    BY <2>1, <1>23 DEF Present, Trusted, Doomed
<1>24. QED
  BY <1>2, <1>3, <1>4, <1>5, <1>6, <1>7, <1>8, <1>9, <1>10, <1>11, <1>12, <1>13, <1>14,
     <1>15, <1>16, <1>17, <1>18, <1>19, <1>20, <1>21, <1>22, <1>23 DEF RecoveryNext,
     BackupThread, RecoveryRun, BackupLoop, RestoreStep, SwapStep, RollbackStep, restoreVars

\* The copies are taken from untouched parts, and written to only by those who hold them open.
LEMMA CopiesStep ==
  ASSUME RecoveryTypeOK, Reversible, Copies, [RecoveryNext]_restoreVars
  PROVE  Copies'
<1> USE RecoveryAssumption, BackupAssumption
<1>1. /\ DataType /\ ControlType /\ BackupType
      /\ Db \in Part /\ Subtree \subseteq Part /\ Db \notin Subtree
      /\ version \in Nat /\ before.version \in Nat
  BY TypeParts, Contents DEF DataType
<1>2. ASSUME NEW s \in Subtree, ~Blocked /\ WriteFile(s) /\ UNCHANGED recovery PROVE Copies'
  <2>1. UNCHANGED <<kept, before>> /\ version' = version + 1
    BY <1>2, <1>1, WriteFileEffect
  <2>2. QED
    BY <2>1, <1>1 DEF Copies, AsBefore
<1>3. ASSUME WriteDatabase PROVE Copies'
  <2>1. /\ version' = version + 1 /\ before' = before
        /\ \A s \in Subtree : kept'[s] = kept[s]
        /\ kept'[Db] = kept[Db] \/ kept'[Db].v = version'
    BY <1>3, <1>1, WriteDatabaseEffect
  <2>2. kept'[Db].v = version' => kept'[Db].v > before.version
    BY <2>1, <1>1 DEF Copies
  <2>3. QED
    BY <2>1, <2>2, <1>1 DEF Copies, AsBefore
<1>4. ASSUME BeginSwap PROVE Copies'
  <2>1. /\ before'.version = version /\ version' = version
        /\ \A p \in Part : kept'[p] = Absent
    BY <1>4 DEF BeginSwap, Nothing
  <2>2. QED
    BY <2>1, <1>1 DEF Copies
<1>5. ASSUME SwapAway PROVE Copies'
  <2>1. /\ at = "storage" /\ Current \in todo /\ Current # Db /\ kept'[Current] = live[Current]
        /\ \A p \in Part \ {Current} : kept'[p] = kept[p]
        /\ UNCHANGED <<version, before>>
    BY <1>5, <1>1, SwapAwayEffect
  <2>2. live[Current] = before.parts[Current]
    BY <2>1 DEF Reversible
  <2>3. QED
    BY <2>1, <2>2, <1>1 DEF Copies, AsBefore
<1>6. ASSUME DatabaseAway PROVE Copies'
  <2>1. /\ at = "database" /\ kept'[Db] = live[Db] /\ \A s \in Subtree : kept'[s] = kept[s]
        /\ UNCHANGED <<version, before>>
    BY <1>6, <1>1, DatabaseSwapEffect DEF DatabaseAway
  <2>2. AsBefore(Db, live[Db])
    BY <2>1 DEF Reversible, AsBefore
  <2>3. QED
    BY <2>1, <2>2, <1>1 DEF Copies, AsBefore
<1>7. ASSUME ReverseStorage PROVE Copies'
  <2>1. /\ \A p \in Part : kept'[p] = kept[p] \/ kept'[p] = Absent
        /\ UNCHANGED <<version, before>>
    BY <1>7, <1>1, ReverseStorageEffect
  <2>2. QED
    BY <2>1, <1>1 DEF Copies, AsBefore
<1>8. ASSUME ReverseDatabase PROVE Copies'
  <2>1. /\ \A p \in Part : kept'[p] = kept[p] \/ kept'[p] = Absent
        /\ UNCHANGED <<version, before>>
    BY <1>8, <1>1, ReverseDatabaseEffect, Contents DEF Part
  <2>2. QED
    BY <2>1, <1>1 DEF Copies, AsBefore
<1>9. ASSUME DiskError PROVE Copies'
  <2>1. /\ \A p \in Part : kept'[p] = kept[p] \/ kept'[p] = Absent
        /\ UNCHANGED <<version, before>>
    BY <1>9, <1>1, DiskErrorEffect
  <2>2. QED
    BY <2>1, <1>1 DEF Copies, AsBefore
<1>10. ASSUME \/ (CaptureDatabase /\ UNCHANGED recovery)
             \/ (ScanStorage /\ UNCHANGED recovery)
             \/ (Assemble /\ UNCHANGED recovery)
             \/ (FinishBackup /\ UNCHANGED recovery)
             \/ (FailBackup /\ UNCHANGED recovery)
             \/ (EndUserBackup /\ UNCHANGED recovery)
             \/ (TimeoutBackup /\ UNCHANGED recovery)
             \/ (\E key \in Key \cup {NoKey} : UserBackup(key) /\ UNCHANGED recovery)
             \/ (\E b \in store : DeleteBackup(b) /\ UNCHANGED recovery)
      PROVE  UNCHANGED <<version, kept, before>>
  BY <1>10 DEF CaptureDatabase, At, ScanStorage, Assemble, FinishBackup, Artifacts,
     FailBackup, EndUserBackup, NoJob, TimeoutBackup, CancelledJob, UserBackup, StartBackup,
     DeleteBackup
<1>11. ASSUME \/ (\E b \in store : UserRestore(b))
             \/ TakeLock
             \/ StartCheckpoint
             \/ EndCheckpoint
             \/ Extract
             \/ ValidateStaged
             \/ EnterQuiescence
             \/ Disconnect
             \/ Reconnect
      PROVE  UNCHANGED <<version, kept, before>>
  BY <1>11 DEF UserRestore, RequestRestore, TakeLock, Leave, StartCheckpoint, StartBackup,
     NoJob, EndCheckpoint, Extract, CleanUp, Artifacts, ValidateStaged, EnterQuiescence,
     Disconnect, Reconnect, StartRollback
<1>12. ASSUME \/ Commit
             \/ SwapIn
             \/ StorageSwapped
             \/ DatabaseIn
             \/ DatabaseSwapped
             \/ ArchiveCommit
             \/ CheckRollback
             \/ ArchiveRollback
             \/ TimeoutRestore
      PROVE  UNCHANGED <<version, kept, before>>
  BY <1>12 DEF Commit, SwapIn, StorageSwapped, DatabaseIn, DatabaseSwapped, ArchiveCommit,
     Leave, CheckRollback, Halt, ArchiveRollback, TimeoutRestore, CutRestore, CancelledJob,
     NoJob
<1>13. ASSUME \/ DeleteRecovery
             \/ Crash
             \/ Stop
             \/ Boot
      PROVE  UNCHANGED <<version, kept, before>>
  BY <1>13 DEF DeleteRecovery, Crash, Down, NoJob, Stop, Boot, StartRollback
<1>14. CASE UNCHANGED <<version, kept, before>>
  BY <1>14 DEF Copies, AsBefore
<1>15. QED
  BY <1>2, <1>3, <1>4, <1>5, <1>6, <1>7, <1>8, <1>9, <1>10, <1>11, <1>12, <1>13, <1>14 DEF
     RecoveryNext, BackupThread, RecoveryRun, BackupLoop, RestoreStep, SwapStep,
     RollbackStep, restoreVars

\* Whatever is replaced or written can be put back.
LEMMA ReversibleStep ==
  ASSUME RecoveryTypeOK, PhaseAt, Alive, Todo, Copies, Reversible, [RecoveryNext]_restoreVars
  PROVE  Reversible'
<1> USE RecoveryAssumption, BackupAssumption
<1>1. /\ DataType /\ ControlType /\ BackupType
      /\ Db \in Part /\ Subtree \subseteq Part /\ Db \notin Subtree
      /\ version \in Nat /\ before.version \in Nat
  BY TypeParts, Contents DEF DataType
<1>2. ASSUME CaptureDatabase /\ UNCHANGED recovery PROVE Reversible'
  <2>1. /\ \A s \in Subtree : live'[s] = live[s]
        /\ live'[Db] = live[Db] \/ live[Db] = Absent
        /\ UNCHANGED <<kept, at, todo, journal, staged, before>>
    BY <1>2, <1>1, CaptureEffect
  <2>2. Current' = Current /\ todo \subseteq Subtree
    BY <2>1, <1>1, CurrentStays DEF ControlType
  <2>3. at \in {"storage", "place", "database"} =>
          live'[Db] = before.parts[Db] \/ before.parts[Db] = Absent
    BY <2>1 DEF Reversible
  <2>4. \A s \in Subtree : /\ AsBefore(s, live[s])' <=> AsBefore(s, live[s])
                          /\ Replaceable(s)' <=> Replaceable(s)
    BY <2>1 DEF AsBefore, Replaceable
  <2>5. at' \in {"storage", "place", "database"} =>
          live'[Db] = before'.parts[Db] \/ before'.parts[Db] = Absent
    BY <2>1, <2>2, <2>3, <2>4 DEF Reversible, AsBefore, Replaceable
  <2>6. at' \in {"storage", "place"} =>
          /\ \A s \in todo' : \/ (live'[s] = before'.parts[s] /\ kept'[s] = Absent)
                             \/ (at' = "place" /\ s = Current')
          /\ \A s \in Subtree : s \in todo' \/ Replaceable(s)'
    BY <2>1, <2>2, <2>3, <2>4 DEF Reversible, AsBefore, Replaceable
  <2>7. at' = "place" => kept'[Current'] = before'.parts[Current']
    BY <2>1, <2>2, <2>3, <2>4 DEF Reversible, AsBefore, Replaceable
  <2>8. journal'.phase \in Destructive =>
          \A s \in Subtree : \/ kept'[s] # Absent \/ AsBefore(s, live[s])'
                            \/ (at' = "place" /\ s = Current')
    BY <2>1, <2>2, <2>3, <2>4 DEF Reversible, AsBefore, Replaceable
  <2>9. journal'.phase \in {"STORAGE_SWAP_COMPLETE", "DATABASE_SWAP_COMPLETE", "VERIFYING"} =>
          \A s \in Subtree : Replaceable(s)'
    BY <2>1, <2>2, <2>3, <2>4 DEF Reversible, AsBefore, Replaceable
  <2>10. QED
    BY <2>5, <2>6, <2>7, <2>8, <2>9 DEF Reversible
<1>3. ASSUME NEW s \in Subtree, ~Blocked /\ WriteFile(s) /\ UNCHANGED recovery
      PROVE  Reversible'
  <2>1. /\ proc = "up" /\ version' = version + 1 /\ live'[s].v = version'
        /\ \A p \in Part \ {s} : live'[p] = live[p]
        /\ at \notin Swap \cup Reverse
        /\ UNCHANGED <<kept, at, todo, journal, staged, before>>
    BY <1>3, <1>1, WriteFileEffect DEF Blocked
  <2>2. live'[s].v > before.version
    BY <2>1, <1>1 DEF Copies
  <2>3. journal.phase \in Destructive =>
          journal.phase \in {"STORAGE_SWAP_COMPLETE", "DATABASE_SWAP_COMPLETE", "VERIFYING"}
    BY <2>1, <1>1 DEF PhaseAt, Swap, Reverse, Await, Destructive, Preparing, ControlType
  <2>4. journal.phase \in Destructive => kept[s] # Absent \/ AsBefore(s, live[s])'
    BY <2>1, <2>2, <2>3 DEF Reversible, Replaceable, AsBefore
  <2>5. \A r \in Subtree \ {s} : AsBefore(r, live[r])' <=> AsBefore(r, live[r])
    BY <2>1, <1>1 DEF AsBefore
  <2>6. QED
    BY <2>1, <2>4, <2>5, <1>1 DEF Reversible, Replaceable, Swap
<1>4. ASSUME WriteDatabase PROVE Reversible'
  <2>1. /\ \A s \in Subtree : live'[s] = live[s] /\ kept'[s] = kept[s]
        /\ at \notin Swap /\ UNCHANGED <<at, todo, journal, staged, before>>
    BY <1>4, <1>1, WriteDatabaseEffect DEF Blocked
  <2>2. QED
    BY <2>1 DEF Reversible, Replaceable, AsBefore, Swap
<1>5. ASSUME Extract PROVE Reversible'
  <2>1. journal'.phase \in {"STAGING", "NONE"} /\ at' \in {"extracted", "idle"}
    BY <1>5, <1>1, ExtractEffect
  <2>2. QED
    BY <2>1 DEF Reversible, Destructive
<1>6. ASSUME ValidateStaged PROVE Reversible'
  <2>1. journal'.phase \in {"STAGED", "NONE"} /\ at' \in {"staged", "idle"}
    BY <1>6, <1>1, ValidateEffect
  <2>2. QED
    BY <2>1 DEF Reversible, Destructive
<1>7. ASSUME EnterQuiescence PROVE Reversible'
  <2>1. journal'.phase = "PRE_SWAP" /\ at' = "quiescing"
    BY <1>7, <1>1 DEF EnterQuiescence, InPhase, ControlType, Journal
  <2>2. QED
    BY <2>1 DEF Reversible, Destructive
<1>8. ASSUME Disconnect PROVE Reversible'
  <2>1. /\ journal.phase = "PRE_SWAP" /\ at' \in {"quiesced", "idle"}
        /\ journal' = journal \/ journal'.phase = "NONE"
    BY <1>8 DEF Disconnect, CleanUp, Leave, NoJournal, PhaseAt
  <2>2. QED
    BY <2>1 DEF Reversible, Destructive
<1>9. ASSUME Reconnect PROVE Reversible'
  <2>1. /\ at' \in {"verifying", "reverse"} /\ journal'.phase \in {"VERIFYING", "ROLLING_BACK"}
        /\ journal.phase = "DATABASE_SWAP_COMPLETE" /\ at = "swapped"
        /\ UNCHANGED <<live, kept, staged, before>>
    BY <1>9, <1>1 DEF Reconnect, StartRollback, InPhase, ControlType, Journal, PhaseAt
  <2>2. QED
    BY <2>1 DEF Reversible, Replaceable, AsBefore, Destructive
<1>10. ASSUME Commit PROVE Reversible'
  <2>1. journal'.phase = "COMMITTED" /\ at' = "committing"
    BY <1>10, <1>1 DEF Commit, InPhase, ControlType, Journal
  <2>2. QED
    BY <2>1 DEF Reversible, Destructive
<1>11. ASSUME BeginSwap PROVE Reversible'
  <2>1. /\ before'.parts = live /\ live' = live /\ at' = "storage" /\ staged' = staged
        /\ todo' = {s \in Subtree : staged[s] # Absent} /\ \A p \in Part : kept'[p] = Absent
    BY <1>11 DEF BeginSwap, Nothing
  <2>2. journal'.phase = "STORAGE_SWAP_PARTIAL"
    BY <1>11, <1>1 DEF BeginSwap, InPhase, ControlType, Journal
  <2>3. QED
    BY <2>1, <2>2, <1>1 DEF Reversible, Replaceable, AsBefore
<1>12. ASSUME SwapAway PROVE Reversible'
  <2>1. /\ at = "storage" /\ at' = "place" /\ Current' = Current /\ Current \in todo
        /\ Current \in Subtree /\ Current # Db
        /\ kept'[Current] = live[Current] /\ live'[Current] = Absent
        /\ \A p \in Part \ {Current} : kept'[p] = kept[p] /\ live'[p] = live[p]
        /\ UNCHANGED <<journal, staged, todo, before>>
    BY <1>12, <1>1, SwapAwayEffect
  <2>2. live[Current] = before.parts[Current]
    BY <2>1 DEF Reversible
  <2>3. journal.phase = "STORAGE_SWAP_PARTIAL"
    BY <2>1 DEF PhaseAt
  <2>4. live'[Db] = live[Db] /\ kept'[Current] = before.parts[Current] /\ todo \subseteq Subtree
    BY <2>1, <2>2, <1>1 DEF ControlType
  <2>5. at' \in {"storage", "place", "database"} =>
          live'[Db] = before'.parts[Db] \/ before'.parts[Db] = Absent
    BY <2>1, <2>2, <2>3, <2>4, <1>1 DEF Reversible, AsBefore, Replaceable
  <2>6. at' \in {"storage", "place"} =>
          /\ \A s \in todo' : \/ (live'[s] = before'.parts[s] /\ kept'[s] = Absent)
                             \/ (at' = "place" /\ s = Current')
          /\ \A s \in Subtree : s \in todo' \/ Replaceable(s)'
    BY <2>1, <2>2, <2>3, <2>4, <1>1 DEF Reversible, AsBefore, Replaceable
  <2>7. at' = "place" => kept'[Current'] = before'.parts[Current']
    BY <2>1, <2>2, <2>3, <2>4, <1>1 DEF Reversible, AsBefore, Replaceable
  <2>8. journal'.phase \in Destructive =>
          \A s \in Subtree : \/ kept'[s] # Absent \/ AsBefore(s, live[s])'
                            \/ (at' = "place" /\ s = Current')
    BY <2>1, <2>2, <2>3, <2>4, <1>1 DEF Reversible, AsBefore, Replaceable
  <2>9. journal'.phase \in {"STORAGE_SWAP_COMPLETE", "DATABASE_SWAP_COMPLETE", "VERIFYING"} =>
          \A s \in Subtree : Replaceable(s)'
    BY <2>1, <2>2, <2>3, <2>4, <1>1 DEF Reversible, AsBefore, Replaceable
  <2>10. QED
    BY <2>5, <2>6, <2>7, <2>8, <2>9 DEF Reversible
<1>13. ASSUME SwapIn PROVE Reversible'
  <2>1. /\ at = "place" /\ at' = "storage" /\ todo' = todo \ {Current} /\ Current \in todo
        /\ Current \in Subtree /\ Current # Db
        /\ \A p \in Part \ {Current} : live'[p] = live[p]
        /\ UNCHANGED <<journal, kept, staged, before>>
    BY <1>13, <1>1, SwapInEffect
  <2>2. kept[Current] = before.parts[Current]
    BY <2>1 DEF Reversible
  <2>3. journal.phase = "STORAGE_SWAP_PARTIAL"
    BY <2>1 DEF PhaseAt
  <2>4. live'[Db] = live[Db] /\ todo \subseteq Subtree
    BY <2>1, <1>1 DEF ControlType
  <2>5. \A s \in Subtree : Replaceable(s)' <=> Replaceable(s)
    BY <2>1 DEF Replaceable
  <2>6. \A s \in Subtree : s = Current => Replaceable(s)
    BY <2>2 DEF Replaceable
  <2>7. \A s \in Subtree : s \in todo' \/ Replaceable(s)
    BY <2>1, <2>6 DEF Reversible
  <2>8. at' \in {"storage", "place", "database"} =>
          live'[Db] = before'.parts[Db] \/ before'.parts[Db] = Absent
    BY <2>1, <2>2, <2>3, <2>4, <2>5, <2>7, <1>1 DEF Reversible, AsBefore, Replaceable
  <2>9. at' \in {"storage", "place"} =>
          /\ \A s \in todo' : \/ (live'[s] = before'.parts[s] /\ kept'[s] = Absent)
                             \/ (at' = "place" /\ s = Current')
          /\ \A s \in Subtree : s \in todo' \/ Replaceable(s)'
    BY <2>1, <2>2, <2>3, <2>4, <2>5, <2>7, <1>1 DEF Reversible, AsBefore, Replaceable
  <2>10. at' = "place" => kept'[Current'] = before'.parts[Current']
    BY <2>1, <2>2, <2>3, <2>4, <2>5, <2>7, <1>1 DEF Reversible, AsBefore, Replaceable
  <2>11. journal'.phase \in Destructive =>
          \A s \in Subtree : \/ kept'[s] # Absent \/ AsBefore(s, live[s])'
                            \/ (at' = "place" /\ s = Current')
    BY <2>1, <2>2, <2>3, <2>4, <2>5, <2>7, <1>1 DEF Reversible, AsBefore, Replaceable
  <2>12. journal'.phase \in {"STORAGE_SWAP_COMPLETE", "DATABASE_SWAP_COMPLETE", "VERIFYING"} =>
          \A s \in Subtree : Replaceable(s)'
    BY <2>1, <2>2, <2>3, <2>4, <2>5, <2>7, <1>1 DEF Reversible, AsBefore, Replaceable
  <2>13. QED
    BY <2>8, <2>9, <2>10, <2>11, <2>12 DEF Reversible
<1>14. ASSUME StorageSwapped PROVE Reversible'
  <2>1. /\ at = "storage" /\ todo = {} /\ at' = "database"
        /\ UNCHANGED <<live, kept, staged, before>>
    BY <1>14 DEF StorageSwapped
  <2>2. journal.phase = "STORAGE_SWAP_PARTIAL" /\ journal'.phase = "STORAGE_SWAP_COMPLETE"
    BY <1>14, <1>1 DEF StorageSwapped, InPhase, ControlType, Journal, PhaseAt
  <2>3. QED
    BY <2>1, <2>2 DEF Reversible, Replaceable, AsBefore, Destructive
<1>15. ASSUME DatabaseAway PROVE Reversible'
  <2>1. /\ \A s \in Subtree : live'[s] = live[s] /\ kept'[s] = kept[s]
        /\ at = "database" /\ at' = "install" /\ UNCHANGED <<journal, staged, before>>
    BY <1>15, <1>1, DatabaseSwapEffect DEF DatabaseAway
  <2>2. QED
    BY <2>1 DEF Reversible, Replaceable, AsBefore
<1>16. ASSUME DatabaseIn PROVE Reversible'
  <2>1. /\ \A s \in Subtree : live'[s] = live[s] /\ kept'[s] = kept[s]
        /\ at = "install" /\ at' = "installed" /\ UNCHANGED <<journal, staged, before>>
    BY <1>16, <1>1, DatabaseSwapEffect DEF DatabaseIn
  <2>2. QED
    BY <2>1 DEF Reversible, Replaceable, AsBefore
<1>17. ASSUME DatabaseSwapped PROVE Reversible'
  <2>1. /\ at = "installed" /\ at' = "swapped" /\ journal'.phase = "DATABASE_SWAP_COMPLETE"
        /\ journal.phase = "STORAGE_SWAP_COMPLETE" /\ UNCHANGED <<live, kept, staged, before>>
    BY <1>17, <1>1 DEF DatabaseSwapped, InPhase, ControlType, Journal, PhaseAt
  <2>2. QED
    BY <2>1 DEF Reversible, Replaceable, AsBefore, Destructive
<1>18. ASSUME ArchiveCommit PROVE Reversible'
  <2>1. journal'.phase = "NONE" /\ at' = "idle"
    BY <1>18 DEF ArchiveCommit, NoJournal, Leave
  <2>2. QED
    BY <2>1 DEF Reversible, Destructive
<1>19. ASSUME ReverseStorage PROVE Reversible'
  <2>1. /\ at = "reverse" /\ at' = "reverse" /\ Current \in Subtree
        /\ live'[Current] = IF kept[Current] # Absent THEN kept[Current] ELSE live[Current]
        /\ \A p \in Part \ {Current} : live'[p] = live[p] /\ kept'[p] = kept[p]
        /\ UNCHANGED <<journal, staged, before>>
    BY <1>19, <1>1, ReverseStorageEffect
  <2>2. journal.phase = "ROLLING_BACK"
    BY <2>1 DEF PhaseAt
  <2>3. AsBefore(Current, live'[Current])
    BY <2>1, <2>2 DEF Reversible, Copies, AsBefore, Destructive
  <2>4. QED
    BY <2>1, <2>2, <2>3, <1>1 DEF Reversible, AsBefore
<1>20. ASSUME ReverseDatabase PROVE Reversible'
  <2>1. /\ \A s \in Subtree : live'[s] = live[s] /\ kept'[s] = kept[s]
        /\ at = "reverse" /\ at' \in {"idle", "checking"} /\ UNCHANGED <<staged, before>>
        /\ journal' = journal \/ journal'.phase = "FAILED_NEEDS_OPERATOR"
    BY <1>20, <1>1, ReverseDatabaseEffect
  <2>2. journal.phase = "ROLLING_BACK"
    BY <2>1 DEF PhaseAt
  <2>3. QED
    BY <2>1, <2>2 DEF Reversible, AsBefore, Destructive
<1>21. ASSUME CheckRollback PROVE Reversible'
  <2>1. journal'.phase \in {"ROLLED_BACK", "FAILED_NEEDS_OPERATOR"}
        /\ at' \in {"archiving", "idle"}
    BY <1>21, <1>1, CheckEffect
  <2>2. QED
    BY <2>1 DEF Reversible, Destructive
<1>22. ASSUME ArchiveRollback PROVE Reversible'
  <2>1. journal'.phase = "NONE" /\ at' = "idle"
    BY <1>22 DEF ArchiveRollback, NoJournal, Leave
  <2>2. QED
    BY <2>1 DEF Reversible, Destructive
<1>23. ASSUME DiskError PROVE Reversible'
  <2>1. /\ at \in {"storage", "place", "database", "install"} /\ at' = "reverse"
        /\ journal'.phase = "ROLLING_BACK" /\ UNCHANGED <<staged, before>>
        /\ at \in {"storage", "place"} =>
             \A s \in Subtree : kept[s] # Absent => live'[s] = kept[s]
        /\ at \in {"database", "install"} =>
             \A s \in Subtree : kept'[s] = kept[s] /\ live'[s] = live[s]
        /\ \A s \in Subtree : kept[s] = Absent => live'[s] = live[s]
    BY <1>23, <1>1, DiskErrorEffect
  <2>2. journal.phase \in Destructive
    BY <2>1 DEF PhaseAt, Destructive
  <2>3. ASSUME NEW s \in Subtree, kept[s] = Absent PROVE AsBefore(s, live[s])
    BY <2>2, <2>3 DEF Reversible, AsBefore
  <2>4. ASSUME NEW s \in Subtree PROVE kept'[s] # Absent \/ AsBefore(s, live'[s])
    <3>1. CASE kept[s] = Absent
      BY <3>1, <2>1, <2>3
    <3>2. CASE kept[s] # Absent /\ at \in {"storage", "place"}
      BY <3>2, <2>1 DEF Copies, AsBefore
    <3>3. CASE kept[s] # Absent /\ at \in {"database", "install"}
      BY <3>3, <2>1
    <3>4. QED
      BY <2>1, <3>1, <3>2, <3>3
  <2>5. QED
    BY <2>1, <2>4 DEF Reversible, AsBefore
<1>24. ASSUME DeleteRecovery PROVE Reversible'
  <2>1. journal'.phase = "NONE" /\ at' = "idle"
    BY <1>24 DEF DeleteRecovery, NoJournal
  <2>2. QED
    BY <2>1 DEF Reversible, Destructive
<1>25. ASSUME Crash PROVE Reversible'
  <2>1. at' = "idle" /\ UNCHANGED <<live, kept, staged, journal, before>>
    BY <1>25 DEF Crash, Down
  <2>2. \A s \in Subtree : kept[s] # Absent \/ AsBefore(s, live[s])
                          \/ journal.phase \notin Destructive
    BY DEF Reversible, AsBefore
  <2>3. QED
    BY <2>1, <2>2 DEF Reversible, Replaceable, AsBefore
<1>26. ASSUME Boot PROVE Reversible'
  <2>1. /\ at = "idle" /\ at' \in {"idle", "reverse"} /\ UNCHANGED <<kept, staged, before>>
        /\ live' = [live EXCEPT ![Db] = WithTables(live[Db])]
        /\ \/ journal'.phase \notin Destructive
           \/ journal.phase \in Destructive /\ journal'.phase = "ROLLING_BACK"
    BY <1>26, <1>1, BootEffect DEF Alive, Destructive
  <2>2. \A s \in Subtree : live'[s] = live[s]
    BY <2>1, <1>1 DEF DataType
  <2>3. QED
    BY <2>1, <2>2 DEF Reversible, AsBefore, Destructive
<1>27. ASSUME \/ (\E b \in store : UserRestore(b))
             \/ TakeLock
             \/ StartCheckpoint
             \/ EndCheckpoint
             \/ TimeoutRestore
      PROVE  /\ UNCHANGED <<live, kept, staged, journal, before>>
             /\ at \notin {"storage", "place", "database"}
             /\ at' \notin {"storage", "place", "database"}
  BY <1>27 DEF UserRestore, RequestRestore, TakeLock, Leave, StartCheckpoint, EndCheckpoint,
     TimeoutRestore, CutRestore, CancelledJob, Blocked, Swap, Reverse, Await
<1>28. ASSUME \/ Stop
      PROVE  /\ UNCHANGED <<live, kept, staged, journal, before>>
             /\ at \notin {"storage", "place", "database"}
             /\ at' \notin {"storage", "place", "database"}
  BY <1>28 DEF Stop, Down, Leave, Blocked, Swap, Reverse, Await
<1>29. CASE /\ UNCHANGED <<live, kept, staged, journal, before>>
             /\ at \notin {"storage", "place", "database"}
             /\ at' \notin {"storage", "place", "database"}
  BY <1>29 DEF Reversible, Replaceable, AsBefore
<1>30. ASSUME \/ (ScanStorage /\ UNCHANGED recovery)
             \/ (Assemble /\ UNCHANGED recovery)
             \/ (FinishBackup /\ UNCHANGED recovery)
             \/ (FailBackup /\ UNCHANGED recovery)
             \/ (EndUserBackup /\ UNCHANGED recovery)
      PROVE  UNCHANGED <<live, kept, at, todo, journal, staged, before>>
  BY <1>30 DEF ScanStorage, At, Assemble, FinishBackup, Artifacts, FailBackup,
     EndUserBackup, NoJob
<1>31. ASSUME \/ (TimeoutBackup /\ UNCHANGED recovery)
             \/ (\E key \in Key \cup {NoKey} : UserBackup(key) /\ UNCHANGED recovery)
             \/ (\E b \in store : DeleteBackup(b) /\ UNCHANGED recovery)
      PROVE  UNCHANGED <<live, kept, at, todo, journal, staged, before>>
  BY <1>31 DEF TimeoutBackup, CancelledJob, NoJob, UserBackup, StartBackup, DeleteBackup
<1>32. CASE UNCHANGED <<live, kept, at, todo, journal, staged, before>>
  <2>1. Current' = Current
    BY <1>32, CurrentStays
  <2>2. QED
    BY <2>1, <1>32 DEF Reversible, Replaceable, AsBefore
<1>33. QED
  BY <1>2, <1>3, <1>4, <1>5, <1>6, <1>7, <1>8, <1>9, <1>10, <1>11, <1>12, <1>13, <1>14,
     <1>15, <1>16, <1>17, <1>18, <1>19, <1>20, <1>21, <1>22, <1>23, <1>24, <1>25, <1>26,
     <1>27, <1>28, <1>29, <1>30, <1>31, <1>32 DEF RecoveryNext, BackupThread, RecoveryRun,
     BackupLoop, RestoreStep, SwapStep, RollbackStep, restoreVars

\* A rollback goes by sources that name all there is to put back.
LEMMA ReversedStep ==
  ASSUME RecoveryTypeOK, PhaseAt, Alive, Sources, Copies, Reversed, [RecoveryNext]_restoreVars
  PROVE  Reversed'
<1> USE RecoveryAssumption, BackupAssumption
<1>1. /\ DataType /\ ControlType /\ BackupType
      /\ Db \in Part /\ Subtree \subseteq Part /\ Db \notin Subtree
      /\ Doomed => (Doomed' \/ journal'.phase \notin Destructive)
  BY TypeParts, DoomStep, Contents
<1>2. ASSUME CaptureDatabase /\ UNCHANGED recovery PROVE Reversed'
  <2>1. /\ proc = "up" /\ UNCHANGED <<kept, at, todo, journal, proc, before>>
        /\ (live'[Db] = live[Db] \/ live'[Db].s = "empty")
    BY <1>2, <1>1, CaptureEffect DEF Alive, Empty
  <2>2. QED
    BY <2>1 DEF Reversed, Doomed, AsBefore
<1>3. ASSUME NEW s \in Subtree, ~Blocked /\ WriteFile(s) /\ UNCHANGED recovery PROVE Reversed'
  <2>1. /\ live'[Db] = live[Db] /\ UNCHANGED <<kept, at, todo, journal, proc, before>>
    BY <1>3, <1>1, WriteFileEffect
  <2>2. QED
    BY <2>1 DEF Reversed, Doomed, AsBefore
<1>4. ASSUME WriteDatabase PROVE Reversed'
  <2>1. /\ proc = "up" /\ at \notin Reverse /\ UNCHANGED <<at, todo, journal, proc>>
        /\ \A s \in Subtree : kept'[s] = kept[s]
    BY <1>4, <1>1, WriteDatabaseEffect DEF Blocked
  <2>2. QED
    BY <2>1 DEF Reversed, Reverse, Doomed
<1>5. ASSUME Extract PROVE Reversed'
  <2>1. /\ journal'.phase \in {"STAGING", "NONE"} /\ at' \in {"extracted", "idle"}
    BY <1>5, <1>1, ExtractEffect
  <2>2. QED
    BY <2>1 DEF Reversed, Destructive
<1>6. ASSUME ValidateStaged PROVE Reversed'
  <2>1. /\ journal'.phase \in {"STAGED", "NONE"} /\ at' \in {"staged", "idle"}
    BY <1>6, <1>1, ValidateEffect
  <2>2. QED
    BY <2>1 DEF Reversed, Destructive
<1>7. ASSUME EnterQuiescence PROVE Reversed'
  <2>1. /\ journal'.phase \in {"PRE_SWAP"} /\ at' \in {"quiescing"}
    BY <1>7, <1>1 DEF EnterQuiescence, InPhase, ControlType, Journal
  <2>2. QED
    BY <2>1 DEF Reversed, Destructive
<1>8. ASSUME Disconnect PROVE Reversed'
  <2>1. /\ journal.phase = "PRE_SWAP" /\ at' \in {"quiesced", "idle"}
        /\ journal' = journal \/ journal'.phase = "NONE"
    BY <1>8 DEF Disconnect, CleanUp, Leave, NoJournal, PhaseAt
  <2>2. QED
    BY <2>1 DEF Reversed, Destructive
<1>9. ASSUME Reconnect PROVE Reversed'
  <2>1. /\ kept' = kept /\ proc' = proc /\ journal'.sources = journal.sources
        /\ journal.phase = "DATABASE_SWAP_COMPLETE" /\ proc = "up"
        /\ \/ at' = "verifying"
           \/ at' = "reverse" /\ todo' = journal.sources \cap Subtree
    BY <1>9, <1>1 DEF Reconnect, StartRollback, InPhase, ControlType, Journal, PhaseAt,
       Alive, Reverse
  <2>2. \A s \in Subtree : kept[s] # Absent => s \in journal.sources
    BY <2>1 DEF Reversed, Doomed, Destructive
  <2>3. QED
    BY <2>1, <2>2 DEF Reversed
<1>10. ASSUME Commit PROVE Reversed'
  <2>1. /\ journal'.phase \in {"COMMITTED"} /\ at' \in {"committing"}
    BY <1>10, <1>1 DEF Commit, InPhase, ControlType, Journal
  <2>2. QED
    BY <2>1 DEF Reversed, Destructive
<1>11. ASSUME BeginSwap PROVE Reversed'
  <2>1. /\ journal'.phase \in {"STORAGE_SWAP_PARTIAL"} /\ at' \in {"storage"}
    BY <1>11, <1>1 DEF BeginSwap, InPhase, ControlType, Journal
  <2>2. QED
    BY <2>1 DEF Reversed, Destructive
<1>12. ASSUME SwapAway PROVE Reversed'
  <2>1. /\ at \in {"storage", "place"} /\ at' \in {"storage", "place"} /\ journal' = journal
    BY <1>12 DEF SwapAway
  <2>2. journal.phase = "STORAGE_SWAP_PARTIAL"
    BY <2>1 DEF PhaseAt
  <2>3. QED
    BY <2>1, <2>2 DEF Reversed
<1>13. ASSUME SwapIn PROVE Reversed'
  <2>1. /\ at \in {"storage", "place"} /\ at' \in {"storage", "place"} /\ journal' = journal
    BY <1>13 DEF SwapIn
  <2>2. journal.phase = "STORAGE_SWAP_PARTIAL"
    BY <2>1 DEF PhaseAt
  <2>3. QED
    BY <2>1, <2>2 DEF Reversed
<1>14. ASSUME StorageSwapped PROVE Reversed'
  <2>1. /\ at' = "database" /\ kept' = kept
        /\ journal'.sources = {s \in Subtree : kept[s] # Absent}
    BY <1>14, <1>1 DEF StorageSwapped, InPhase, ControlType, Journal
  <2>2. QED
    BY <2>1 DEF Reversed
<1>15. ASSUME DatabaseAway PROVE Reversed'
  <2>1. /\ \A s \in Subtree : kept'[s] = kept[s]
        /\ at' \in {"install", "installed"} /\ UNCHANGED <<journal, proc>>
    BY <1>15, <1>1, DatabaseSwapEffect DEF DatabaseAway
  <2>2. QED
    BY <2>1, <1>1 DEF Reversed, Doomed
<1>16. ASSUME DatabaseIn PROVE Reversed'
  <2>1. /\ \A s \in Subtree : kept'[s] = kept[s]
        /\ at' \in {"install", "installed"} /\ UNCHANGED <<journal, proc>>
    BY <1>16, <1>1, DatabaseSwapEffect DEF DatabaseIn
  <2>2. QED
    BY <2>1, <1>1 DEF Reversed, Doomed
<1>17. ASSUME DatabaseSwapped PROVE Reversed'
  <2>1. /\ at' = "swapped" /\ kept' = kept
        /\ journal'.sources = {p \in Part : kept[p] # Absent}
    BY <1>17, <1>1 DEF DatabaseSwapped, InPhase, ControlType, Journal
  <2>2. QED
    BY <2>1, <1>1 DEF Reversed
<1>18. ASSUME ArchiveCommit PROVE Reversed'
  <2>1. /\ journal'.phase \in {"NONE"} /\ at' \in {"idle"}
    BY <1>18, <1>1 DEF ArchiveCommit, NoJournal, Leave
  <2>2. QED
    BY <2>1 DEF Reversed, Destructive
<1>19. ASSUME ReverseStorage PROVE Reversed'
  <2>1. /\ at = "reverse" /\ Current \in Subtree /\ todo' = todo \ {Current}
        /\ kept'[Current] = Absent
        /\ \A p \in Part \ {Current} : kept'[p] = kept[p]
        /\ UNCHANGED <<journal, proc, at>>
    BY <1>19, <1>1, ReverseStorageEffect
  <2>2. QED
    BY <2>1, <1>1 DEF Reversed, Doomed
<1>20. ASSUME ReverseDatabase PROVE Reversed'
  <2>1. /\ at = "reverse" /\ todo = {} /\ before' = before
        /\ \A s \in Subtree : kept'[s] = kept[s]
        /\ \/ /\ Db \in journal.sources /\ kept[Db] # Absent /\ live'[Db] = kept[Db]
              /\ at' = "checking" /\ UNCHANGED <<journal, proc>>
           \/ journal'.phase = "FAILED_NEEDS_OPERATOR" /\ at' = "idle"
           \/ /\ Db \notin journal.sources /\ live'[Db] = Absent
              /\ at' = "checking" /\ UNCHANGED <<journal, proc>>
    BY <1>20, <1>1, ReverseDatabaseEffect
  <2>2. /\ journal.phase = "ROLLING_BACK"
        /\ kept[Db] # Absent => AsBefore(Db, kept[Db])
        /\ Doomed \/ \A s \in Subtree : kept[s] = Absent
    BY <2>1 DEF PhaseAt, Copies, Reversed
  <2>3. QED
    BY <2>1, <2>2 DEF Reversed, Doomed, AsBefore, Destructive
<1>21. ASSUME CheckRollback PROVE Reversed'
  <2>1. /\ journal'.phase \in {"ROLLED_BACK", "FAILED_NEEDS_OPERATOR"}
        /\ at' \in {"archiving", "idle"}
    BY <1>21, <1>1, CheckEffect
  <2>2. QED
    BY <2>1 DEF Reversed, Destructive
<1>22. ASSUME ArchiveRollback PROVE Reversed'
  <2>1. /\ journal'.phase \in {"NONE"} /\ at' \in {"idle"}
    BY <1>22, <1>1 DEF ArchiveRollback, NoJournal, Leave
  <2>2. QED
    BY <2>1 DEF Reversed, Destructive
<1>23. ASSUME DiskError PROVE Reversed'
  <2>1. /\ at \in {"storage", "place", "database", "install"} /\ at' = "reverse"
        /\ at \in {"storage", "place"} => \A s \in Subtree : kept'[s] = Absent
        /\ at \in {"database", "install"} => \A s \in Subtree : kept'[s] = kept[s]
        /\ journal'.sources = journal.sources /\ todo' = journal.sources \cap Subtree
    BY <1>23, <1>1, DiskErrorEffect
  <2>2. at \in {"database", "install"} =>
          \A s \in Subtree : kept[s] # Absent => s \in journal.sources
    BY <1>1 DEF Reversed, PhaseAt, Alive, Doomed, Destructive, Reverse, ControlType
  <2>3. QED
    BY <2>1, <2>2 DEF Reversed
<1>24. ASSUME DeleteRecovery PROVE Reversed'
  <2>1. /\ journal'.phase \in {"NONE"} /\ at' \in {"idle"}
    BY <1>24, <1>1 DEF DeleteRecovery, NoJournal
  <2>2. QED
    BY <2>1 DEF Reversed, Destructive
<1>25. ASSUME Crash PROVE Reversed'
  <2>1. at' = "idle" /\ UNCHANGED <<kept, journal>>
    BY <1>25 DEF Crash, Down
  <2>2. QED
    BY <2>1, <1>1 DEF Reversed
<1>26. ASSUME Boot PROVE Reversed'
  <2>1. /\ kept' = kept /\ at = "idle"
        /\ \/ journal'.phase \notin Destructive /\ at' = "idle"
           \/ /\ journal.phase \in Destructive /\ at' = "reverse" /\ proc' # "up"
              /\ todo' = journal.sources \cap Subtree
              /\ journal'.sources = journal.sources /\ journal'.phase \in Destructive
    BY <1>26, <1>1, BootEffect DEF Alive, Destructive
  <2>2. journal.phase = "STORAGE_SWAP_PARTIAL" => Db \notin journal.sources
    BY DEF Sources
  <2>3. QED
    BY <2>1, <2>2, <1>1 DEF Reversed, Doomed
<1>27. ASSUME \/ (\E b \in store : UserRestore(b))
             \/ TakeLock
             \/ StartCheckpoint
             \/ EndCheckpoint
             \/ TimeoutRestore
      PROVE  UNCHANGED <<kept, journal>> /\ at' \notin {"reverse", "checking"}
  BY <1>27 DEF UserRestore, RequestRestore, TakeLock, Leave, StartCheckpoint, EndCheckpoint,
     TimeoutRestore, CutRestore, CancelledJob
<1>28. ASSUME \/ Stop
      PROVE  UNCHANGED <<kept, journal>> /\ at' \notin {"reverse", "checking"}
  BY <1>28 DEF Stop, Down, Leave
<1>29. CASE UNCHANGED <<kept, journal>> /\ at' \notin {"reverse", "checking"}
  BY <1>1, <1>29 DEF Reversed
<1>30. ASSUME \/ (ScanStorage /\ UNCHANGED recovery)
             \/ (Assemble /\ UNCHANGED recovery)
             \/ (FinishBackup /\ UNCHANGED recovery)
             \/ (FailBackup /\ UNCHANGED recovery)
             \/ (EndUserBackup /\ UNCHANGED recovery)
      PROVE  UNCHANGED <<live, kept, at, todo, journal, proc, before>>
  BY <1>30 DEF ScanStorage, At, Assemble, FinishBackup, Artifacts, FailBackup,
     EndUserBackup, NoJob
<1>31. ASSUME \/ (TimeoutBackup /\ UNCHANGED recovery)
             \/ (\E key \in Key \cup {NoKey} : UserBackup(key) /\ UNCHANGED recovery)
             \/ (\E b \in store : DeleteBackup(b) /\ UNCHANGED recovery)
      PROVE  UNCHANGED <<live, kept, at, todo, journal, proc, before>>
  BY <1>31 DEF TimeoutBackup, CancelledJob, NoJob, UserBackup, StartBackup, DeleteBackup
<1>32. CASE UNCHANGED <<live, kept, at, todo, journal, proc, before>>
  BY <1>32 DEF Reversed, Doomed, AsBefore
<1>33. QED
  BY <1>2, <1>3, <1>4, <1>5, <1>6, <1>7, <1>8, <1>9, <1>10, <1>11, <1>12, <1>13, <1>14,
     <1>15, <1>16, <1>17, <1>18, <1>19, <1>20, <1>21, <1>22, <1>23, <1>24, <1>25, <1>26,
     <1>27, <1>28, <1>29, <1>30, <1>31, <1>32 DEF RecoveryNext, BackupThread, RecoveryRun,
     BackupLoop, RestoreStep, SwapStep, RollbackStep, restoreVars

\* What is swapped in stays, or is written to.
LEMMA SwappedInStep ==
  ASSUME RecoveryTypeOK, Alive, HasDatabase, Todo, Copies, SwappedIn,
         [RecoveryNext]_restoreVars
  PROVE  SwappedIn'
<1> USE RecoveryAssumption, BackupAssumption
<1>1. /\ DataType /\ ControlType /\ BackupType
      /\ Db \in Part /\ Subtree \subseteq Part /\ Db \notin Subtree
      /\ version \in Nat /\ before.version \in Nat /\ Absent.v = 0
  BY TypeParts, Contents DEF DataType, Absent
<1>2. ASSUME CaptureDatabase /\ UNCHANGED recovery PROVE SwappedIn'
  <2>1. /\ \A s \in Subtree : live'[s] = live[s]
        /\ (live'[Db] = live[Db] \/ live[Db] = Absent)
        /\ UNCHANGED <<at, todo, staged, before>>
    BY <1>2, <1>1, CaptureEffect
  <2>2. at \in {"installed", "swapped", "verifying"} => staged[Db] # Absent
    BY DEF HasDatabase, Preparing, Reverse
  <2>3. QED
    BY <2>1, <2>2, <1>1 DEF SwappedIn, Restored
<1>3. ASSUME NEW s \in Subtree, ~Blocked /\ WriteFile(s) /\ UNCHANGED recovery PROVE SwappedIn'
  <2>1. /\ live'[s].v = version' /\ version' = version + 1
        /\ \A p \in Part \ {s} : live'[p] = live[p]
        /\ UNCHANGED <<at, todo, staged, before>>
    BY <1>3, <1>1, WriteFileEffect
  <2>2. live'[s].v > before.version
    BY <2>1, <1>1 DEF Copies
  <2>3. QED
    BY <2>1, <2>2, <1>1 DEF SwappedIn, Restored
<1>4. ASSUME WriteDatabase PROVE SwappedIn'
  <2>1. /\ version' = version + 1
        /\ (live'[Db] = live[Db] \/ live'[Db].v = version')
        /\ \A s \in Subtree : live'[s] = live[s]
        /\ UNCHANGED <<at, todo, staged, before>>
    BY <1>4, <1>1, WriteDatabaseEffect
  <2>2. version' > before.version
    BY <2>1, <1>1 DEF Copies
  <2>3. QED
    BY <2>1, <2>2, <1>1 DEF SwappedIn, Restored
<1>5. ASSUME Extract PROVE SwappedIn'
  <2>1. at' \in {"extracted", "idle"}
    BY <1>5, <1>1, ExtractEffect
  <2>2. QED
    BY <2>1 DEF SwappedIn, Swapped
<1>6. ASSUME ValidateStaged PROVE SwappedIn'
  <2>1. at' \in {"staged", "idle"}
    BY <1>6, <1>1, ValidateEffect
  <2>2. QED
    BY <2>1 DEF SwappedIn, Swapped
<1>7. ASSUME Reconnect PROVE SwappedIn'
  <2>1. \/ at = "swapped" /\ at' = "verifying" /\ UNCHANGED <<live, todo, staged, before>>
        \/ at' = "reverse"
    BY <1>7 DEF Reconnect, StartRollback
  <2>2. QED
    BY <2>1 DEF SwappedIn, Restored, Swapped
<1>8. ASSUME BeginSwap PROVE SwappedIn'
  <2>1. /\ at' = "storage" /\ staged' = staged /\ todo' = {s \in Subtree : staged[s] # Absent}
    BY <1>8 DEF BeginSwap
  <2>2. QED
    BY <2>1 DEF SwappedIn
<1>9. ASSUME SwapAway PROVE SwappedIn'
  <2>1. /\ at = "storage" /\ at' = "place" /\ Current \in todo
        /\ \A p \in Part \ {Current} : live'[p] = live[p]
        /\ UNCHANGED <<todo, staged, before>>
    BY <1>9, <1>1, SwapAwayEffect
  <2>2. QED
    BY <2>1, <1>1 DEF SwappedIn, Restored
<1>10. ASSUME SwapIn PROVE SwappedIn'
  <2>1. /\ at = "place" /\ at' = "storage" /\ todo' = todo \ {Current}
        /\ live'[Current] = staged[Current]
        /\ \A p \in Part \ {Current} : live'[p] = live[p]
        /\ UNCHANGED <<staged, before>>
    BY <1>10, <1>1, SwapInEffect
  <2>2. QED
    BY <2>1, <1>1 DEF SwappedIn, Restored
<1>11. ASSUME StorageSwapped PROVE SwappedIn'
  <2>1. at = "storage" /\ at' = "database"
        /\ UNCHANGED <<live, todo, staged, before>>
    BY <1>11 DEF StorageSwapped
  <2>2. QED
    BY <2>1 DEF SwappedIn, Restored, Swapped
<1>12. ASSUME DatabaseAway PROVE SwappedIn'
  <2>1. /\ at = "database" /\ at' = "install" /\ \A s \in Subtree : live'[s] = live[s]
        /\ UNCHANGED <<todo, staged, before>>
    BY <1>12, <1>1, DatabaseSwapEffect DEF DatabaseAway
  <2>2. QED
    BY <2>1 DEF SwappedIn, Restored, Swapped
<1>13. ASSUME DatabaseIn PROVE SwappedIn'
  <2>1. /\ at = "install" /\ at' = "installed" /\ \A s \in Subtree : live'[s] = live[s]
        /\ live'[Db] = staged[Db] /\ UNCHANGED <<todo, staged, before>>
    BY <1>13, <1>1, DatabaseSwapEffect DEF DatabaseIn
  <2>2. QED
    BY <2>1 DEF SwappedIn, Restored, Swapped
<1>14. ASSUME DatabaseSwapped PROVE SwappedIn'
  <2>1. at = "installed" /\ at' = "swapped" /\ UNCHANGED <<live, todo, staged, before>>
    BY <1>14 DEF DatabaseSwapped
  <2>2. QED
    BY <2>1 DEF SwappedIn, Restored, Swapped
<1>15. ASSUME ReverseStorage PROVE SwappedIn'
  <2>1. at' \in {"reverse"}
    BY <1>15, <1>1 DEF ReverseStorage
  <2>2. QED
    BY <2>1 DEF SwappedIn, Swapped
<1>16. ASSUME ReverseDatabase PROVE SwappedIn'
  <2>1. at' \in {"idle", "checking"}
    BY <1>16, <1>1, ReverseDatabaseEffect
  <2>2. QED
    BY <2>1 DEF SwappedIn, Swapped
<1>17. ASSUME DiskError PROVE SwappedIn'
  <2>1. at' \in {"reverse"}
    BY <1>17, <1>1, DiskErrorEffect
  <2>2. QED
    BY <2>1 DEF SwappedIn, Swapped
<1>18. ASSUME Boot PROVE SwappedIn'
  <2>1. at' \in {"idle", "reverse"}
    BY <1>18, <1>1, BootEffect DEF Alive
  <2>2. QED
    BY <2>1 DEF SwappedIn, Swapped
<1>19. ASSUME \/ (\E b \in store : UserRestore(b))
             \/ TakeLock
             \/ StartCheckpoint
             \/ EndCheckpoint
             \/ EnterQuiescence
      PROVE  at' \notin {"storage", "place"} \cup Swapped
  BY <1>19 DEF UserRestore, RequestRestore, TakeLock, Leave, StartCheckpoint, EndCheckpoint,
     EnterQuiescence, Swapped, CleanUp
<1>20. ASSUME \/ Disconnect
             \/ Commit
             \/ ArchiveCommit
             \/ CheckRollback
             \/ ArchiveRollback
      PROVE  at' \notin {"storage", "place"} \cup Swapped
  BY <1>20 DEF Disconnect, CleanUp, Leave, Commit, ArchiveCommit, CheckRollback, Halt,
     ArchiveRollback, Swapped
<1>21. ASSUME \/ TimeoutRestore
             \/ Crash
             \/ Stop
      PROVE  at' \notin {"storage", "place"} \cup Swapped
  BY <1>21 DEF TimeoutRestore, CutRestore, Leave, CancelledJob, Crash, Down, Stop, Swapped,
     CleanUp
<1>22. CASE at' \notin {"storage", "place"} \cup Swapped
  BY <1>22 DEF SwappedIn, Swapped
<1>23. ASSUME \/ (ScanStorage /\ UNCHANGED recovery)
             \/ (Assemble /\ UNCHANGED recovery)
             \/ (FinishBackup /\ UNCHANGED recovery)
             \/ (FailBackup /\ UNCHANGED recovery)
             \/ (EndUserBackup /\ UNCHANGED recovery)
      PROVE  UNCHANGED <<live, at, todo, staged, before>>
  BY <1>23 DEF ScanStorage, At, Assemble, FinishBackup, Artifacts, FailBackup,
     EndUserBackup, NoJob
<1>24. ASSUME \/ (TimeoutBackup /\ UNCHANGED recovery)
             \/ (\E key \in Key \cup {NoKey} : UserBackup(key) /\ UNCHANGED recovery)
             \/ (\E b \in store : DeleteBackup(b) /\ UNCHANGED recovery)
             \/ DeleteRecovery
      PROVE  UNCHANGED <<live, at, todo, staged, before>>
  BY <1>24 DEF TimeoutBackup, CancelledJob, NoJob, UserBackup, StartBackup, DeleteBackup,
     DeleteRecovery
<1>25. CASE UNCHANGED <<live, at, todo, staged, before>>
  BY <1>25 DEF SwappedIn, Restored
<1>26. QED
  BY <1>2, <1>3, <1>4, <1>5, <1>6, <1>7, <1>8, <1>9, <1>10, <1>11, <1>12, <1>13, <1>14,
     <1>15, <1>16, <1>17, <1>18, <1>19, <1>20, <1>21, <1>22, <1>23, <1>24, <1>25 DEF
     RecoveryNext, BackupThread, RecoveryRun, BackupLoop, RestoreStep, SwapStep,
     RollbackStep, restoreVars

-----------------------------------------------------------------------------
(* The theorems *)

RecoveryInv ==
  /\ RecoveryTypeOK /\ PhaseAt /\ Alive /\ Ids /\ HasDatabase /\ Todo /\ Sources /\ Halted
  /\ Genuine /\ Present /\ Copies /\ Reversible /\ Reversed /\ SwappedIn

\* The invariant holds at the start, and every step preserves it.
LEMMA InitialInv == RecoveryInit => RecoveryInv
<1> SUFFICES ASSUME RecoveryInit PROVE RecoveryInv
  OBVIOUS
<1> USE RecoveryAssumption, BackupAssumption
<1>1. Db \in Part /\ Subtree \subseteq Part /\ Db \notin Subtree /\ Absent = [v |-> 0, s |-> "none"]
      /\ Nothing \in [Part -> Content] /\ Absent \in Content
  BY Contents DEF Absent
<1>2. PICK d \in Deployed :
        live = [p \in Part |-> [v |-> 1, s |-> IF p = Db THEN d ELSE "file"]]
  BY DEF RecoveryInit
<1>3. live \in [Part -> Content] /\ \A p \in Part : live[p] # Absent /\ live[p].s # "unversioned"
  BY <1>1, <1>2 DEF Content, Schema
<1> DEFINE Parts == [p \in Part |-> [v |-> 0, s |-> IF p = Db THEN "old" ELSE "file"]]
<1>4. Parts \in [Part -> Content] /\ Parts[Db] # Absent /\ Parts[Db].s # "unversioned"
  BY <1>1 DEF Content, Schema
<1> HIDE DEF Parts
<1>5. store = {[id |-> 1, key |-> NoKey, sidecar |-> TRUE, whole |-> TRUE, parts |-> Parts]}
  BY DEF RecoveryInit, Parts
<1>6. store \subseteq Artifact /\ \A b \in store : b.id = 1 /\ b.parts = Parts
  BY <1>4, <1>5 DEF Artifact
<1>7. /\ job.at = "idle" /\ job.seen = Nothing /\ made = 1 /\ version = 1 /\ proc = "up"
      /\ journal.phase = "NONE" /\ journal.sources = {} /\ at = "idle" /\ todo = {}
      /\ kept = Nothing /\ staged = Nothing /\ before.parts = Nothing /\ before.version = 0
      /\ Nothing[Db] = Absent /\ \A s \in Subtree : Nothing[s] = Absent
  BY <1>1 DEF RecoveryInit, NoJob, NoJournal, Nothing
<1>8. DataType
  BY <1>1, <1>3, <1>7 DEF DataType
<1>9. ControlType
  BY <1>7 DEF RecoveryInit, ControlType, Journal, NoJournal, Phase
<1>10. BackupType
  <2>1. job \in Job /\ made \in Nat
    BY <1>1 DEF RecoveryInit, NoJob, Job, Stage
  <2>2. \A b, c \in store : b.id = c.id => b = c
    BY <1>5
  <2>3. QED
    BY <1>6, <2>1, <2>2 DEF BackupType
<1>11. RecoveryTypeOK
  BY <1>8, <1>9, <1>10, TypeParts
<1>12. PhaseAt /\ Alive /\ Todo /\ Sources /\ Halted
  BY <1>7 DEF PhaseAt, Alive, Todo, Sources, Halted, Swapped, PreMutation
<1>13. Ids /\ HasDatabase
  BY <1>4, <1>6, <1>7 DEF Ids, HasDatabase, Preparing
<1>14. Genuine /\ Present
  BY <1>1, <1>3, <1>4, <1>6, <1>7 DEF Genuine, Present
<1>15. Copies /\ Reversible /\ Reversed /\ SwappedIn
  BY <1>1, <1>7 DEF Copies, Reversible, Reversed, SwappedIn, Destructive, Swapped
<1>16. QED
  BY <1>11, <1>12, <1>13, <1>14, <1>15 DEF RecoveryInv

LEMMA InvStep ==
  ASSUME RecoveryInv, [RecoveryNext]_restoreVars
  PROVE  RecoveryInv'
<1> USE DEF RecoveryInv
<1>1. DataType /\ ControlType /\ BackupType
  BY TypeParts
<1>2. DataType' /\ ControlType' /\ BackupType'
  BY <1>1, DataTypeStep, ControlTypeStep, BackupTypeStep
<1>3. RecoveryTypeOK'
  <2>1. (DataType /\ ControlType /\ BackupType)' => RecoveryTypeOK'
    BY RecoveryAssumption, BackupAssumption DEF RecoveryTypeOK, BackupTypeOK, DataType,
       ControlType,
       BackupType, Job, Journal
  <2>2. QED
    BY <1>2, <2>1
<1>4. PhaseAt' /\ Alive' /\ Ids' /\ HasDatabase' /\ Todo' /\ Sources' /\ Halted'
  BY PhaseAtStep, AliveStep, IdsStep, HasDatabaseStep, TodoStep, SourcesStep, HaltedStep
<1>5. Genuine' /\ Present'
  BY GenuineStep, PresentStep
<1>6. Copies' /\ Reversible' /\ Reversed' /\ SwappedIn'
  BY CopiesStep, ReversibleStep, ReversedStep, SwappedInStep
<1>7. QED
  BY <1>3, <1>4, <1>5, <1>6

\* Every reachable state satisfies the invariant.
THEOREM RecoveryInvariant == RecoverySpec => []RecoveryInv
<1>1. RecoveryInv /\ [RecoveryNext]_restoreVars => RecoveryInv'
  BY InvStep
<1>2. QED
  BY InitialInv, <1>1, PTL DEF RecoverySpec

\* The variables of the data, its backups and the recovery have their types;
\* in particular no two artifacts share an id.
THEOREM RecoveryTypeCorrect == RecoverySpec => []RecoveryTypeOK
<1>1. RecoveryInv => RecoveryTypeOK
  BY DEF RecoveryInv
<1>2. QED
  BY <1>1, RecoveryInvariant, PTL

\* A process that serves calls has all its data, or its recovery has halted and
\* holds the lock, or an operator has dropped a halted recovery.
THEOREM ServesDataAlways == RecoverySpec => []ServesData
<1>1. ASSUME RecoveryInv PROVE ServesData
  <2>1. SUFFICES ASSUME proc = "up", at = "idle", ~forced,
                        ~(journal.phase = "FAILED_NEEDS_OPERATOR" /\ lock)
                 PROVE  live[Db].s # "unversioned" /\ \A p \in Part : live[p] # Absent
    BY DEF ServesData
  <2>2. Trusted /\ ~Doomed
    BY <1>1, <2>1 DEF RecoveryInv, Halted, Trusted, Doomed
  <2>3. live[Db].s # "unversioned"
    BY <1>1, <2>2 DEF RecoveryInv, Genuine
  <2>4. live[Db] # Absent /\ \A s \in Subtree : live[s] # Absent
    BY <1>1, <2>1, <2>2 DEF RecoveryInv, Present
  <2>5. QED
    BY <2>3, <2>4 DEF Part
<1>2. QED
  BY <1>1, RecoveryInvariant, PTL

\* The outcomes are recorded in one place each.
LEMMA OnlyCheckRollsBack ==
  ASSUME RecoveryTypeOK, [RecoveryNext]_restoreVars
  PROVE  journal'.phase = "ROLLED_BACK" /\ journal.phase # "ROLLED_BACK" => CheckRollback
<1> USE RecoveryAssumption, BackupAssumption
<1>1. DataType /\ ControlType
  BY TypeParts
<1>2. ASSUME Extract
      PROVE  journal'.phase = "ROLLED_BACK" /\ journal.phase # "ROLLED_BACK" => CheckRollback
  <2>1. journal'.phase \in {"STAGING", "NONE"}
    BY <1>2, ExtractEffect
  <2>2. QED
    BY <2>1
<1>3. ASSUME ValidateStaged
      PROVE  journal'.phase = "ROLLED_BACK" /\ journal.phase # "ROLLED_BACK" => CheckRollback
  <2>1. journal'.phase \in {"STAGED", "NONE"}
    BY <1>3, <1>1, ValidateEffect
  <2>2. QED
    BY <2>1
<1>4. ASSUME EnterQuiescence
      PROVE  journal'.phase = "ROLLED_BACK" /\ journal.phase # "ROLLED_BACK" => CheckRollback
  <2>1. journal'.phase = "PRE_SWAP"
    BY <1>4, <1>1 DEF EnterQuiescence, InPhase, ControlType, Journal
  <2>2. QED
    BY <2>1
<1>5. ASSUME Disconnect
      PROVE  journal'.phase = "ROLLED_BACK" /\ journal.phase # "ROLLED_BACK" => CheckRollback
  <2>1. journal' = journal \/ journal'.phase = "NONE"
    BY <1>5 DEF Disconnect, CleanUp, NoJournal
  <2>2. QED
    BY <2>1
<1>6. ASSUME Reconnect
      PROVE  journal'.phase = "ROLLED_BACK" /\ journal.phase # "ROLLED_BACK" => CheckRollback
  <2>1. journal'.phase \in {"VERIFYING", "ROLLING_BACK"}
    BY <1>6, <1>1 DEF Reconnect, StartRollback, InPhase, ControlType, Journal
  <2>2. QED
    BY <2>1
<1>7. ASSUME Commit
      PROVE  journal'.phase = "ROLLED_BACK" /\ journal.phase # "ROLLED_BACK" => CheckRollback
  <2>1. journal'.phase = "COMMITTED"
    BY <1>7, <1>1 DEF Commit, InPhase, ControlType, Journal
  <2>2. QED
    BY <2>1
<1>8. ASSUME BeginSwap
      PROVE  journal'.phase = "ROLLED_BACK" /\ journal.phase # "ROLLED_BACK" => CheckRollback
  <2>1. journal'.phase = "STORAGE_SWAP_PARTIAL"
    BY <1>8, <1>1 DEF BeginSwap, InPhase, ControlType, Journal
  <2>2. QED
    BY <2>1
<1>9. ASSUME StorageSwapped
      PROVE  journal'.phase = "ROLLED_BACK" /\ journal.phase # "ROLLED_BACK" => CheckRollback
  <2>1. journal'.phase = "STORAGE_SWAP_COMPLETE"
    BY <1>9, <1>1 DEF StorageSwapped, InPhase, ControlType, Journal
  <2>2. QED
    BY <2>1
<1>10. ASSUME DatabaseSwapped
       PROVE  journal'.phase = "ROLLED_BACK" /\ journal.phase # "ROLLED_BACK" => CheckRollback
  <2>1. journal'.phase = "DATABASE_SWAP_COMPLETE"
    BY <1>10, <1>1 DEF DatabaseSwapped, InPhase, ControlType, Journal
  <2>2. QED
    BY <2>1
<1>11. ASSUME ArchiveCommit
       PROVE  journal'.phase = "ROLLED_BACK" /\ journal.phase # "ROLLED_BACK" => CheckRollback
  <2>1. journal'.phase = "NONE"
    BY <1>11 DEF ArchiveCommit, NoJournal
  <2>2. QED
    BY <2>1
<1>12. ASSUME ReverseDatabase
       PROVE  journal'.phase = "ROLLED_BACK" /\ journal.phase # "ROLLED_BACK" => CheckRollback
  <2>1. journal' = journal \/ journal'.phase = "FAILED_NEEDS_OPERATOR"
    BY <1>12, <1>1, ReverseDatabaseEffect
  <2>2. QED
    BY <2>1
<1>13. ASSUME CheckRollback
       PROVE  journal'.phase = "ROLLED_BACK" /\ journal.phase # "ROLLED_BACK" => CheckRollback
  BY <1>13
<1>14. ASSUME ArchiveRollback
       PROVE  journal'.phase = "ROLLED_BACK" /\ journal.phase # "ROLLED_BACK" => CheckRollback
  <2>1. journal'.phase = "NONE"
    BY <1>14 DEF ArchiveRollback, NoJournal
  <2>2. QED
    BY <2>1
<1>15. ASSUME DiskError
       PROVE  journal'.phase = "ROLLED_BACK" /\ journal.phase # "ROLLED_BACK" => CheckRollback
  <2>1. journal'.phase = "ROLLING_BACK"
    BY <1>15, <1>1, DiskErrorEffect
  <2>2. QED
    BY <2>1
<1>16. ASSUME DeleteRecovery
       PROVE  journal'.phase = "ROLLED_BACK" /\ journal.phase # "ROLLED_BACK" => CheckRollback
  <2>1. journal'.phase = "NONE"
    BY <1>16 DEF DeleteRecovery, NoJournal
  <2>2. QED
    BY <2>1
<1>17. ASSUME Boot
       PROVE  journal'.phase = "ROLLED_BACK" /\ journal.phase # "ROLLED_BACK" => CheckRollback
  <2>1. journal' = journal \/ journal'.phase \in {"NONE", "ROLLING_BACK"}
    BY <1>17, <1>1, BootEffect
  <2>2. QED
    BY <2>1
<1>18. ASSUME \/ (CaptureDatabase /\ UNCHANGED recovery)
             \/ (ScanStorage /\ UNCHANGED recovery)
             \/ (Assemble /\ UNCHANGED recovery)
             \/ (FinishBackup /\ UNCHANGED recovery)
             \/ (FailBackup /\ UNCHANGED recovery)
             \/ (EndUserBackup /\ UNCHANGED recovery)
             \/ (TimeoutBackup /\ UNCHANGED recovery)
             \/ (\E s \in Subtree : WriteFile(s) /\ UNCHANGED recovery)
             \/ (\E key \in Key \cup {NoKey} : UserBackup(key) /\ UNCHANGED recovery)
      PROVE  UNCHANGED journal
  BY <1>18 DEF CaptureDatabase, At, ScanStorage, Assemble, FinishBackup, Artifacts,
     FailBackup, EndUserBackup, NoJob, TimeoutBackup, CancelledJob, WriteFile, UserBackup,
     StartBackup
<1>19. ASSUME \/ (\E b \in store : DeleteBackup(b) /\ UNCHANGED recovery)
             \/ WriteDatabase
             \/ (\E b \in store : UserRestore(b))
             \/ TakeLock
             \/ StartCheckpoint
             \/ EndCheckpoint
             \/ SwapAway
             \/ SwapIn
             \/ DatabaseAway
      PROVE  UNCHANGED journal
  BY <1>19 DEF DeleteBackup, WriteDatabase, UserRestore, RequestRestore, TakeLock, Leave,
     StartCheckpoint, StartBackup, NoJob, EndCheckpoint, SwapAway, SwapIn, DatabaseAway,
     Renamed
<1>20. ASSUME \/ DatabaseIn
             \/ ReverseStorage
             \/ TimeoutRestore
             \/ Crash
             \/ Stop
      PROVE  UNCHANGED journal
  BY <1>20 DEF DatabaseIn, ReverseStorage, TimeoutRestore, CutRestore, Leave, CancelledJob,
     NoJob, Crash, Down, Stop
<1>21. CASE UNCHANGED journal
  BY <1>21
<1>22. QED
  BY <1>2, <1>3, <1>4, <1>5, <1>6, <1>7, <1>8, <1>9, <1>10, <1>11, <1>12, <1>13, <1>14,
     <1>15, <1>16, <1>17, <1>18, <1>19, <1>20, <1>21 DEF RecoveryNext, BackupThread,
     RecoveryRun, BackupLoop, RestoreStep, SwapStep, RollbackStep, restoreVars

LEMMA OnlyCommitCommits ==
  ASSUME RecoveryTypeOK, [RecoveryNext]_restoreVars
  PROVE  journal'.phase = "COMMITTED" /\ journal.phase # "COMMITTED" => Commit
<1> USE RecoveryAssumption, BackupAssumption
<1>1. DataType /\ ControlType
  BY TypeParts
<1>2. ASSUME Extract
      PROVE  journal'.phase = "COMMITTED" /\ journal.phase # "COMMITTED" => Commit
  <2>1. journal'.phase \in {"STAGING", "NONE"}
    BY <1>2, ExtractEffect
  <2>2. QED
    BY <2>1
<1>3. ASSUME ValidateStaged
      PROVE  journal'.phase = "COMMITTED" /\ journal.phase # "COMMITTED" => Commit
  <2>1. journal'.phase \in {"STAGED", "NONE"}
    BY <1>3, <1>1, ValidateEffect
  <2>2. QED
    BY <2>1
<1>4. ASSUME EnterQuiescence
      PROVE  journal'.phase = "COMMITTED" /\ journal.phase # "COMMITTED" => Commit
  <2>1. journal'.phase = "PRE_SWAP"
    BY <1>4, <1>1 DEF EnterQuiescence, InPhase, ControlType, Journal
  <2>2. QED
    BY <2>1
<1>5. ASSUME Disconnect
      PROVE  journal'.phase = "COMMITTED" /\ journal.phase # "COMMITTED" => Commit
  <2>1. journal' = journal \/ journal'.phase = "NONE"
    BY <1>5 DEF Disconnect, CleanUp, NoJournal
  <2>2. QED
    BY <2>1
<1>6. ASSUME Reconnect
      PROVE  journal'.phase = "COMMITTED" /\ journal.phase # "COMMITTED" => Commit
  <2>1. journal'.phase \in {"VERIFYING", "ROLLING_BACK"}
    BY <1>6, <1>1 DEF Reconnect, StartRollback, InPhase, ControlType, Journal
  <2>2. QED
    BY <2>1
<1>7. ASSUME Commit PROVE journal'.phase = "COMMITTED" /\ journal.phase # "COMMITTED" => Commit
  BY <1>7
<1>8. ASSUME BeginSwap
      PROVE  journal'.phase = "COMMITTED" /\ journal.phase # "COMMITTED" => Commit
  <2>1. journal'.phase = "STORAGE_SWAP_PARTIAL"
    BY <1>8, <1>1 DEF BeginSwap, InPhase, ControlType, Journal
  <2>2. QED
    BY <2>1
<1>9. ASSUME StorageSwapped
      PROVE  journal'.phase = "COMMITTED" /\ journal.phase # "COMMITTED" => Commit
  <2>1. journal'.phase = "STORAGE_SWAP_COMPLETE"
    BY <1>9, <1>1 DEF StorageSwapped, InPhase, ControlType, Journal
  <2>2. QED
    BY <2>1
<1>10. ASSUME DatabaseSwapped
       PROVE  journal'.phase = "COMMITTED" /\ journal.phase # "COMMITTED" => Commit
  <2>1. journal'.phase = "DATABASE_SWAP_COMPLETE"
    BY <1>10, <1>1 DEF DatabaseSwapped, InPhase, ControlType, Journal
  <2>2. QED
    BY <2>1
<1>11. ASSUME ArchiveCommit
       PROVE  journal'.phase = "COMMITTED" /\ journal.phase # "COMMITTED" => Commit
  <2>1. journal'.phase = "NONE"
    BY <1>11 DEF ArchiveCommit, NoJournal
  <2>2. QED
    BY <2>1
<1>12. ASSUME ReverseDatabase
       PROVE  journal'.phase = "COMMITTED" /\ journal.phase # "COMMITTED" => Commit
  <2>1. journal' = journal \/ journal'.phase = "FAILED_NEEDS_OPERATOR"
    BY <1>12, <1>1, ReverseDatabaseEffect
  <2>2. QED
    BY <2>1
<1>13. ASSUME CheckRollback
       PROVE  journal'.phase = "COMMITTED" /\ journal.phase # "COMMITTED" => Commit
  <2>1. journal'.phase \in {"ROLLED_BACK", "FAILED_NEEDS_OPERATOR"}
    BY <1>13, <1>1, CheckEffect
  <2>2. QED
    BY <2>1
<1>14. ASSUME ArchiveRollback
       PROVE  journal'.phase = "COMMITTED" /\ journal.phase # "COMMITTED" => Commit
  <2>1. journal'.phase = "NONE"
    BY <1>14 DEF ArchiveRollback, NoJournal
  <2>2. QED
    BY <2>1
<1>15. ASSUME DiskError
       PROVE  journal'.phase = "COMMITTED" /\ journal.phase # "COMMITTED" => Commit
  <2>1. journal'.phase = "ROLLING_BACK"
    BY <1>15, <1>1, DiskErrorEffect
  <2>2. QED
    BY <2>1
<1>16. ASSUME DeleteRecovery
       PROVE  journal'.phase = "COMMITTED" /\ journal.phase # "COMMITTED" => Commit
  <2>1. journal'.phase = "NONE"
    BY <1>16 DEF DeleteRecovery, NoJournal
  <2>2. QED
    BY <2>1
<1>17. ASSUME Boot PROVE journal'.phase = "COMMITTED" /\ journal.phase # "COMMITTED" => Commit
  <2>1. journal' = journal \/ journal'.phase \in {"NONE", "ROLLING_BACK"}
    BY <1>17, <1>1, BootEffect
  <2>2. QED
    BY <2>1
<1>18. ASSUME \/ (CaptureDatabase /\ UNCHANGED recovery)
             \/ (ScanStorage /\ UNCHANGED recovery)
             \/ (Assemble /\ UNCHANGED recovery)
             \/ (FinishBackup /\ UNCHANGED recovery)
             \/ (FailBackup /\ UNCHANGED recovery)
             \/ (EndUserBackup /\ UNCHANGED recovery)
             \/ (TimeoutBackup /\ UNCHANGED recovery)
             \/ (\E s \in Subtree : WriteFile(s) /\ UNCHANGED recovery)
             \/ (\E key \in Key \cup {NoKey} : UserBackup(key) /\ UNCHANGED recovery)
      PROVE  UNCHANGED journal
  BY <1>18 DEF CaptureDatabase, At, ScanStorage, Assemble, FinishBackup, Artifacts,
     FailBackup, EndUserBackup, NoJob, TimeoutBackup, CancelledJob, WriteFile, UserBackup,
     StartBackup
<1>19. ASSUME \/ (\E b \in store : DeleteBackup(b) /\ UNCHANGED recovery)
             \/ WriteDatabase
             \/ (\E b \in store : UserRestore(b))
             \/ TakeLock
             \/ StartCheckpoint
             \/ EndCheckpoint
             \/ SwapAway
             \/ SwapIn
             \/ DatabaseAway
      PROVE  UNCHANGED journal
  BY <1>19 DEF DeleteBackup, WriteDatabase, UserRestore, RequestRestore, TakeLock, Leave,
     StartCheckpoint, StartBackup, NoJob, EndCheckpoint, SwapAway, SwapIn, DatabaseAway,
     Renamed
<1>20. ASSUME \/ DatabaseIn
             \/ ReverseStorage
             \/ TimeoutRestore
             \/ Crash
             \/ Stop
      PROVE  UNCHANGED journal
  BY <1>20 DEF DatabaseIn, ReverseStorage, TimeoutRestore, CutRestore, Leave, CancelledJob,
     NoJob, Crash, Down, Stop
<1>21. CASE UNCHANGED journal
  BY <1>21
<1>22. QED
  BY <1>2, <1>3, <1>4, <1>5, <1>6, <1>7, <1>8, <1>9, <1>10, <1>11, <1>12, <1>13, <1>14,
     <1>15, <1>16, <1>17, <1>18, <1>19, <1>20, <1>21 DEF RecoveryNext, BackupThread,
     RecoveryRun, BackupLoop, RestoreStep, SwapStep, RollbackStep, restoreVars

\* ROLLED_BACK is recorded only over data that is what it was before the swap, and
\* COMMITTED only over the backup's: what the journal says is on the disk.
THEOREM OutcomeIsWholeAlways == RecoverySpec => OutcomeIsWhole
<1> USE RecoveryAssumption, BackupAssumption
<1>1. ASSUME RecoveryInv, [RecoveryNext]_restoreVars,
             journal'.phase = "ROLLED_BACK", journal.phase # "ROLLED_BACK"
      PROVE  \A p \in Part : AsBefore(p, live'[p]) \/ live'[p].s = "empty"
  <2>1. CheckRollback /\ ControlType
    BY <1>1, OnlyCheckRollsBack, TypeParts DEF RecoveryInv
  <2>2. at = "checking" /\ live[Db] # Absent /\ live' = live
    BY <1>1, <2>1, CheckEffect
  <2>3. journal.phase = "ROLLING_BACK"
    BY <1>1, <2>2 DEF RecoveryInv, PhaseAt
  <2>4. /\ \A s \in Subtree : kept[s] = Absent
        /\ AsBefore(Db, live[Db]) \/ live[Db].s = "empty"
    BY <1>1, <2>2 DEF RecoveryInv, Reversed
  <2>5. \A s \in Subtree : AsBefore(s, live[s])
    BY <1>1, <2>2, <2>3, <2>4 DEF RecoveryInv, Reversible, Destructive
  <2>6. QED
    BY <2>2, <2>4, <2>5 DEF Part
<1>2. ASSUME RecoveryInv, [RecoveryNext]_restoreVars,
             journal'.phase = "COMMITTED", journal.phase # "COMMITTED"
      PROVE  \A p \in Part : staged[p] = Absent \/ Restored(p, live'[p])
  <2>1. Commit
    BY <1>2, OnlyCommitCommits DEF RecoveryInv
  <2>2. at = "verifying" /\ live' = live
    BY <2>1 DEF Commit
  <2>3. todo = {}
    BY <1>2, <2>2 DEF RecoveryInv, Todo, Swapped
  <2>4. /\ \A s \in Subtree : staged[s] = Absent \/ Restored(s, live[s])
        /\ Restored(Db, live[Db])
    BY <1>2, <2>2, <2>3 DEF RecoveryInv, SwappedIn, Swapped
  <2>5. QED
    BY <2>2, <2>4 DEF Part
<1>3. RecoveryInv /\ [RecoveryNext]_restoreVars =>
        [journal'.phase = "ROLLED_BACK" /\ journal.phase # "ROLLED_BACK" =>
           \A p \in Part : AsBefore(p, live'[p]) \/ live'[p].s = "empty"]_restoreVars
  BY <1>1
<1>4. RecoveryInv /\ [RecoveryNext]_restoreVars =>
        [journal'.phase = "COMMITTED" /\ journal.phase # "COMMITTED" =>
           \A p \in Part : staged[p] = Absent \/ Restored(p, live'[p])]_restoreVars
  BY <1>2
<1>5. QED
  BY RecoveryInvariant, <1>3, <1>4, PTL DEF RecoverySpec, OutcomeIsWhole, RollbackIsExact,
     CommitIsWhole

\* Each way to lose a backup spares one.
LEMMA NeverTheLast ==
  ASSUME Ids, [RecoveryNext]_restoreVars
  PROVE  (\E c \in store : c.sidecar) => store' # {}
<1> USE RecoveryAssumption, BackupAssumption
<1>1. Ids
  OBVIOUS
<1>2. ASSUME Assemble /\ UNCHANGED recovery PROVE (\E c \in store : c.sidecar) => store' # {}
  <2>1. store \subseteq store'
    BY <1>2 DEF Assemble
  <2>2. QED
    BY <2>1
<1>3. ASSUME FinishBackup /\ UNCHANGED recovery
      PROVE  (\E c \in store : c.sidecar) => store' # {}
  <2>1. PICK new \in Artifacts(job.id) :
          LET done == [new EXCEPT !.sidecar = TRUE, !.key = job.key]
              others == store \ {new}
          IN \/ \E gone \in Pruned(others \cup {done}, done) :
                  store' = (others \cup {done}) \ gone
             \/ store' = others
             \/ store' = store
    BY <1>3 DEF FinishBackup
  <2> DEFINE done == [new EXCEPT !.sidecar = TRUE, !.key = job.key]
             others == store \ {new}
  <2>2. ~new.sidecar
    BY <1>3, <2>1, <1>1 DEF FinishBackup, Ids
  <2>3. ASSUME NEW gone \in Pruned(others \cup {done}, done) PROVE done \notin gone
    BY <2>3 DEF Pruned
  <2>4. (\E c \in store : c.sidecar) => others # {}
    BY <2>2
  <2>5. QED
    BY <2>1, <2>3, <2>4
<1>4. ASSUME TimeoutBackup /\ UNCHANGED recovery
      PROVE  (\E c \in store : c.sidecar) => store' # {}
  <2>1. store \subseteq store'
    BY <1>4 DEF TimeoutBackup, CancelledJob
  <2>2. QED
    BY <2>1
<1>5. ASSUME NEW b \in store, DeleteBackup(b) /\ UNCHANGED recovery
      PROVE  (\E c \in store : c.sidecar) => store' # {}
  <2>1. ~(b.sidecar /\ store = {b}) /\ store' = store \ {b}
    BY <1>5 DEF DeleteBackup
  <2>2. ASSUME NEW d \in store, d.sidecar PROVE store' # {}
    <3>1. CASE d # b
      BY <3>1, <2>1
    <3>2. CASE d = b
      BY <3>2, <2>1, <2>2
    <3>3. QED
      BY <3>1, <3>2
  <2>3. QED
    BY <2>2
<1>6. ASSUME TimeoutRestore PROVE (\E c \in store : c.sidecar) => store' # {}
  <2>1. store \subseteq store'
    BY <1>6 DEF TimeoutRestore, CutRestore, CancelledJob
  <2>2. QED
    BY <2>1
<1>7. ASSUME \/ (CaptureDatabase /\ UNCHANGED recovery)
             \/ (ScanStorage /\ UNCHANGED recovery)
             \/ (FailBackup /\ UNCHANGED recovery)
             \/ (EndUserBackup /\ UNCHANGED recovery)
             \/ (\E s \in Subtree : WriteFile(s) /\ UNCHANGED recovery)
             \/ (\E key \in Key \cup {NoKey} : UserBackup(key) /\ UNCHANGED recovery)
             \/ WriteDatabase
             \/ (\E b \in store : UserRestore(b))
             \/ TakeLock
      PROVE  UNCHANGED store
  BY <1>7 DEF CaptureDatabase, At, ScanStorage, FailBackup, EndUserBackup, NoJob, WriteFile,
     UserBackup, StartBackup, WriteDatabase, UserRestore, RequestRestore, TakeLock, Leave
<1>8. ASSUME \/ StartCheckpoint
             \/ EndCheckpoint
             \/ Extract
             \/ ValidateStaged
             \/ EnterQuiescence
             \/ Disconnect
             \/ Reconnect
             \/ Commit
             \/ BeginSwap
      PROVE  UNCHANGED store
  BY <1>8 DEF StartCheckpoint, StartBackup, NoJob, Leave, EndCheckpoint, Extract, CleanUp,
     Artifacts, ValidateStaged, EnterQuiescence, Disconnect, Reconnect, StartRollback,
     Commit, BeginSwap
<1>9. ASSUME \/ SwapAway
             \/ SwapIn
             \/ StorageSwapped
             \/ DatabaseAway
             \/ DatabaseIn
             \/ DatabaseSwapped
             \/ ArchiveCommit
             \/ ReverseStorage
             \/ ReverseDatabase
      PROVE  UNCHANGED store
  BY <1>9 DEF SwapAway, SwapIn, StorageSwapped, DatabaseAway, Renamed, DatabaseIn,
     DatabaseSwapped, ArchiveCommit, Leave, ReverseStorage, ReverseDatabase, Halt, Replaced,
     Removed, StartBackup
<1>10. ASSUME \/ CheckRollback
             \/ ArchiveRollback
             \/ DiskError
             \/ DeleteRecovery
             \/ Crash
             \/ Stop
             \/ Boot
      PROVE  UNCHANGED store
  BY <1>10 DEF CheckRollback, Halt, Leave, ArchiveRollback, DiskError, StartRollback,
     Replaced, DeleteRecovery, Crash, Down, NoJob, Stop, Boot, StartBackup
<1>11. CASE UNCHANGED store
  BY <1>11
<1>12. QED
  BY <1>2, <1>3, <1>4, <1>5, <1>6, <1>7, <1>8, <1>9, <1>10, <1>11 DEF RecoveryNext,
     BackupThread, RecoveryRun, BackupLoop, RestoreStep, SwapStep, RollbackStep, restoreVars

\* As long as a backup with metadata exists there is a backup: retention spares the
\* one just made, a backup that fails takes only its own archive along, and
\* delete_backup refuses the last one.
THEOREM KeepsABackupAlways == RecoverySpec => KeepsABackup
<1>1. RecoveryInv /\ [RecoveryNext]_restoreVars =>
        [(\E b \in store : b.sidecar) => store' # {}]_restoreVars
  BY NeverTheLast DEF RecoveryInv
<1>2. QED
  BY RecoveryInvariant, <1>1, PTL DEF RecoverySpec, KeepsABackup

-----------------------------------------------------------------------------
(* Updates *)

USE DEF unmarked, unforced, ufiles, ucoroutine, ubounds, update

\* The journal of the update, whole, as a record.
UJournal == [phase : UPhase, applied : BOOLEAN, checkpoint : Nat]

\* The steps of the update that leave the process up.
UpdateStep ==
  \/ StageUpdate \/ CancelUpdate \/ BeginApply \/ ApplyStep
  \/ SwapFile \/ SwapFails \/ FilesSwapped \/ TimeoutUpdate \/ SweepUpdate

\* The steps of the other two engines, while the update looks on.
OtherStep ==
  \/ BackupThread /\ UNCHANGED recovery
  \/ RecoveryRun \/ Boot \/ UNCHANGED restoreVars

\* What a step of the update may do to the backups, the data and the recovery.
Effect ==
  /\ UNCHANGED <<version, proc, durable, saved, staged, todo, before, restores, crashes>>
  /\ \/ live' = live
     \/ live' = [live EXCEPT ![Db].s = "torn"] /\ ux = "quiesced"
     \/ live' = [live EXCEPT ![Db] = Complete(@)] /\ ux = "migrating"
  /\ \/ UNCHANGED backups
     \/ StartBackup("update", UpdateKey) /\ ux' = "checkpointing"
     \/ job' = NoJob /\ ux = "checkpointing" /\ UNCHANGED <<store, made>>
     \/ CancelledJob /\ (ux = "checkpointing" \/ at = "checkpointing")
  /\ \/ UNCHANGED <<at, want, by, result>>
     \/ RequestRestore(ujournal.checkpoint, "update") /\ ux' = "restoring" /\ ux # "idle"
     \/ ux = "restoring" /\ at' = "idle" /\ result' = "none" /\ UNCHANGED <<want, by>>
  /\ pool' \in {pool, "closed"}
  /\ \/ forced' = forced
     \/ forced' = (forced \/ ujournal.phase \in Unfinished \/ ujournal.applied)

\* Which steps there are.
LEMMA UpdateSteps ==
  ASSUME [UpdateNext]_updateVars
  PROVE  \/ OtherStep /\ UNCHANGED update
         \/ UpdateStep
         \/ UpdateDown
BY DEF UpdateNext, OtherStep, UpdateStep, updateVars

\* The steps beside the update are steps of Recovery.
LEMMA OtherIsRecovery ==
  /\ OtherStep => [RecoveryNext]_restoreVars
  /\ UpdateDown => [RecoveryNext]_restoreVars
BY DEF OtherStep, UpdateDown, RecoveryNext

\* The recovery of the checkpoint is asked for, or left to the operator.
LEMMA RestoreEffect ==
  ASSUME Restore, ujournal \in UJournal
  PROVE  /\ ujournal'.checkpoint = ujournal.checkpoint /\ ujournal'.applied = ujournal.applied
         /\ \/ /\ RequestRestore(ujournal.checkpoint, "update") /\ migrated' /\ job.at = "idle"
               /\ ux' = "restoring" /\ ujournal'.phase = "ROLLING_BACK"
            \/ /\ UNCHANGED coroutine
               /\ ux' = "idle" /\ ujournal'.phase = "FAILED_NEEDS_OPERATOR"
BY DEF Restore, Record, UJournal

\* Every step of the update stays within Effect.
LEMMA EffectOfUpdate ==
  ASSUME UpdateStep, ujournal \in UJournal
  PROVE  Effect
<1>1. CASE StageUpdate
  BY <1>1 DEF StageUpdate, PassOver, Effect
<1>2. CASE CancelUpdate
  BY <1>2 DEF CancelUpdate, PassOver, Effect
<1>3. CASE BeginApply
  BY <1>3 DEF BeginApply, MayCall, PassOver, Effect
<1>4. CASE EndUpdateCheckpoint
  BY <1>4 DEF EndUpdateCheckpoint, Effect
<1>5. CASE TakeUpdateLock \/ BeginFileSwap \/ SwapFile \/ FilesSwapped \/ CommitUpdate
          \/ ArchiveUpdate \/ SweepUpdate
  BY <1>5 DEF TakeUpdateLock, BeginFileSwap, SwapFile, FilesSwapped, CommitUpdate,
     ArchiveUpdate, SweepUpdate, restoreVars, Effect
<1>6. CASE DrainDatabase
  BY <1>6 DEF DrainDatabase, Effect
<1>7. CASE BeginMigration
  <2>1. CASE Restore /\ UNCHANGED live
    BY <1>7, <2>1, RestoreEffect DEF BeginMigration, RequestRestore, Effect
  <2> QED BY <1>7, <2>1 DEF BeginMigration, Effect
<1>8. CASE EndMigration
  <2>1. CASE Restore /\ UNCHANGED live
    BY <1>8, <2>1, RestoreEffect DEF EndMigration, RequestRestore, Effect
  <2> QED BY <1>8, <2>1 DEF EndMigration, Effect
<1>9. CASE VerifyUpdate
  <2>1. CASE Restore
    BY <1>9, <2>1, RestoreEffect DEF VerifyUpdate, RequestRestore, Effect
  <2> QED BY <1>9, <2>1 DEF VerifyUpdate, Effect
<1>10. CASE SwapFails
  BY <1>10, RestoreEffect DEF SwapFails, RequestRestore, Effect
<1>11. CASE EndUpdateRestore
  BY <1>11 DEF EndUpdateRestore, Effect
<1>12. CASE TimeoutUpdate
  <2>1. /\ UNCHANGED <<version, proc, durable, saved, staged, todo, before, restores, crashes,
                       pool, forced>>
        /\ \/ live' = live
           \/ live' = [live EXCEPT ![Db] = Complete(@)] /\ ux = "migrating"
    BY <1>12 DEF TimeoutUpdate
  <2>2. \/ UNCHANGED backups
        \/ CancelledJob /\ (ux = "checkpointing" \/ at = "checkpointing")
    BY <1>12 DEF TimeoutUpdate
  <2>3. \/ UNCHANGED coroutine
        \/ ux = "restoring" /\ at' = "idle" /\ result' = "none" /\ UNCHANGED <<want, by>>
    BY <1>12 DEF TimeoutUpdate
  <2> QED BY <2>1, <2>2, <2>3 DEF Effect
<1> QED BY <1>1, <1>2, <1>3, <1>4, <1>5, <1>6, <1>7, <1>8, <1>9, <1>10, <1>11, <1>12
        DEF UpdateStep, ApplyStep

-----------------------------------------------------------------------------
(* Updates: types *)

\* The types of what Update adds, and with those of Recovery and Backup.
UpdateType ==
  /\ ujournal \in UJournal
  /\ ulock \in Nat /\ package \in BOOLEAN
  /\ code \in [File -> {"old", "new"}] /\ copy \in [File -> {"none", "old", "new"}]
  /\ ux \in {"idle", "swapping"} \cup UAwait
  /\ left \subseteq File /\ migrated \in BOOLEAN /\ swept \in BOOLEAN
  /\ stages \in Nat /\ applies \in Nat

UpdateTyped == DataType /\ ControlType /\ BackupType /\ Ids /\ UpdateType

\* What the update does to the backups keeps their ids apart.
LEMMA EffectOnBackups ==
  ASSUME DataType, BackupType, Ids, Effect
  PROVE  BackupType' /\ Ids'
<1> USE BackupAssumption, UpdateAssumption
<1>1. CASE UNCHANGED backups
  BY <1>1 DEF BackupType, Ids, Artifacts
<1>2. CASE StartBackup("update", UpdateKey)
  <2>1. made + 1 \in Nat /\ made' = made + 1 /\ store' = store
    BY <1>2 DEF BackupType, StartBackup
  <2>2. job' \in Job /\ job'.id = made'
    <3>1. job' = [NoJob EXCEPT !.at = "started", !.by = "update", !.id = made', !.key = UpdateKey]
      BY <1>2 DEF StartBackup
    <3>2. UpdateKey \in Key \cup {NoKey} /\ made' \in Nat
      BY <2>1
    <3>3. job' \in Job
      BY <3>1, <3>2, Jobs
    <3> QED BY <3>1, <3>3 DEF NoJob
  <2>3. job'.at = "started"
    BY <1>2 DEF StartBackup, NoJob
  <2>4. \A b \in store : b.id \in Nat
    BY DEF BackupType, Artifact
  <2> QED BY <2>1, <2>2, <2>3, <2>4 DEF BackupType, Ids, Artifacts
<1>3. CASE job' = NoJob /\ UNCHANGED <<store, made>>
  BY <1>3, Jobs DEF BackupType, Ids, Artifacts
<1>4. CASE CancelledJob
  <2>1. job' = NoJob /\ made' = made
    BY <1>4 DEF CancelledJob
  <2>2. CASE store' = store
    BY <2>1, <2>2, Jobs DEF BackupType, Ids, Artifacts
  <2>3. CASE store' = store \cup {Archived} /\ job.at = "scanned"
    <3>1. Archived \in Artifact /\ Archived.id = job.id /\ job.id <= made
      BY <2>3, Jobs DEF Ids
    <3>2. \A b \in store : b.id # job.id
      BY <2>3 DEF Ids, Artifacts
    <3> QED BY <2>1, <2>3, <3>1, <3>2, Jobs DEF BackupType, Ids
  <2> QED BY <1>4, <2>2, <2>3 DEF CancelledJob
<1> QED BY <1>1, <1>2, <1>3, <1>4 DEF Effect

\* Within Effect the data and the recovery keep their types.
LEMMA EffectTyped ==
  ASSUME DataType, ControlType, ujournal \in UJournal, Effect
  PROVE  DataType' /\ ControlType'
<1>1. DataType'
  <2>1. live' \in [Part -> Content]
    <3>1. live[Db] \in Content
      BY Contents DEF DataType
    <3>2. Complete(live[Db]) \in Content /\ [live[Db] EXCEPT !.s = "torn"] \in Content
      BY <3>1, Contents DEF Complete, Content, Schema
    <3>3. \A c \in Content : [live EXCEPT ![Db] = c] \in [Part -> Content]
      BY DEF DataType
    <3>4. \/ live' = live \/ live' = [live EXCEPT ![Db] = [@ EXCEPT !.s = "torn"]]
          \/ live' = [live EXCEPT ![Db] = Complete(@)]
      BY DEF Effect
    <3> QED BY <3>2, <3>3, <3>4 DEF DataType
  <2>2. UNCHANGED <<version, kept, staged, before>>
    BY DEF Effect
  <2> QED BY <2>1, <2>2 DEF DataType
<1>2. ControlType'
  <2>1. want' \in Nat /\ by' \in {"user", "update"} /\ at' \in {at, "requested", "idle"}
        /\ result' \in {"none", "restored", "failed"} /\ todo' = todo
    BY DEF Effect, RequestRestore, ControlType, UJournal
  <2>2. UNCHANGED <<proc, journal, lock, saved, restores, crashes>> /\ pool' \in {pool, "closed"}
    BY DEF Effect
  <2>3. forced' \in BOOLEAN
    BY DEF Effect, ControlType, UJournal
  <2> QED BY <2>1, <2>2, <2>3 DEF ControlType, Await
<1> QED BY <1>1, <1>2

\* The journal, the lock and the files of the update have their types.
LEMMA UpdateTypeStep ==
  ASSUME DataType, ControlType, BackupType, UpdateType, [UpdateNext]_updateVars
  PROVE  UpdateType'
<1> USE UpdateAssumption
<1>1. \A p \in UPhase : Record(p) => ujournal' \in UJournal
  BY DEF Record, UJournal, UpdateType
<1>2. \A n \in Nat : RecordCheckpoint(n) => ujournal' \in UJournal
  BY DEF RecordCheckpoint, UJournal, UpdateType, UPhase
<1>3. NoUpdate \in UJournal /\ [NoUpdate EXCEPT !.phase = "STAGED"] \in UJournal
  BY DEF NoUpdate, UJournal, UPhase
<1>4. NoCopy \in [File -> {"none", "old", "new"}] /\ Run \in Nat
  BY DEF NoCopy, Run, ControlType
<1>5. \A F \in SUBSET File : TakeBack(F) => /\ code' \in [File -> {"old", "new"}]
                                           /\ copy' \in [File -> {"none", "old", "new"}]
  BY DEF TakeBack, UpdateType
<1>6. Restore => ujournal' \in UJournal /\ ux' \in {"idle", "restoring"}
  BY <1>1 DEF Restore, UPhase
<1>7. /\ \A b \in store : b.id \in Nat
      /\ job.id \in Nat
  BY DEF BackupType, Artifact, Job
<1>8. CASE UNCHANGED update \/ UpdateDown
  BY <1>8 DEF UpdateType, UpdateDown
<1>9. CASE StageUpdate \/ CancelUpdate
  <2>1. ujournal' \in UJournal
    BY <1>3, <1>9 DEF StageUpdate, CancelUpdate
  <2>2. package' \in BOOLEAN
    BY <1>9 DEF StageUpdate, CancelUpdate
  <2>3. ulock' \in Nat /\ stages' \in Nat
    BY <1>9 DEF StageUpdate, CancelUpdate, UpdateType
  <2> QED BY <1>9, <2>1, <2>2, <2>3 DEF StageUpdate, CancelUpdate, UpdateType
<1>10. CASE BeginApply
  <2>1. ujournal' \in UJournal /\ ux' \in {"idle", "checkpointed", "checkpointing"}
    BY <1>1, <1>2, <1>7, <1>10 DEF BeginApply, MayCall, Known, UPhase, UpdateType
  <2> QED BY <1>10, <2>1 DEF BeginApply, UpdateType, UAwait
<1>11. CASE EndUpdateCheckpoint
  <2>1. ujournal' \in UJournal /\ ux' \in {"idle", "checkpointed"}
    BY <1>1, <1>2, <1>7, <1>11 DEF EndUpdateCheckpoint, UPhase
  <2> QED BY <1>11, <2>1 DEF EndUpdateCheckpoint, UpdateType, UAwait
<1>12. CASE TakeUpdateLock \/ DrainDatabase
  <2>1. ujournal' \in UJournal /\ ulock' \in Nat
    BY <1>1, <1>4, <1>12 DEF TakeUpdateLock, DrainDatabase, GiveUp, UpdateType, UPhase
  <2> QED BY <1>12, <2>1 DEF TakeUpdateLock, DrainDatabase, GiveUp, UpdateType, UAwait
<1>13. CASE BeginMigration \/ EndMigration
  <2>1. /\ ujournal' \in UJournal
        /\ ux' \in {"idle", "restoring", "migrated", "migrating"} /\ migrated' \in BOOLEAN
    BY <1>1, <1>6, <1>13 DEF BeginMigration, EndMigration, UpdateType, UPhase
  <2> QED BY <1>13, <2>1 DEF BeginMigration, EndMigration, UpdateType, UAwait
<1>14. CASE SwapFails \/ VerifyUpdate
  <2>1. /\ ujournal' \in UJournal /\ ux' \in {"idle", "restoring", "verified"}
        /\ code' \in [File -> {"old", "new"}] /\ copy' \in [File -> {"none", "old", "new"}]
    BY <1>1, <1>5, <1>6, <1>14 DEF SwapFails, VerifyUpdate, UpdateType, UPhase
  <2> QED BY <1>14, <2>1 DEF SwapFails, VerifyUpdate, UpdateType, UAwait
<1>15. CASE SwapFile
  BY <1>15 DEF SwapFile, UpdateType
<1>16. CASE FilesSwapped
  <2>1. ujournal' \in UJournal
    BY <1>16 DEF FilesSwapped, UpdateType, UJournal, UPhase
  <2> QED BY <1>16, <2>1 DEF FilesSwapped, UpdateType, UAwait
<1>17. CASE BeginFileSwap \/ TimeoutUpdate
  BY <1>17 DEF BeginFileSwap, TimeoutUpdate, UpdateType
<1>18. CASE CommitUpdate \/ ArchiveUpdate \/ SweepUpdate
  <2>1. ujournal' \in UJournal
    BY <1>1, <1>3, <1>18 DEF CommitUpdate, ArchiveUpdate, SweepUpdate, UpdateType, UPhase
  <2>2. copy' \in [File -> {"none", "old", "new"}] /\ ulock' \in Nat
    BY <1>4, <1>18 DEF CommitUpdate, ArchiveUpdate, SweepUpdate, UpdateType
  <2>3. package' \in BOOLEAN
    BY <1>18 DEF CommitUpdate, ArchiveUpdate, SweepUpdate, UpdateType
  <2> QED BY <1>18, <2>1, <2>2, <2>3 DEF CommitUpdate, ArchiveUpdate, SweepUpdate, UpdateType, UAwait
<1>19. CASE EndUpdateRestore
  <2>1. ujournal' \in UJournal /\ ulock' \in Nat
    BY <1>1, <1>19 DEF EndUpdateRestore, UpdateType, UPhase
  <2> QED BY <1>19, <2>1 DEF EndUpdateRestore, UpdateType
<1> QED BY UpdateSteps, <1>8, <1>9, <1>10, <1>11, <1>12, <1>13, <1>14, <1>15, <1>16, <1>17,
          <1>18, <1>19 DEF UpdateStep, ApplyStep

\* Types are preserved, by the steps of all three engines.
LEMMA UpdateTypedStep ==
  ASSUME UpdateTyped, [UpdateNext]_updateVars
  PROVE  UpdateTyped'
<1> USE DEF UpdateTyped
<1>1. UpdateType'
  BY UpdateTypeStep
<1>2. ujournal \in UJournal /\ RecoveryTypeOK
  BY TypeParts DEF UpdateType
<1>3. ASSUME [RecoveryNext]_restoreVars PROVE DataType' /\ ControlType' /\ BackupType' /\ Ids'
  BY <1>2, <1>3, DataTypeStep, ControlTypeStep, BackupTypeStep, IdsStep
<1>4. ASSUME UpdateStep PROVE DataType' /\ ControlType' /\ BackupType' /\ Ids'
  BY <1>2, <1>4, EffectOfUpdate, EffectTyped, EffectOnBackups
<1> QED BY <1>1, <1>3, <1>4, UpdateSteps, OtherIsRecovery

\* The initial states are typed.
LEMMA InitiallyTyped == UpdateInit => UpdateTyped
<1> SUFFICES ASSUME UpdateInit PROVE UpdateTyped
  OBVIOUS
<1>1. RecoveryInv
  BY InitialInv DEF UpdateInit
<1>2. DataType /\ ControlType /\ BackupType /\ Ids
  BY <1>1, TypeParts DEF RecoveryInv
<1>3. UpdateType
  <2>1. ujournal \in UJournal
    BY DEF UpdateInit, NoUpdate, UJournal, UPhase
  <2> QED BY <2>1 DEF UpdateInit, UpdateType, NoCopy
<1> QED BY <1>2, <1>3 DEF UpdateTyped

\* Whatever is staged, applied, cut off and crashed, every variable keeps its type.
THEOREM UpdateTypeCorrect == UpdateSpec => []UpdateTypeOK
<1>1. UpdateTyped /\ [UpdateNext]_updateVars => UpdateTyped'
  BY UpdateTypedStep
<1>2. UpdateTyped => UpdateTypeOK
  BY TypeParts DEF UpdateTyped, UpdateType, UpdateTypeOK, UJournal
<1> QED BY <1>1, <1>2, InitiallyTyped, PTL DEF UpdateSpec

-----------------------------------------------------------------------------
(* Updates: what the other two engines do meanwhile *)

\* No user restores a backup, and none takes one under the key of the update.
Alone == restores' = restores /\ (job'.key = UpdateKey => job'.by = "update")

\* The archive is extracted; the database of the backup is in its place.
Taken == {"extracted", "staged", "quiescing", "quiesced", "storage", "place", "database",
          "install", "installed", "swapped", "verifying", "committing"}
Installing == {"installed", "swapped", "verifying", "committing"}
Placed == live[Db] # Absent /\ live[Db].s = staged[Db].s /\ Restored(Db, live[Db])

\* Without a restore by a user, a coroutine of the recovery engine only goes on.
LEMMA OtherControl ==
  ASSUME ControlType, Alive, OtherStep, restores' = restores
  PROVE  /\ UNCHANGED <<want, by, crashes>> /\ (forced => forced')
         /\ proc = "up" => proc' = "up" /\ (at = "idle" => at' = "idle")
         /\ proc' = "up" /\ at' # "idle" => proc = "up"
         /\ journal'.phase \in Destructive \/ at' # "idle" =>
              journal.phase \in Destructive \/ at # "idle"
         /\ journal'.phase # "NONE" \/ at' # "idle" => journal.phase # "NONE" \/ at # "idle"
         /\ at' = "idle" /\ result' = "restored" =>
              \/ at = "committing" /\ journal'.phase = "NONE"
              \/ /\ at = "idle" /\ result = "restored"
                 /\ journal.phase = "NONE" => journal'.phase = "NONE"
<1> DEFINE Goal ==
         /\ UNCHANGED <<want, by, crashes>> /\ (forced => forced')
         /\ proc = "up" => proc' = "up" /\ (at = "idle" => at' = "idle")
         /\ proc' = "up" /\ at' # "idle" => proc = "up"
         /\ journal'.phase \in Destructive \/ at' # "idle" =>
              journal.phase \in Destructive \/ at # "idle"
         /\ journal'.phase # "NONE" \/ at' # "idle" => journal.phase # "NONE" \/ at # "idle"
         /\ at' = "idle" /\ result' = "restored" =>
              \/ at = "committing" /\ journal'.phase = "NONE"
              \/ /\ at = "idle" /\ result = "restored"
                 /\ journal.phase = "NONE" => journal'.phase = "NONE"
<1>1. CASE UNCHANGED <<proc, recovery>>
  BY <1>1
<1>2. ASSUME NEW b \in store, UserRestore(b) PROVE FALSE
  BY <1>2 DEF UserRestore, ControlType
<1>3. CASE WriteDatabase \/ DeleteRecovery
  BY <1>3 DEF WriteDatabase, DeleteRecovery, NoJournal, ControlType, Destructive
<1>4. CASE TakeLock \/ StartCheckpoint \/ EndCheckpoint \/ TimeoutRestore
  BY <1>4 DEF TakeLock, StartCheckpoint, EndCheckpoint, TimeoutRestore, CutRestore, Leave, Alive,
     Reverse, Await
<1>5. CASE Extract \/ ValidateStaged \/ EnterQuiescence \/ Disconnect
  BY <1>5 DEF Extract, ValidateStaged, EnterQuiescence, Disconnect, CleanUp, Leave, Alive, Reverse
<1>6. CASE Reconnect \/ Commit \/ BeginSwap \/ SwapAway \/ SwapIn \/ StorageSwapped
  BY <1>6 DEF Reconnect, Commit, BeginSwap, SwapAway, SwapIn, StorageSwapped, StartRollback,
     Alive, Reverse
<1>7. CASE DatabaseAway \/ DatabaseIn \/ DatabaseSwapped \/ DiskError
  BY <1>7 DEF DatabaseAway, DatabaseIn, DatabaseSwapped, DiskError, StartRollback, Alive, Reverse
<1>8. CASE ArchiveCommit
  BY <1>8 DEF ArchiveCommit, NoJournal, Leave, Alive, Reverse
<1>9. CASE RollbackStep
  BY <1>9 DEF RollbackStep, ReverseStorage, ReverseDatabase, CheckRollback, ArchiveRollback,
     Halt, Leave
<1>10. CASE Boot
  <2>1. forced' = forced /\ UNCHANGED <<want, by, crashes, result>>
    BY <1>10 DEF Boot
  <2> QED BY <1>10, <2>1, BootEffect DEF Alive, Destructive
<1>11. ASSUME (BackupThread \/ BackupLoop) /\ UNCHANGED recovery PROVE UNCHANGED <<proc, recovery>>
  BY <1>11 DEF BackupThread, BackupLoop, CaptureDatabase, ScanStorage, Assemble, FinishBackup,
     FailBackup, EndUserBackup, TimeoutBackup, WriteFile, UserBackup, DeleteBackup
<1> QED
  <2>1. Goal
    BY <1>1, <1>2, <1>3, <1>4, <1>5, <1>6, <1>7, <1>8, <1>9, <1>10, <1>11
       DEF OtherStep, RecoveryRun, RestoreStep, SwapStep, restoreVars
  <2> QED BY <2>1

\* The staged files change where the backup asked for is extracted.
LEMMA OtherStaged ==
  ASSUME ControlType, Alive, OtherStep, restores' = restores
  PROVE  \/ staged' = staged /\ (at' \in Taken => at \in Taken)
         \/ at' = "extracted" /\ \E b \in Artifacts(want) : staged' = b.parts
<1> DEFINE Goal == staged' = staged /\ (at' \in Taken => at \in Taken)
<1>1. CASE UNCHANGED recovery
  BY <1>1
<1>2. ASSUME NEW b \in store, UserRestore(b) PROVE FALSE
  BY <1>2 DEF UserRestore, ControlType
<1>3. CASE WriteDatabase \/ DeleteRecovery
  BY <1>3 DEF WriteDatabase, DeleteRecovery
<1>4. CASE TakeLock \/ StartCheckpoint \/ EndCheckpoint \/ TimeoutRestore
  BY <1>4 DEF TakeLock, StartCheckpoint, EndCheckpoint, TimeoutRestore, CutRestore, Leave, Taken
<1>5. CASE ValidateStaged \/ EnterQuiescence \/ Disconnect
  BY <1>5 DEF ValidateStaged, EnterQuiescence, Disconnect, CleanUp, Leave, Taken
<1>6. CASE Reconnect \/ Commit \/ SwapStep \/ DiskError
  BY <1>6 DEF Reconnect, Commit, SwapStep, BeginSwap, SwapAway, SwapIn, StorageSwapped,
     DatabaseAway, DatabaseIn, DatabaseSwapped, ArchiveCommit, DiskError, StartRollback, Leave, Taken
<1>7. CASE RollbackStep
  BY <1>7 DEF RollbackStep, ReverseStorage, ReverseDatabase, CheckRollback, ArchiveRollback,
     Halt, Leave, Taken
<1>8. CASE Boot
  BY <1>8, BootEffect DEF Taken
<1>9. CASE Extract
  <2>1. \/ at' = "extracted" /\ \E b \in Artifacts(want) : staged' = b.parts
        \/ at' = "idle" /\ staged' = staged
    BY <1>9 DEF Extract, CleanUp, Leave
  <2> QED BY <2>1 DEF Taken
<1> QED
  BY <1>1, <1>2, <1>3, <1>4, <1>5, <1>6, <1>7, <1>8, <1>9
     DEF OtherStep, RecoveryRun, RestoreStep, restoreVars

\* A database that is there is not replaced while no recovery runs, and one that a
\* recovery has put in place stays the backup's, or a later write.
LEMMA OtherData ==
  ASSUME DataType, BackupType, HasDatabase, Alive, OtherStep, before.version <= version
  PROVE  /\ before'.version <= version'
         /\ at = "idle" /\ live[Db].s \notin {"none", "empty"} => live'[Db].s = live[Db].s
         /\ at' \in Installing /\ (at \in Installing => Placed) => Placed'
         /\ (at = "committing" \/ (at = "idle" /\ proc = "up")) /\ Placed => Placed'
<1> USE BackupAssumption, Contents
<1> DEFINE Kept == at = "idle" /\ live[Db].s \notin {"none", "empty"} => live'[Db].s = live[Db].s
           Put == at' \in Installing /\ (at \in Installing => Placed) => Placed'
           Stays == (at = "committing" \/ (at = "idle" /\ proc = "up")) /\ Placed => Placed'
           Goal == before'.version <= version' /\ Kept /\ Put /\ Stays
<1>1. /\ version \in Nat /\ before.version \in Nat /\ live \in [Part -> Content]
      /\ live[Db] \in Content /\ staged[Db] \in Content
  BY DEF DataType
<1>2. CASE /\ before' = before /\ version' = version /\ live'[Db] = live[Db] /\ staged' = staged
           /\ at' \in Installing => at \in Installing
  BY <1>2 DEF Placed, Restored
<1>3. ASSUME (BackupThread \/ BackupLoop) /\ UNCHANGED recovery PROVE Goal
  <2>1. ASSUME NEW s \in Subtree, WriteFile(s)
        PROVE  version' = version + 1 /\ live'[Db] = live[Db]
    BY <1>1, <2>1 DEF WriteFile
  <2>2. CASE \E s \in Subtree : WriteFile(s)
    <3>1. version' = version + 1 /\ live'[Db] = live[Db]
      BY <2>1, <2>2
    <3>2. before.version <= version'
      BY <1>1, <3>1
    <3> QED BY <1>3, <3>1, <3>2 DEF Placed, Restored
  <2>3. ASSUME CaptureDatabase PROVE version' = version /\ (live[Db] # Absent => live' = live)
    BY <2>3 DEF CaptureDatabase
  <2>4. ASSUME ~\E s \in Subtree : WriteFile(s)
        PROVE  version' = version /\ (live[Db] # Absent => live' = live)
    BY <1>3, <2>3, <2>4 DEF BackupThread, BackupLoop, ScanStorage, Assemble, FinishBackup, FailBackup,
       EndUserBackup, TimeoutBackup, UserBackup, DeleteBackup
  <2>5. ASSUME live[Db].s \notin {"none", "empty"} PROVE live[Db] # Absent
    BY <2>5 DEF Absent
  <2>6. CASE ~\E s \in Subtree : WriteFile(s)
    BY <1>1, <1>3, <2>4, <2>5, <2>6 DEF Placed, Restored
  <2> QED BY <2>2, <2>6
<1>4. ASSUME WriteDatabase PROVE Goal
  <2>1. /\ version' = version + 1 /\ UNCHANGED <<coroutine, bookkeeping>>
        /\ \/ live' = live
           \/ live' = [live EXCEPT ![Db] = [Open(@) EXCEPT !.v = version']]
    BY <1>4 DEF WriteDatabase
  <2>2. before.version < version' /\ version' \in Nat
    BY <1>1, <2>1
  <2>3. ASSUME live[Db] # Absent, live' # live
        PROVE  live'[Db].s = live[Db].s /\ live'[Db].v = version' /\ live'[Db] # Absent
    <3>1. live'[Db] = [live[Db] EXCEPT !.v = version']
      BY <1>1, <2>1, <2>3 DEF Open
    <3>2. live'[Db].s = live[Db].s /\ live'[Db].v = version'
      BY <1>1, <3>1 DEF Content
    <3> QED BY <2>2, <3>2, <1>1 DEF Absent
  <2>4. ASSUME live[Db].s \notin {"none", "empty"} PROVE live[Db] # Absent
    BY <2>4 DEF Absent
  <2>5. before'.version <= version'
    BY <1>1, <2>1
  <2>6. Placed => Placed'
    BY <2>1, <2>2, <2>3, <1>1 DEF Placed, Restored
  <2> QED BY <2>1, <2>3, <2>4, <2>5, <2>6
<1>5. ASSUME ValidateStaged PROVE Goal
  BY <1>5, <1>1 DEF ValidateStaged, CleanUp, Leave, Installing
<1>6. ASSUME BeginSwap PROVE Goal
  BY <1>6, <1>1 DEF BeginSwap, Installing
<1>7. ASSUME SwapAway \/ SwapIn \/ StorageSwapped \/ DatabaseAway PROVE Goal
  BY <1>7, <1>1 DEF SwapAway, SwapIn, StorageSwapped, DatabaseAway, Installing
<1>8. ASSUME DatabaseIn PROVE Goal
  <2>1. staged[Db] # Absent /\ live'[Db] = staged[Db] /\ UNCHANGED <<staged, version, before>>
    BY <1>8, <1>1 DEF HasDatabase, DatabaseIn, Preparing, Reverse
  <2> QED BY <1>8, <2>1, <1>1 DEF DatabaseIn, Placed, Restored
<1>9. ASSUME DiskError \/ RollbackStep PROVE Goal
  BY <1>9, <1>1 DEF DiskError, StartRollback, RollbackStep, ReverseStorage, ReverseDatabase,
     CheckRollback, ArchiveRollback, Halt, Leave, Installing
<1>10. ASSUME Boot PROVE Goal
  <2>1. /\ proc = "down" /\ live' = [live EXCEPT ![Db] = WithTables(@)]
        /\ UNCHANGED <<version, staged, before>> /\ (at' = at \/ at' = "reverse")
    BY <1>10 DEF Boot, StartRollback
  <2>2. live[Db].s \notin {"none", "empty"} => live'[Db].s = live[Db].s
    BY <2>1, <1>1 DEF WithTables, Open, Absent
  <2> QED BY <1>1, <2>1, <2>2 DEF Alive, Installing
<1>11. ASSUME \E b \in store : UserRestore(b) PROVE Goal
  BY <1>11, <1>1 DEF UserRestore, RequestRestore, Installing, Placed, Restored
<1>12. ASSUME TakeLock \/ StartCheckpoint \/ EndCheckpoint \/ Extract \/ TimeoutRestore PROVE Goal
  BY <1>12, <1>1 DEF TakeLock, StartCheckpoint, EndCheckpoint, Extract, CleanUp, TimeoutRestore,
     CutRestore, Leave, Installing, Placed, Restored
<1>13. ASSUME EnterQuiescence \/ Disconnect \/ Reconnect \/ Commit \/ DatabaseSwapped \/ ArchiveCommit
              \/ DeleteRecovery PROVE Goal
  BY <1>13, <1>2 DEF EnterQuiescence, Disconnect, CleanUp, Reconnect, StartRollback, Commit,
     DatabaseSwapped, ArchiveCommit,
     DeleteRecovery, Leave, Installing
<1>14. ASSUME UNCHANGED restoreVars PROVE Goal
  BY <1>14, <1>2 DEF restoreVars
<1> QED
  <2>1. Goal
    BY <1>3, <1>4, <1>5, <1>6, <1>7, <1>8, <1>9, <1>10, <1>11, <1>12, <1>13, <1>14
       DEF OtherStep, RecoveryRun, RestoreStep, SwapStep
  <2> QED BY <2>1

\* What happens to a backup, whoever asked for it.
BackupMove ==
  \/ UNCHANGED backups
  \/ CaptureDatabase \/ ScanStorage \/ Assemble \/ FinishBackup \/ FailBackup
  \/ \E b \in store : DeleteBackup(b)
  \/ job' = NoJob /\ UNCHANGED <<store, made>>
  \/ CancelledJob
  \/ \E who \in {"user", "recovery", "update"}, key \in Key \cup {NoKey} : StartBackup(who, key)

\* Where a backup is not finished, so that it has no key yet.
Packing == {"started", "captured", "scanned", "assembled"}

\* A backup gets its key when it is finished.
Keyed ==
  /\ job.at = "assembled" => \A b \in Artifacts(job.id) : b.key = NoKey
  /\ job.at = "finished" => \A b \in Artifacts(job.id) : b.key = job.key

\* The backup of this id is gone, or finished under the key of the update.
Settled(id) ==
  /\ id <= made /\ \A b \in Artifacts(id) : b.key = UpdateKey
  /\ job.at \in Packing => job.id # id

\* The backup under way has, or will have, the schema of the live database.
Seen ==
  /\ job.at \in {"captured", "scanned"} => job.seen[Db].s = live[Db].s
  /\ job.at = "assembled" => \A b \in Artifacts(job.id) : b.parts[Db].s = live[Db].s

\* A stage of a backup changes nothing but the stage.
LEMMA Staged ==
  ASSUME BackupType, NEW st \in Stage
  PROVE  /\ At(st).at = st /\ At(st).by = job.by /\ At(st).id = job.id
         /\ At(st).key = job.key /\ At(st).seen = job.seen
BY DEF At, BackupType, Job

\* What packing and finishing do to the store.
LEMMA AssembleEffect ==
  ASSUME DataType, BackupType, Ids, Assemble
  PROVE  /\ made' = made /\ job'.id = job.id /\ job.at = "scanned"
         /\ \/ job'.at = "failed" /\ store' = store
            \/ /\ job'.at = "assembled" /\ store' = store \cup {Archived}
               /\ Artifacts(job.id)' = {Archived}
         /\ Archived.id = job.id /\ Archived.key = NoKey /\ Archived.parts[Db] = job.seen[Db]
<1>1. Archived.id = job.id /\ Archived.key = NoKey /\ Archived.parts[Db] = job.seen[Db]
  BY Contents DEF Archived, Packed
<1>2. made' = made /\ job'.id = job.id /\ job.at = "scanned"
  BY Staged DEF Assemble, Stage
<1>3. Artifacts(job.id) = {}
  BY <1>2 DEF Ids
<1>4. CASE job'.at = "failed" /\ store' = store
  BY <1>1, <1>2, <1>4
<1>5. CASE job' = At("assembled") /\ store' = store \cup {Archived}
  <2>1. job'.at = "assembled"
    BY <1>5, Staged DEF Stage
  <2>2. Artifacts(job.id)' = {Archived}
    BY <1>1, <1>2, <1>3, <1>5 DEF Artifacts
  <2> QED BY <1>1, <1>2, <1>5, <2>1, <2>2
<1>6. job' = At("failed") => job'.at = "failed"
  BY Staged DEF Stage
<1> QED BY <1>4, <1>5, <1>6 DEF Assemble

\* A backup that finishes gets its own key, and no other changes.
LEMMA FinishEffect ==
  ASSUME BackupType, FinishBackup
  PROVE  /\ job.at = "assembled" /\ made' = made /\ job'.id = job.id /\ job'.key = job.key
         /\ job'.at \in {"finished", "failed"} /\ job'.by = job.by
         /\ \A b \in store' :
              \/ b \in store /\ (job'.at = "finished" => b.id # job.id)
              \/ /\ b.id = job.id /\ b.key = job.key
                 /\ \E new \in Artifacts(job.id) : b.parts = new.parts
<1>1. PICK new \in Artifacts(job.id) :
        LET filed == [new EXCEPT !.sidecar = TRUE, !.key = job.key]
            others == store \ {new}
        IN \/ /\ new.whole /\ job' = At("finished")
              /\ \E gone \in Pruned(others \cup {filed}, filed) :
                   store' = (others \cup {filed}) \ gone
           \/ ~new.whole /\ job' = At("failed") /\ store' = others
           \/ "storage" \in Faults /\ job' = At("failed") /\ UNCHANGED store
  BY DEF FinishBackup
<1> DEFINE filed == [new EXCEPT !.sidecar = TRUE, !.key = job.key]
<1>2. new \in store /\ new.id = job.id /\ new \in Artifact
  BY DEF Artifacts, BackupType
<1>3. filed.id = job.id /\ filed.key = job.key /\ filed.parts = new.parts
  BY <1>2 DEF Artifact
<1>4. \A b \in store \ {new} : b.id # job.id
  BY <1>2 DEF BackupType
<1> HIDE DEF filed
<1>5. \/ job' = At("finished") /\ store' \subseteq (store \ {new}) \cup {filed}
      \/ job' = At("failed") /\ store' \subseteq store
  BY <1>1 DEF filed
<1>6. /\ job'.id = job.id /\ job'.key = job.key /\ job'.by = job.by
      /\ job'.at \in {"finished", "failed"} /\ (job' = At("failed") => job'.at = "failed")
  BY <1>5, Staged DEF Stage
<1>7. \A b \in store' :
              \/ b \in store /\ (job'.at = "finished" => b.id # job.id)
              \/ b.id = job.id /\ b.key = job.key /\ b.parts = new.parts
  BY <1>3, <1>4, <1>5, <1>6
<1>8. job.at = "assembled" /\ made' = made
  BY DEF FinishBackup
<1> QED BY <1>6, <1>7, <1>8

\* The other engines neither begin nor end a backup for the update.
LEMMA OtherBackups ==
  ASSUME BackupType, OtherStep
  PROVE  /\ BackupMove
         /\ job'.by = "update" =>
              job.by = "update" /\ job'.key = job.key /\ (job.at # "idle" => job'.at # "idle")
         /\ job.by = "update" /\ job.at # "idle" /\ at = "idle" =>
              job'.by = "update" /\ job'.at # "idle"
<1> USE BackupAssumption
<1>1. CASE UNCHANGED backups
  BY <1>1 DEF BackupMove
<1>2. CASE CaptureDatabase \/ ScanStorage \/ Assemble \/ FailBackup
  <2>1. job'.by = job.by /\ job'.key = job.key /\ job'.at # "idle"
    BY <1>2 DEF CaptureDatabase, ScanStorage, Assemble, FailBackup, At, BackupType, Job
  <2> QED BY <1>2, <2>1 DEF BackupMove
<1>3. CASE FinishBackup
  BY <1>3, FinishEffect DEF BackupMove
<1>4. CASE EndUserBackup \/ TimeoutBackup
  BY <1>4 DEF EndUserBackup, TimeoutBackup, CancelledJob, NoJob, BackupMove
<1>5. ASSUME NEW b \in store, DeleteBackup(b) PROVE BackupMove /\ job' = job
  BY <1>5 DEF DeleteBackup, BackupMove
<1>6. ASSUME NEW who \in {"user", "recovery"}, NEW key \in Key \cup {NoKey}, StartBackup(who, key)
      PROVE  BackupMove /\ job'.by = who /\ job.at = "idle"
  BY <1>6 DEF StartBackup, NoJob, BackupMove
<1>7. CASE EndCheckpoint \/ TimeoutRestore
  BY <1>7 DEF EndCheckpoint, TimeoutRestore, CutRestore, CancelledJob, NoJob, BackupMove, Await
<1>8. CASE StartCheckpoint
  <2>1. StartBackup("recovery", NoKey) \/ UNCHANGED backups
    BY <1>8 DEF StartCheckpoint
  <2> QED BY <1>1, <1>6, <2>1
<1>9. CASE \/ /\ RecoveryRun /\ ~(BackupLoop /\ UNCHANGED recovery)
              /\ ~EndCheckpoint /\ ~TimeoutRestore /\ ~StartCheckpoint
           \/ Boot \/ UNCHANGED restoreVars
  <2>1. UNCHANGED backups
    BY <1>9 DEF RecoveryRun, RestoreStep, SwapStep, RollbackStep, Boot, restoreVars, WriteDatabase,
       UserRestore, TakeLock, Extract, ValidateStaged, EnterQuiescence, Disconnect, Reconnect, Commit,
       BeginSwap, SwapAway, SwapIn, StorageSwapped, DatabaseAway, DatabaseIn, DatabaseSwapped,
       ArchiveCommit, ReverseStorage, ReverseDatabase, CheckRollback, ArchiveRollback, DiskError,
       DeleteRecovery
  <2> QED BY <1>1, <2>1
<1>10. ASSUME BackupThread \/ BackupLoop
       PROVE  \/ UNCHANGED backups
              \/ CaptureDatabase \/ ScanStorage \/ Assemble \/ FailBackup \/ FinishBackup
              \/ EndUserBackup \/ TimeoutBackup \/ \E b \in store : DeleteBackup(b)
              \/ \E key \in Key \cup {NoKey} : StartBackup("user", key)
  BY <1>10 DEF BackupThread, BackupLoop, UserBackup, WriteFile
<1>11. CASE BackupThread \/ BackupLoop
  BY <1>1, <1>2, <1>3, <1>4, <1>5, <1>6, <1>10, <1>11
<1> QED BY <1>7, <1>8, <1>9, <1>11 DEF OtherStep, RecoveryRun

\* The update and a crash move the backups no other way.
LEMMA UpdateBackups ==
  ASSUME BackupType, UpdateStep \/ UpdateDown, UpdateType
  PROVE  BackupMove
<1> USE UpdateAssumption
<1>1. ujournal \in UJournal
  BY DEF UpdateType
<1>2. CASE UpdateStep
  BY <1>1, <1>2, EffectOfUpdate DEF Effect, BackupMove
<1>3. CASE UpdateDown
  BY <1>3 DEF UpdateDown, Crash, Stop, Down, BackupMove
<1> QED BY <1>2, <1>3

\* A backup is finished under the key it was begun with.
LEMMA KeyedStep ==
  ASSUME DataType, BackupType, Ids, Keyed, BackupMove
  PROVE  Keyed'
<1> USE BackupAssumption
<1>1. CASE UNCHANGED backups
  BY <1>1 DEF Keyed, Artifacts
<1>2. CASE CaptureDatabase \/ ScanStorage \/ FailBackup
  <2>1. job'.at \in {"captured", "scanned", "failed"}
    BY <1>2 DEF CaptureDatabase, ScanStorage, FailBackup, At, BackupType, Job
  <2> QED BY <2>1 DEF Keyed
<1>3. CASE Assemble
  BY <1>3, AssembleEffect DEF Keyed
<1>4. CASE FinishBackup
  BY <1>4, FinishEffect DEF Keyed, Artifacts
<1>5. ASSUME NEW b \in store, DeleteBackup(b) PROVE Keyed'
  BY <1>5 DEF DeleteBackup, Keyed, Artifacts
<1>6. CASE (job' = NoJob /\ UNCHANGED <<store, made>>) \/ CancelledJob
  BY <1>6 DEF CancelledJob, NoJob, Keyed
<1>7. ASSUME NEW who, NEW key, StartBackup(who, key) PROVE Keyed'
  BY <1>7 DEF StartBackup, NoJob, Keyed
<1> QED BY <1>1, <1>2, <1>3, <1>4, <1>5, <1>6, <1>7 DEF BackupMove

\* A settled id stays settled: no other backup gets it.
LEMMA SettledStep ==
  ASSUME DataType, BackupType, Ids, BackupMove, NEW id \in Nat, Settled(id)
  PROVE  Settled(id)'
<1> USE BackupAssumption
<1>0. made \in Nat /\ job.id \in Nat
  BY DEF BackupType, Job
<1>1. CASE UNCHANGED backups
  BY <1>1 DEF Settled, Artifacts
<1>2. CASE CaptureDatabase \/ ScanStorage \/ FailBackup
  <2>1. job'.id = job.id /\ job.at \in Packing /\ UNCHANGED <<store, made>>
    BY <1>2 DEF CaptureDatabase, ScanStorage, FailBackup, At, BackupType, Job, Packing
  <2> QED BY <2>1 DEF Settled, Artifacts
<1>3. CASE Assemble
  <2>1. /\ made' = made /\ job'.id = job.id /\ job.at \in Packing
        /\ store' \subseteq store \cup {Archived} /\ Archived.id = job.id
    BY <1>3, AssembleEffect DEF Packing
  <2> QED BY <2>1 DEF Settled, Artifacts
<1>4. CASE FinishBackup
  <2>1. /\ made' = made /\ job'.id = job.id /\ job.at \in Packing
        /\ \A b \in store' : b \in store \/ b.id = job.id
    BY <1>4, FinishEffect DEF Packing
  <2> QED BY <2>1 DEF Settled, Artifacts
<1>5. ASSUME NEW b \in store, DeleteBackup(b) PROVE Settled(id)'
  BY <1>5 DEF DeleteBackup, Settled, Artifacts
<1>6. CASE job' = NoJob /\ UNCHANGED <<store, made>>
  BY <1>6 DEF NoJob, Settled, Artifacts, Packing
<1>7. CASE CancelledJob
  <2>1. /\ made' = made /\ job'.at = "idle"
        /\ \/ store' = store
           \/ job.at \in Packing /\ store' = store \cup {Archived}
    BY <1>7 DEF CancelledJob, NoJob, Packing
  <2>2. Archived.id = job.id
    BY DEF Archived
  <2> QED BY <2>1, <2>2 DEF Settled, Artifacts, Packing
<1>8. ASSUME NEW who, NEW key, StartBackup(who, key) PROVE Settled(id)'
  BY <1>0, <1>8, StartEffect DEF Settled, Artifacts
<1> QED BY <1>1, <1>2, <1>3, <1>4, <1>5, <1>6, <1>7, <1>8 DEF BackupMove

\* The backup under way follows the schema of the live database.
LEMMA SchemaSeenStep ==
  ASSUME DataType, BackupType, Ids, BackupMove, Seen,
         live[Db] # Absent, live'[Db].s = live[Db].s
  PROVE  Seen'
<1> USE BackupAssumption
<1>1. CASE UNCHANGED backups
  BY <1>1 DEF Seen, Artifacts
<1>2. CASE CaptureDatabase
  <2>1. job' = [At("captured") EXCEPT !.seen[Db] = live[Db]]
    BY <1>2 DEF CaptureDatabase
  <2>2. job'.at = "captured" /\ job'.seen[Db] = live[Db]
    BY <2>1, Contents DEF At, BackupType, Job
  <2> QED BY <2>2 DEF Seen
<1>3. CASE ScanStorage
  <2>1. job'.at = "scanned" /\ job'.seen[Db] = job.seen[Db] /\ job.at = "captured"
    BY <1>3, Contents DEF ScanStorage, At, BackupType, Job
  <2> QED BY <2>1 DEF Seen
<1>4. CASE Assemble
  BY <1>4, AssembleEffect DEF Seen
<1>5. CASE FinishBackup
  BY <1>5, FinishEffect DEF Seen
<1>6. CASE FailBackup
  BY <1>6, Staged DEF FailBackup, Stage, Seen
<1>7. ASSUME NEW b \in store, DeleteBackup(b) PROVE Seen'
  BY <1>7 DEF DeleteBackup, Seen, Artifacts
<1>8. CASE (job' = NoJob /\ UNCHANGED <<store, made>>) \/ CancelledJob
  BY <1>8 DEF CancelledJob, NoJob, Seen
<1>9. ASSUME NEW who, NEW key, StartBackup(who, key) PROVE Seen'
  BY <1>9 DEF StartBackup, NoJob, Seen
<1> QED BY <1>1, <1>2, <1>3, <1>4, <1>5, <1>6, <1>7, <1>8, <1>9 DEF BackupMove

\* A backup gets the key of the update where one that has it is finished.
LEMMA KnownStep ==
  ASSUME DataType, BackupType, Ids, BackupMove, NEW b \in Known(UpdateKey)'
  PROVE  \/ b \in Known(UpdateKey)
         \/ /\ job.at = "assembled" /\ job.key = UpdateKey
            /\ \E new \in Artifacts(job.id) : b.parts = new.parts
<1> USE BackupAssumption, UpdateAssumption
<1>1. b \in store' /\ b.key = UpdateKey /\ UpdateKey # NoKey
  BY DEF Known
<1>2. b \in store => b \in Known(UpdateKey)
  BY <1>1 DEF Known
<1>3. CASE FinishBackup
  BY <1>1, <1>2, <1>3, FinishEffect
<1>4. CASE Assemble \/ CancelledJob
  <2>1. store' \subseteq store \cup {Archived}
    BY <1>4 DEF Assemble, CancelledJob
  <2>2. Archived.key = NoKey
    BY DEF Archived
  <2> QED BY <1>1, <1>2, <2>1, <2>2
<1>5. CASE ~FinishBackup /\ ~Assemble /\ ~CancelledJob
  <2>1. store' \subseteq store
    BY <1>5 DEF BackupMove, CaptureDatabase, ScanStorage, FailBackup, DeleteBackup, StartBackup
  <2> QED BY <1>1, <1>2, <2>1
<1> QED BY <1>3, <1>4, <1>5

-----------------------------------------------------------------------------
(* Updates: the parts of the inductive invariant *)

\* Where apply must hold the maintenance lock.
Working == {"quiesced", "migrating", "migrated", "swapping", "applied", "verified", "committed"}
\* The recovery that the update waits for has succeeded.
Ended == ux = "restoring" /\ at = "idle" /\ result = "restored"

\* Who is at work: the recovery engine only for an update that waits for it.
Called ==
  /\ ux # "idle" => proc = "up" /\ swept
  /\ ux \in Working \cup {"draining", "restoring"} => ulock = Run
  /\ proc = "up" /\ at # "idle" => ux = "restoring" /\ by = "update"
  /\ job.by = "update" => ux = "checkpointing" /\ job.at # "idle"
  /\ ux = "checkpointing" => job.by = "update" /\ at = "idle"
  /\ job.key = UpdateKey <=> job.by = "update"

\* What the journal says while apply stands at ux.
Told ==
  /\ ux \in {"checkpointed", "draining"} => ujournal.phase = "CHECKPOINT_CREATED"
  /\ ux \in {"quiesced", "migrating"} => ujournal.phase = "QUIESCED"
  /\ ux \in {"migrated", "swapping"} => ujournal.phase = "SCHEMA_MIGRATED"
  /\ ux = "applied" => ujournal.phase = "FILES_SWAPPED"
  /\ ux = "verified" => ujournal.phase = "VERIFIED"
  /\ ux = "committed" => ujournal.phase = "COMMITTED"
  /\ ux = "restoring" => ujournal.phase = "ROLLING_BACK"

\* The checkpoint is a backup under the update's key, and the one restored.
Checkpointed ==
  /\ ux = "restoring" => want = ujournal.checkpoint
  /\ ux \notin {"idle", "checkpointing"} => Settled(ujournal.checkpoint)

\* The database of the backup is in its place when the recovery says so.
InPlace ==
  /\ before.version <= version
  /\ at \in Installing \/ Ended => Placed
  /\ Ended => journal.phase = "NONE"

\* How far the migration and the swap have come.
Migrated ==
  /\ ux = "migrating" => live[Db].s = "torn"
  /\ ux \in {"migrated", "swapping", "verified", "committed"} => live[Db].s = "head"
  /\ ux = "swapping" => \A f \in File \ left : code[f] = "new"
  /\ ux \in {"applied", "verified", "committed"} => left = {} /\ Installed("new")

\* The journal and the lock tell of what is not finished.
Journaled ==
  ~forced =>
    /\ ujournal.phase \in Unfinished => ulock # 0
    /\ ujournal.applied =>
         ujournal.phase \in {"FILES_SWAPPED", "VERIFIED", "COMMITTED", "ROLLING_BACK", "ROLLED_BACK",
                            "FAILED_NEEDS_OPERATOR"}
    /\ ux = "checkpointing" => ujournal.phase \notin Unfinished /\ ~ujournal.applied
    /\ journal.phase \in Destructive \/ at # "idle" =>
         ujournal.phase \in {"ROLLING_BACK", "FAILED_NEEDS_OPERATOR"}

\* The edition that was installed when apply began.
Before == IF migrated THEN "old" ELSE "new"

\* Code and schema go together where the journal tells of nothing unfinished, and
\* where it does what is installed and what the copies hold is known.
Matched ==
  ~forced =>
    /\ ujournal.phase \notin Unfinished => Coherent
    /\ ux = "quiesced" => Coherent
    /\ ux \in {"migrating", "restoring"} => Installed("old")
    /\ ux = "migrated" => Installed(Before)
    /\ ux = "swapping" =>
         \A f \in File : IF f \in left THEN code[f] = Before ELSE copy[f] = Before
    /\ ux = "applied" => \A f \in File : copy[f] = Before
    /\ ujournal.phase \in {"FILES_SWAPPED", "VERIFIED"} => live[Db].s = "head" /\ Installed("new")

\* The update has been there before, and no rollback is going to take it back.
Ahead ==
  /\ live[Db].s = "head" /\ Installed("new")
  /\ ux \in {"migrated", "swapping", "applied"} => ~migrated
  /\ ux \notin {"migrating", "restoring"} /\ at = "idle" /\ journal.phase \notin Destructive

\* A rollback brings back the schema of the old code.
Checkpoints ==
  ~forced =>
    /\ (\A b \in Known(UpdateKey) : b.parts[Db].s = "old") \/ Ahead
    /\ job.by = "update" => Seen
    /\ (ux = "restoring" /\ at \in Taken) \/ Ended => staged[Db].s = "old"

\* The inductive invariant.
UpdateInv ==
  /\ UpdateTyped /\ Alive /\ HasDatabase /\ Called /\ Told /\ Checkpointed /\ Keyed /\ InPlace
  /\ Migrated /\ Journaled /\ Matched /\ Checkpoints

\* Only the update's own timeout moves a recovery that is at work.
LEMMA UpdateWaits ==
  ASSUME UpdateStep, Called
  PROVE  /\ proc = "up" /\ (at # "idle" => at' = "idle" /\ ux' = "idle")
         /\ ux' = "restoring" => at' = "requested" /\ migrated'
         /\ ux = "checkpointing" => job' = NoJob
         /\ ux' = "checkpointing" => at' = "idle" /\ job'.by = "update" /\ job'.at # "idle"
         /\ ux' # "idle" => swept'
         /\ ux' \in Working \cup {"draining", "restoring"} => ulock' = Run
<1> USE DEF Working
<1>1. CASE TimeoutUpdate
  BY <1>1 DEF TimeoutUpdate, CancelledJob, Called
<1>2. CASE SweepUpdate
  BY <1>2 DEF SweepUpdate, Called
<1>3. CASE StageUpdate \/ CancelUpdate \/ BeginApply
  BY <1>3 DEF StageUpdate, CancelUpdate, BeginApply, MayCall, Blocked, Called, StartBackup, NoJob
<1>4. CASE EndUpdateCheckpoint \/ TakeUpdateLock \/ DrainDatabase \/ BeginFileSwap \/ CommitUpdate
           \/ ArchiveUpdate \/ EndUpdateRestore \/ SwapFile \/ FilesSwapped
  BY <1>4 DEF EndUpdateCheckpoint, TakeUpdateLock, DrainDatabase, GiveUp, BeginFileSwap, CommitUpdate,
     ArchiveUpdate, EndUpdateRestore, SwapFile, FilesSwapped, Called
<1>5. CASE BeginMigration \/ EndMigration \/ SwapFails \/ VerifyUpdate
  <2>1. Restore => (at = "idle" /\ ux' = "restoring" /\ at' = "requested" /\ migrated') \/ ux' = "idle"
    BY DEF Restore, RequestRestore
  <2> QED BY <1>5, <2>1 DEF BeginMigration, EndMigration, SwapFails, VerifyUpdate, Called
<1> QED BY <1>1, <1>2, <1>3, <1>4, <1>5 DEF UpdateStep, ApplyStep

\* Only the update asks the recovery engine, and it waits for the answer.
LEMMA CalledStep ==
  ASSUME UpdateTyped, Alive, Called, [UpdateNext]_updateVars, Alone
  PROVE  Called'
<1> USE BackupAssumption, UpdateAssumption DEF UpdateTyped
<1>0. UpdateKey # NoKey /\ ujournal \in UJournal
  BY DEF UpdateType
<1>1. CASE OtherStep /\ UNCHANGED update
  BY <1>1, OtherControl, OtherBackups DEF Called, Alone, Run
<1>2. CASE UpdateDown
  <2>1. ux' = "idle" /\ at' = "idle" /\ job' = NoJob
    BY <1>2 DEF UpdateDown, Crash, Stop, Down
  <2> QED
    BY <1>0, <1>2, <2>1 DEF Called, NoJob, Working
<1>3. ASSUME UpdateStep PROVE Called'
  <2>1. Effect /\ crashes' = crashes /\ journal' = journal /\ proc' = proc
    BY <1>0, <1>3, EffectOfUpdate DEF Effect
  <2>2. ~(proc' = "up" /\ at' # "idle" /\ ux' # "restoring")
    BY <1>3, <2>1, UpdateWaits DEF Effect, RequestRestore
  <2>3. proc' = "up" /\ at' # "idle" => by' = "update"
    BY <1>3, <2>1, UpdateWaits DEF Effect, RequestRestore, Called
  <2>4. /\ job'.by = "update" => ux' = "checkpointing" /\ job'.at # "idle"
        /\ job'.key = UpdateKey <=> job'.by = "update"
    <3>1. NoJob.by = "user" /\ NoJob.key = NoKey
      BY DEF NoJob
    <3>2. CASE UNCHANGED backups
      BY <1>3, <3>1, <3>2, UpdateWaits DEF Called
    <3>3. CASE StartBackup("update", UpdateKey) /\ ux' = "checkpointing"
      BY <3>3 DEF StartBackup, NoJob
    <3>4. CASE job' = NoJob
      BY <1>0, <3>1, <3>4
    <3> QED BY <2>1, <3>2, <3>3, <3>4 DEF Effect, CancelledJob
  <2> QED BY <1>3, <2>1, <2>2, <2>3, <2>4, UpdateWaits DEF Called, Run
<1> QED BY <1>1, <1>2, <1>3, UpdateSteps

\* Two conjuncts of the invariant of Recovery hold beside an update as well.
LEMMA AliveWithUpdate ==
  ASSUME UpdateTyped, Alive, Called, [UpdateNext]_updateVars
  PROVE  Alive'
<1> USE DEF UpdateTyped
<1>1. CASE UpdateStep
  <2>1. Effect /\ proc = "up"
    BY <1>1, EffectOfUpdate, UpdateWaits DEF UpdateType
  <2> QED BY <2>1 DEF Effect, Alive
<1> QED BY <1>1, UpdateSteps, OtherIsRecovery, AliveStep, TypeParts

LEMMA HasDatabaseWithUpdate ==
  ASSUME UpdateTyped, HasDatabase, Called, [UpdateNext]_updateVars
  PROVE  HasDatabase'
<1> USE DEF UpdateTyped
<1>1. CASE UpdateStep
  <2>1. Effect /\ staged' = staged /\ at' \in {at, "requested", "idle"}
    BY <1>1, EffectOfUpdate DEF Effect, RequestRestore, UpdateType
  <2>2. at' \notin Preparing \cup Reverse => staged'[Db] # Absent
    BY <2>1 DEF HasDatabase, Preparing
  <2>3. CASE UNCHANGED backups
    BY <2>2, <2>3 DEF HasDatabase
  <2>4. CASE StartBackup("update", UpdateKey)
    BY <2>2, <2>4 DEF HasDatabase, StartBackup, NoJob
  <2>5. CASE job' = NoJob /\ UNCHANGED <<store, made>>
    BY <2>2, <2>5 DEF HasDatabase, NoJob
  <2>6. CASE CancelledJob
    <3>1. \/ store' = store
          \/ job.at = "scanned" /\ store' = store \cup {Archived}
      BY <2>6 DEF CancelledJob
    <3>2. Archived.parts[Db] = job.seen[Db]
      BY Contents DEF Archived, Packed
    <3> QED BY <2>2, <2>6, <3>1, <3>2 DEF HasDatabase, CancelledJob, NoJob
  <2> QED BY <2>1, <2>3, <2>4, <2>5, <2>6 DEF Effect
<1> QED BY <1>1, UpdateSteps, OtherIsRecovery, HasDatabaseStep, TypeParts

\* However a step comes about, it moves the backups as one of their own steps.
LEMMA MovesOfBackups ==
  ASSUME UpdateTyped, [UpdateNext]_updateVars
  PROVE  BackupMove
<1>1. CASE UNCHANGED backups
  BY <1>1 DEF BackupMove
<1> QED BY <1>1, UpdateSteps, OtherBackups, UpdateBackups DEF UpdateTyped

\* The journal is written where apply moves on.
LEMMA ToldStep ==
  ASSUME UpdateTyped, Called, Told, [UpdateNext]_updateVars
  PROVE  Told'
<1>0. ujournal \in UJournal
  BY DEF UpdateTyped, UpdateType
<1>1. CASE UNCHANGED update \/ UpdateDown
  BY <1>1 DEF Told, UpdateDown
<1>2. CASE StageUpdate \/ CancelUpdate \/ TimeoutUpdate \/ SweepUpdate
  BY <1>2 DEF StageUpdate, CancelUpdate, TimeoutUpdate, SweepUpdate, MayCall, Told, Called
<1>3. CASE BeginApply \/ EndUpdateCheckpoint
  BY <1>0, <1>3 DEF BeginApply, EndUpdateCheckpoint, MayCall, RecordCheckpoint, UJournal, Told
<1>4. CASE TakeUpdateLock \/ DrainDatabase
  BY <1>0, <1>4 DEF TakeUpdateLock, DrainDatabase, GiveUp, Record, UJournal, Told
<1>5. CASE BeginMigration \/ EndMigration
  BY <1>0, <1>5, RestoreEffect DEF BeginMigration, EndMigration, Record, UJournal, Told
<1>6. CASE SwapFails \/ VerifyUpdate
  BY <1>0, <1>6, RestoreEffect DEF SwapFails, VerifyUpdate, Record, UJournal, Told
<1>7. CASE BeginFileSwap \/ SwapFile \/ FilesSwapped
  BY <1>0, <1>7 DEF BeginFileSwap, SwapFile, FilesSwapped, UJournal, Told
<1>8. CASE CommitUpdate \/ ArchiveUpdate \/ EndUpdateRestore
  BY <1>0, <1>8 DEF CommitUpdate, ArchiveUpdate, EndUpdateRestore, Record, UJournal, Told
<1> QED BY <1>1, <1>2, <1>3, <1>4, <1>5, <1>6, <1>7, <1>8, UpdateSteps DEF UpdateStep, ApplyStep

\* Between the checkpoint and the end of apply the checkpoint is the same.
LEMMA CheckpointedStep ==
  ASSUME UpdateTyped, Alive, Called, Checkpointed, Keyed, [UpdateNext]_updateVars, Alone
  PROVE  Checkpointed'
<1> USE BackupAssumption, UpdateAssumption DEF UpdateTyped
<1>0. ujournal \in UJournal /\ ujournal.checkpoint \in Nat
  BY DEF UpdateType, UJournal
<1>1. ASSUME Settled(ujournal.checkpoint), ujournal'.checkpoint = ujournal.checkpoint
      PROVE  Settled(ujournal.checkpoint)'
  BY <1>0, <1>1, MovesOfBackups, SettledStep DEF Settled, Artifacts
<1>2. CASE OtherStep /\ UNCHANGED update
  BY <1>1, <1>2, OtherControl DEF Checkpointed, Alone
<1>3. CASE UpdateDown \/ UNCHANGED updateVars
  <2>1. CASE UpdateDown
    BY <2>1 DEF UpdateDown, Checkpointed
  <2>2. CASE UNCHANGED updateVars
    BY <1>1, <2>2 DEF updateVars, restoreVars, Checkpointed
  <2> QED BY <1>3, <2>1, <2>2
<1>4. CASE BeginApply
  <2>1. CASE ux' \in {"idle", "checkpointing"}
    BY <2>1 DEF Checkpointed
  <2>2. CASE \E b \in Known(UpdateKey) :
               ux' = "checkpointed" /\ RecordCheckpoint(b.id) /\ UNCHANGED backups
    <3>1. PICK b \in Known(UpdateKey) :
            ux' = "checkpointed" /\ RecordCheckpoint(b.id) /\ UNCHANGED backups
      BY <2>2
    <3>2. b \in store /\ b.key = UpdateKey /\ UpdateKey # NoKey
      BY DEF Known
    <3>3. \A c \in Artifacts(b.id) : c = b
      BY <3>2 DEF Artifacts, BackupType
    <3>4. b.id <= made /\ (job.at \in Packing => job.id # b.id)
      BY <3>2 DEF Ids, Keyed, Artifacts, Packing
    <3>5. ujournal'.checkpoint = b.id
      BY <1>0, <3>1 DEF RecordCheckpoint, UJournal
    <3> QED BY <3>1, <3>2, <3>3, <3>4, <3>5 DEF Checkpointed, Settled, Artifacts
  <2> QED BY <1>4, <2>1, <2>2 DEF BeginApply, MayCall
<1>5. CASE EndUpdateCheckpoint
  <2>1. CASE ux' = "idle"
    BY <2>1 DEF Checkpointed
  <2>2. CASE ux' # "idle"
    <3>1. /\ job.at = "finished" /\ ujournal'.checkpoint = job.id /\ job' = NoJob
          /\ UNCHANGED <<store, made>> /\ job.key = UpdateKey /\ ux' = "checkpointed"
      BY <1>0, <1>5, <2>2 DEF EndUpdateCheckpoint, RecordCheckpoint, UJournal, Called
    <3> QED BY <3>1 DEF Checkpointed, Settled, Artifacts, Ids, Keyed, NoJob, Packing
  <2> QED BY <2>1, <2>2
<1>6. CASE StageUpdate \/ CancelUpdate \/ TimeoutUpdate \/ SweepUpdate
  BY <1>6 DEF StageUpdate, CancelUpdate, TimeoutUpdate, SweepUpdate, MayCall, Checkpointed, Called
<1>7. ASSUME TakeUpdateLock \/ DrainDatabase \/ BeginFileSwap \/ SwapFile \/ FilesSwapped
              \/ CommitUpdate \/ ArchiveUpdate \/ EndUpdateRestore
      PROVE  Checkpointed'
  <2>1. \/ ux' = "idle"
        \/ /\ ujournal'.checkpoint = ujournal.checkpoint /\ ux \notin {"idle", "checkpointing"}
           /\ ux' # "restoring"
    BY <1>0, <1>7 DEF TakeUpdateLock, DrainDatabase, GiveUp, Record, BeginFileSwap, SwapFile,
       FilesSwapped, CommitUpdate, ArchiveUpdate, EndUpdateRestore, UJournal
  <2> QED BY <1>1, <2>1 DEF Checkpointed
<1>8. ASSUME BeginMigration \/ EndMigration \/ SwapFails \/ VerifyUpdate PROVE Checkpointed'
  <2>1. \/ ux' = "idle"
        \/ /\ ujournal'.checkpoint = ujournal.checkpoint /\ ux \notin {"idle", "checkpointing"}
           /\ ux' = "restoring" => want' = ujournal.checkpoint
    BY <1>0, <1>8, RestoreEffect DEF BeginMigration, EndMigration, SwapFails, VerifyUpdate, Record,
       RequestRestore, UJournal
  <2> QED BY <1>1, <2>1 DEF Checkpointed
<1> QED BY <1>2, <1>3, <1>4, <1>5, <1>6, <1>7, <1>8, UpdateSteps DEF UpdateStep, ApplyStep

\* A recovery that ends well leaves the database of the backup.
LEMMA InPlaceStep ==
  ASSUME UpdateTyped, Alive, HasDatabase, Called, InPlace, [UpdateNext]_updateVars, Alone
  PROVE  InPlace'
<1> USE DEF UpdateTyped
<1>1. CASE OtherStep /\ UNCHANGED update
  <2>1. /\ before'.version <= version'
        /\ at' \in Installing => Placed'
    BY <1>1, OtherData DEF InPlace
  <2>2. ASSUME Ended' PROVE Placed' /\ journal'.phase = "NONE"
    <3>1. \/ at = "committing" /\ journal'.phase = "NONE"
          \/ /\ at = "idle" /\ result = "restored"
             /\ journal.phase = "NONE" => journal'.phase = "NONE"
      BY <1>1, <2>2, OtherControl DEF Ended, Alone
    <3>2. proc = "up" /\ ux = "restoring"
      BY <1>1, <2>2 DEF Ended, Called
    <3>3. Placed /\ journal'.phase = "NONE"
      BY <3>1, <3>2 DEF InPlace, Installing, Ended
    <3> QED BY <1>1, <3>1, <3>2, <3>3, OtherData DEF InPlace
  <2> QED BY <2>1, <2>2 DEF InPlace
<1>2. CASE UpdateDown
  BY <1>2 DEF UpdateDown, Crash, Stop, Down, InPlace, Ended, Installing
<1>3. CASE UpdateStep
  <2>1. UNCHANGED <<version, before>> /\ at' \in {at, "requested", "idle"}
    BY <1>3, EffectOfUpdate DEF UpdateType, Effect, RequestRestore
  <2> QED BY <1>3, <2>1, UpdateWaits DEF InPlace, Ended, Installing
<1> QED BY <1>1, <1>2, <1>3, UpdateSteps

\* Nothing else touches the database between the quiescence and the commit.
LEMMA LiveStays ==
  ASSUME UpdateTyped, Alive, HasDatabase, Called, InPlace, OtherStep, Alone,
         at = "idle", live[Db].s \notin {"none", "empty"}
  PROVE  live'[Db].s = live[Db].s
BY OtherData DEF UpdateTyped, InPlace

\* Schema and files advance as apply does.
LEMMA MigratedStep ==
  ASSUME UpdateTyped, Alive, HasDatabase, Called, InPlace, Migrated, [UpdateNext]_updateVars, Alone
  PROVE  Migrated'
<1> USE DEF UpdateTyped
<1>0. /\ live \in [Part -> Content] /\ live[Db] \in Content /\ Db \in Part
      /\ code \in [File -> {"old", "new"}]
  BY Contents DEF DataType, UpdateType
<1>1. CASE OtherStep /\ UNCHANGED update
  <2>1. ux \in {"migrating", "migrated", "swapping", "verified", "committed"} =>
          live'[Db].s = live[Db].s
    BY <1>1, LiveStays DEF Called, Migrated
  <2> QED BY <1>1, <2>1 DEF Migrated, Installed
<1>2. CASE UpdateDown
  BY <1>2 DEF UpdateDown, Migrated
<1>3. CASE StageUpdate \/ CancelUpdate \/ TimeoutUpdate \/ SweepUpdate \/ BeginApply
  BY <1>3 DEF StageUpdate, CancelUpdate, TimeoutUpdate, SweepUpdate, BeginApply, MayCall, Migrated,
     Called
<1>4. CASE EndUpdateCheckpoint \/ TakeUpdateLock \/ DrainDatabase \/ ArchiveUpdate \/ EndUpdateRestore
  BY <1>4 DEF EndUpdateCheckpoint, TakeUpdateLock, DrainDatabase, GiveUp, ArchiveUpdate,
     EndUpdateRestore, Migrated
<1>5. CASE BeginMigration \/ EndMigration
  <2>1. Restore => ux' \in {"idle", "restoring"}
    BY DEF Restore
  <2>2. \/ ux' = "migrating" /\ live' = [live EXCEPT ![Db].s = "torn"]
        \/ ux' = "migrated" /\ live'[Db].s = "head"
        \/ ux' \in {"idle", "restoring"}
    BY <1>0, <1>5, <2>1 DEF BeginMigration, EndMigration, Complete, Upgraded, Migrated, Content
  <2> QED BY <1>0, <2>2 DEF Migrated, Content
<1>6. CASE BeginFileSwap \/ SwapFile \/ FilesSwapped
  BY <1>0, <1>6 DEF BeginFileSwap, SwapFile, FilesSwapped, restoreVars, Migrated, Installed
<1>7. CASE SwapFails \/ VerifyUpdate
  <2>1. Restore => ux' \in {"idle", "restoring"}
    BY DEF Restore
  <2> QED BY <1>7, <2>1 DEF SwapFails, VerifyUpdate, Migrated, Installed
<1>8. CASE CommitUpdate
  BY <1>8 DEF CommitUpdate, restoreVars, Migrated, Installed
<1> QED BY <1>1, <1>2, <1>3, <1>4, <1>5, <1>6, <1>7, <1>8, UpdateSteps DEF UpdateStep, ApplyStep

\* Passing over an unfinished journal is remembered.
LEMMA PassedOver ==
  ASSUME PassOver, ~forced'
  PROVE  ~forced /\ ujournal.phase \notin Unfinished /\ ~ujournal.applied
BY DEF PassOver

\* What happens to the journal and the lock of the update, action by action.
LEMMA JournaledStep ==
  ASSUME UpdateTyped, Alive, Called, Told, Journaled, InPlace, [UpdateNext]_updateVars, Alone
  PROVE  Journaled'
<1> USE DEF UpdateTyped
<1> SUFFICES ASSUME ~forced'
             PROVE  (/\ ujournal.phase \in Unfinished => ulock # 0
                     /\ ujournal.applied =>
                          ujournal.phase \in {"FILES_SWAPPED", "VERIFIED", "COMMITTED", "ROLLING_BACK",
                                             "ROLLED_BACK", "FAILED_NEEDS_OPERATOR"}
                     /\ ux = "checkpointing" => ujournal.phase \notin Unfinished /\ ~ujournal.applied
                     /\ journal.phase \in Destructive \/ at # "idle" =>
                          ujournal.phase \in {"ROLLING_BACK", "FAILED_NEEDS_OPERATOR"})'
  BY DEF Journaled
<1> DEFINE Goal == Journaled'
<1>0. ujournal \in UJournal /\ Run # 0 /\ ulock \in Nat
  BY DEF UpdateType, Run, ControlType
<1>1. CASE OtherStep /\ UNCHANGED update
  BY <1>1, OtherControl DEF Journaled, Alone
<1>2. CASE UpdateDown
  <2>1. at' = "idle" /\ journal' = journal
    BY <1>2 DEF UpdateDown, Crash, Stop, Down
  <2>2. ~forced
    BY <1>2 DEF UpdateDown, Crash, Stop
  <2> QED BY <1>2, <2>1, <2>2 DEF UpdateDown, Journaled
<1>3. ASSUME UpdateStep
      PROVE  ~forced /\ journal' = journal
  <2>1. Effect
    BY <1>0, <1>3, EffectOfUpdate
  <2>2. journal' = journal
    BY <2>1 DEF Effect
  <2>3. ~forced
    BY <2>1 DEF Effect
  <2> QED BY <2>2, <2>3
<1>4. CASE StageUpdate \/ CancelUpdate
  <2>1. /\ ujournal.phase \notin Unfinished /\ ux' = ux /\ ux = "idle"
        /\ ujournal'.phase \in {"STAGED", "NONE"} /\ ~ujournal'.applied /\ UNCHANGED <<at, journal>>
    BY <1>4, PassedOver DEF StageUpdate, CancelUpdate, MayCall, NoUpdate
  <2> QED BY <1>3, <1>4, <2>1 DEF UpdateStep, Journaled, Unfinished, Mutated
<1>5. CASE BeginApply
  <2>1. ujournal.phase \notin Unfinished /\ ~ujournal.applied /\ UNCHANGED <<at, journal>>
    BY <1>5, PassedOver DEF BeginApply
  <2>2. \/ ujournal' = ujournal
        \/ /\ ujournal'.phase \in {"CHECKPOINT_CREATED", "FAILED"}
           /\ ujournal'.applied = ujournal.applied
    BY <1>0, <1>5 DEF BeginApply, Record, RecordCheckpoint, UJournal
  <2> QED BY <1>3, <1>5, <2>1, <2>2 DEF UpdateStep, Journaled, Unfinished, Mutated
<1>6. CASE EndUpdateCheckpoint \/ TakeUpdateLock \/ DrainDatabase
  <2>1. /\ ujournal'.applied = ujournal.applied /\ UNCHANGED <<at, journal>>
        /\ \/ ujournal'.phase \in {"CHECKPOINT_CREATED", "FAILED"} /\ ux' # "checkpointing"
           \/ ujournal'.phase = "QUIESCED" /\ ux' = "quiesced" /\ ulock' = Run
    BY <1>0, <1>6 DEF EndUpdateCheckpoint, TakeUpdateLock, DrainDatabase, GiveUp, Record,
       RecordCheckpoint, restoreVars, UJournal, Told, Called
  <2>2. ~ujournal.applied /\ ujournal.phase \notin {"ROLLING_BACK", "FAILED_NEEDS_OPERATOR"}
    BY <1>3, <1>6 DEF UpdateStep, ApplyStep, EndUpdateCheckpoint, TakeUpdateLock, DrainDatabase, Told,
       Journaled, Unfinished, Mutated
  <2> QED BY <1>0, <1>3, <1>6, <2>1, <2>2 DEF UpdateStep, ApplyStep, Journaled, Unfinished, Mutated
<1>7. CASE BeginMigration \/ EndMigration \/ SwapFails \/ VerifyUpdate
  <2>1. /\ ux \in Working /\ ulock' = ulock /\ journal' = journal
        /\ \/ /\ ujournal'.phase \in {"ROLLING_BACK", "FAILED_NEEDS_OPERATOR"}
              /\ ux' \in {"idle", "restoring"}
           \/ /\ at' = at /\ ujournal'.applied = ujournal.applied /\ ux' \in Working
              /\ \/ ujournal'.phase = ujournal.phase
                 \/ ujournal.phase = "QUIESCED" /\ ujournal'.phase = "SCHEMA_MIGRATED"
                 \/ ujournal.phase = "FILES_SWAPPED" /\ ujournal'.phase = "VERIFIED"
    BY <1>0, <1>7, RestoreEffect DEF BeginMigration, EndMigration, SwapFails, VerifyUpdate, Record,
       UJournal, Told, Working
  <2>2. ulock' # 0
    BY <1>0, <2>1 DEF Called
  <2> QED BY <1>3, <1>7, <2>1, <2>2 DEF UpdateStep, ApplyStep, Journaled, Unfinished, Mutated, Working
<1>8. CASE BeginFileSwap \/ SwapFile \/ CommitUpdate \/ TimeoutUpdate
  <2>1. /\ ulock' = ulock /\ journal' = journal /\ at' \in {at, "idle"} /\ ux' # "checkpointing"
        /\ \/ ujournal' = ujournal
           \/ /\ ujournal.phase = "VERIFIED" /\ ujournal'.phase = "COMMITTED"
              /\ ujournal'.applied = ujournal.applied /\ at' = at
    BY <1>0, <1>8 DEF BeginFileSwap, SwapFile, CommitUpdate, TimeoutUpdate, Record,
       restoreVars, UJournal, Told
  <2> QED BY <1>3, <1>8, <2>1 DEF UpdateStep, ApplyStep, Journaled, Unfinished, Mutated
<1>9. CASE FilesSwapped
  <2>1. /\ ulock' = ulock /\ UNCHANGED <<journal, at>> /\ ux' = "applied"
        /\ ujournal.phase = "SCHEMA_MIGRATED" /\ ujournal'.phase = "FILES_SWAPPED"
    BY <1>0, <1>9 DEF FilesSwapped, restoreVars, UJournal, Told
  <2> QED BY <1>3, <1>9, <2>1 DEF UpdateStep, Journaled, Unfinished, Mutated
<1>10. CASE ArchiveUpdate \/ SweepUpdate
  <2>1. UNCHANGED <<journal, at>> /\ ux' \in {ux, "idle"}
    BY <1>10 DEF ArchiveUpdate, SweepUpdate, restoreVars
  <2>2. (ujournal'.phase = "NONE" /\ ~ujournal'.applied) \/ UNCHANGED <<ujournal, ulock>>
    BY <1>10 DEF ArchiveUpdate, SweepUpdate, NoUpdate
  <2>3. ujournal' # ujournal => ujournal.phase \notin {"ROLLING_BACK", "FAILED_NEEDS_OPERATOR"}
    BY <1>10 DEF ArchiveUpdate, SweepUpdate, Told, Purged, Completed, Mutated
  <2> QED BY <1>3, <1>10, <2>1, <2>2, <2>3 DEF UpdateStep, ApplyStep, Journaled, Unfinished, Mutated
<1>11. CASE EndUpdateRestore
  <2>1. /\ ux = "restoring" /\ at = "idle" /\ UNCHANGED <<journal, at>> /\ ux' = "idle"
        /\ ujournal'.applied = ujournal.applied
        /\ \/ ujournal'.phase = "ROLLED_BACK" /\ result = "restored"
           \/ ujournal'.phase = "FAILED_NEEDS_OPERATOR" /\ ulock' = ulock
    BY <1>0, <1>11 DEF EndUpdateRestore, Record, UJournal
  <2>2. ulock # 0
    BY <1>0, <2>1 DEF Called
  <2>3. result = "restored" => journal.phase = "NONE"
    BY <2>1 DEF InPlace, Ended
  <2> QED BY <1>3, <1>11, <2>1, <2>2, <2>3 DEF UpdateStep, ApplyStep, Journaled, Unfinished, Mutated,
      Destructive
<1> QED BY <1>1, <1>2, <1>4, <1>5, <1>6, <1>7, <1>8, <1>9, <1>10, <1>11, UpdateSteps
       DEF UpdateStep, ApplyStep

\* Files that are taken back are of the edition that their copies hold.
LEMMA TakenBack ==
  ASSUME NEW files \in SUBSET File, NEW edition \in {"old", "new"}, TakeBack(files),
         \A f \in File : IF f \in files THEN copy[f] = edition ELSE code[f] = edition
  PROVE  Installed(edition)'
BY DEF TakeBack, Installed

\* Where the journal tells of nothing unfinished, or of a whole swap, no recovery is at work.
LEMMA Quiet ==
  ASSUME Journaled, Matched, ~forced,
         ujournal.phase \notin {"ROLLING_BACK", "FAILED_NEEDS_OPERATOR"}
  PROVE  at = "idle" /\ journal.phase \notin Destructive
BY DEF Journaled

\* Code, copies and schema, action by action.
LEMMA MatchedStep ==
  ASSUME UpdateTyped, Alive, HasDatabase, Called, Told, InPlace, Migrated, Journaled, Matched,
         Checkpoints, [UpdateNext]_updateVars, Alone
  PROVE  Matched'
<1> USE DEF UpdateTyped
<1> SUFFICES ASSUME ~forced' PROVE Matched'
  BY DEF Matched
<1>0. /\ ujournal \in UJournal /\ live \in [Part -> Content] /\ live[Db] \in Content /\ Db \in Part
      /\ code \in [File -> {"old", "new"}] /\ copy \in [File -> {"none", "old", "new"}]
      /\ migrated \in BOOLEAN /\ left \subseteq File
  BY Contents DEF DataType, UpdateType
<1>1. CASE OtherStep /\ UNCHANGED update
  <2>1. ~forced
    BY <1>1, OtherControl DEF Alone
  <2>2. ASSUME live[Db].s \in {"old", "head"},
               ujournal.phase \notin {"ROLLING_BACK", "FAILED_NEEDS_OPERATOR"}
        PROVE  live'[Db].s = live[Db].s
    BY <1>1, <2>1, <2>2, Quiet, LiveStays
  <2>3. Coherent => live[Db].s \in {"old", "head"}
    BY DEF Coherent
  <2>4. ux = "quiesced" => ujournal.phase = "QUIESCED"
    BY DEF Told
  <2>5. ASSUME Coherent, ujournal.phase \notin {"ROLLING_BACK", "FAILED_NEEDS_OPERATOR"}
        PROVE  Coherent'
    BY <1>1, <2>2, <2>3, <2>5 DEF Coherent, Installed
  <2> QED BY <1>1, <2>1, <2>2, <2>4, <2>5 DEF Matched, Installed, Unfinished, Before
<1>2. CASE UpdateDown
  <2>1. UNCHANGED <<live, code, ujournal>> /\ ux' = "idle"
    BY <1>2 DEF UpdateDown, Crash, Stop, Down
  <2>2. ~forced
    BY <1>2 DEF UpdateDown, Crash, Stop
  <2> QED BY <2>1, <2>2 DEF Matched, Coherent, Installed
<1>3. ASSUME UpdateStep PROVE ~forced
  <2>1. Effect
    BY <1>0, <1>3, EffectOfUpdate
  <2> QED BY <2>1 DEF Effect
<1>4. CASE StageUpdate \/ CancelUpdate \/ BeginApply
  <2>1. /\ UNCHANGED <<live, code>> /\ PassOver
        /\ \/ ujournal' = ujournal
           \/ ujournal'.phase \in {"STAGED", "NONE", "CHECKPOINT_CREATED", "FAILED"}
        /\ ux' \in {"idle", "checkpointing", "checkpointed"}
    <3>1. CASE StageUpdate \/ CancelUpdate
      BY <3>1 DEF StageUpdate, CancelUpdate, MayCall, NoUpdate
    <3>2. CASE BeginApply
      <4>1. UNCHANGED <<live, code>> /\ PassOver /\ ux = "idle"
        BY <3>2 DEF BeginApply, MayCall
      <4>2. \/ \E n : ux' = "checkpointed" /\ RecordCheckpoint(n)
            \/ ux' = "checkpointing" /\ UNCHANGED ujournal
            \/ Record("FAILED") /\ UNCHANGED ux
        BY <3>2 DEF BeginApply
      <4> QED BY <1>0, <4>1, <4>2 DEF Record, RecordCheckpoint, UJournal
    <3> QED BY <1>4, <3>1, <3>2
  <2>2. ~forced /\ ujournal.phase \notin Unfinished
    BY <2>1, PassedOver
  <2>3. Coherent' /\ ujournal'.phase \notin {"FILES_SWAPPED", "VERIFIED"}
    BY <2>1, <2>2 DEF Matched, Coherent, Installed, Unfinished, Mutated
  <2> QED BY <2>1, <2>3 DEF Matched
<1>5. CASE EndUpdateCheckpoint \/ TakeUpdateLock \/ DrainDatabase
  <2>1. /\ UNCHANGED <<live, code>>
        /\ ujournal'.phase \in {"CHECKPOINT_CREATED", "FAILED", "QUIESCED"}
        /\ ux' \in {"idle", "checkpointed", "draining", "quiesced"}
        /\ ux = "checkpointing" \/ ujournal.phase = "CHECKPOINT_CREATED"
    BY <1>0, <1>5 DEF EndUpdateCheckpoint, TakeUpdateLock, DrainDatabase, GiveUp, Record,
       RecordCheckpoint, restoreVars, UJournal, Told
  <2>2. ~forced /\ Coherent
    BY <1>3, <1>5, <2>1 DEF UpdateStep, ApplyStep, Matched, Journaled, Unfinished, Mutated
  <2>3. Coherent'
    BY <2>1, <2>2 DEF Coherent, Installed
  <2> QED BY <2>1, <2>3 DEF Matched
<1>6. CASE BeginMigration
  <2>1. ~forced /\ Coherent /\ ux = "quiesced" /\ ujournal.phase = "QUIESCED" /\ code' = code
    BY <1>3, <1>6 DEF UpdateStep, ApplyStep, BeginMigration, Matched, Told
  <2>2. \/ /\ live[Db].s = "head" /\ migrated' = FALSE /\ ux' = "migrated"
           /\ ujournal'.phase = "SCHEMA_MIGRATED"
        \/ live[Db].s = "old" /\ ux' = "migrating" /\ ujournal' = ujournal
    BY <1>0, <1>6, <2>1 DEF BeginMigration, Migratable, Record, UJournal, Coherent
  <2> QED BY <2>1, <2>2 DEF Matched, Coherent, Installed, Before, Unfinished, Mutated
<1>7. CASE EndMigration
  <2>1. ~forced /\ Installed("old") /\ code' = code /\ migrated'
    BY <1>3, <1>7 DEF UpdateStep, ApplyStep, EndMigration, Matched
  <2>2. \/ ux' = "migrated" /\ ujournal'.phase = "SCHEMA_MIGRATED"
        \/ /\ ux' \in {"restoring", "idle"}
           /\ ujournal'.phase \in {"ROLLING_BACK", "FAILED_NEEDS_OPERATOR"}
    BY <1>0, <1>7, RestoreEffect DEF EndMigration, Record, UJournal
  <2> QED BY <2>1, <2>2 DEF Matched, Installed, Before, Unfinished, Mutated
<1>8. CASE BeginFileSwap
  BY <1>3, <1>8 DEF UpdateStep, ApplyStep, BeginFileSwap, restoreVars, Matched, Installed, Before, Told,
     Unfinished, Mutated
<1>9. CASE SwapFile
  BY <1>0, <1>3, <1>9 DEF UpdateStep, SwapFile, restoreVars, Matched, Before, Told, Unfinished, Mutated
<1>10. CASE FilesSwapped
  BY <1>0, <1>3, <1>10 DEF UpdateStep, FilesSwapped, restoreVars, UJournal, Matched, Before, Migrated,
     Installed, Unfinished, Mutated
<1>11. CASE SwapFails
  <2>1. /\ ux' \in {"idle", "restoring"} /\ (ux' = "restoring" => migrated)
        /\ ujournal'.phase \in {"ROLLING_BACK", "FAILED_NEEDS_OPERATOR"}
    BY <1>0, <1>11, RestoreEffect DEF SwapFails
  <2>2. Installed(Before)'
    <3>1. /\ TakeBack(File \ left)
          /\ \A f \in File : IF f \in File \ left THEN copy[f] = Before ELSE code[f] = Before
      BY <1>3, <1>11 DEF UpdateStep, SwapFails, Matched
    <3>2. Before \in {"old", "new"} /\ Before' = Before
      BY <1>11 DEF SwapFails, Before
    <3> QED BY <3>1, <3>2, TakenBack
  <2> QED BY <2>1, <2>2, <1>11 DEF SwapFails, Matched, Before, Unfinished
<1>12. CASE VerifyUpdate
  <2>1. CASE /\ live[Db].s = "head" /\ Record("VERIFIED") /\ ux' = "verified"
             /\ UNCHANGED <<coroutine, code, copy, migrated>>
    <3>1. ujournal'.phase = "VERIFIED" /\ live' = live /\ Installed("new")
      BY <1>0, <1>12, <2>1 DEF VerifyUpdate, Record, UJournal, Migrated
    <3> QED BY <2>1, <3>1 DEF Matched, Installed, Unfinished, Mutated
  <2>2. CASE TakeBack(File) /\ UNCHANGED migrated /\ Restore
    <3>1. /\ ux' \in {"idle", "restoring"} /\ (ux' = "restoring" => migrated)
          /\ ujournal'.phase \in {"ROLLING_BACK", "FAILED_NEEDS_OPERATOR"}
      BY <1>0, <2>2, RestoreEffect
    <3>2. Installed(Before)'
      <4>1. \A f \in File : IF f \in File THEN copy[f] = Before ELSE code[f] = Before
        BY <1>3, <1>12 DEF UpdateStep, ApplyStep, VerifyUpdate, Matched
      <4>2. Before \in {"old", "new"} /\ Before' = Before
        BY <2>2 DEF Before
      <4> QED BY <2>2, <4>1, <4>2, TakenBack
    <3> QED BY <2>2, <3>1, <3>2 DEF Matched, Before, Unfinished
  <2> QED BY <1>12, <2>1, <2>2 DEF VerifyUpdate
<1>13. CASE CommitUpdate \/ ArchiveUpdate
  <2>1. /\ UNCHANGED <<live, code>> /\ live[Db].s = "head" /\ Installed("new")
        /\ ujournal'.phase \in {"COMMITTED", "NONE"} /\ ux' \in {"committed", "idle"}
    BY <1>0, <1>13 DEF CommitUpdate, ArchiveUpdate, Record, NoUpdate, UJournal, restoreVars, Migrated
  <2> QED BY <2>1 DEF Matched, Coherent, Installed
<1>14. CASE EndUpdateRestore
  <2>1. /\ UNCHANGED <<live, code>> /\ ux' = "idle" /\ ux = "restoring" /\ at = "idle"
        /\ \/ result = "restored" /\ ujournal'.phase = "ROLLED_BACK"
           \/ ujournal'.phase = "FAILED_NEEDS_OPERATOR"
    BY <1>0, <1>14 DEF EndUpdateRestore, Record, UJournal
  <2>2. result = "restored" => live[Db].s = "old" /\ Installed("old")
    BY <1>3, <1>14, <2>1 DEF UpdateStep, ApplyStep, Ended, InPlace, Placed, Checkpoints, Matched
  <2> QED BY <2>1, <2>2 DEF Matched, Coherent, Installed, Unfinished
<1>15. CASE TimeoutUpdate
  <2>1. /\ code' = code /\ ujournal' = ujournal /\ ux' = "idle"
        /\ ux # "migrating" => live' = live
    BY <1>15 DEF TimeoutUpdate
  <2>2. ux = "migrating" => ujournal.phase = "QUIESCED"
    BY DEF Told
  <2> QED BY <1>3, <1>15, <2>1, <2>2 DEF UpdateStep, Matched, Coherent, Installed, Unfinished
<1>16. CASE SweepUpdate
  <2>1. UNCHANGED <<live, code>> /\ ux' = "idle" /\ ~forced
    BY <1>3, <1>16 DEF UpdateStep, SweepUpdate, restoreVars, Called
  <2>2. ujournal' = ujournal \/ (ujournal'.phase = "NONE" /\ (Purged \/ Completed))
    BY <1>16 DEF SweepUpdate, NoUpdate
  <2>3. Purged \/ Completed => Coherent
    BY <2>1 DEF Purged, Completed, Journaled, Matched, Coherent, Unfinished, Mutated
  <2> QED BY <2>1, <2>2, <2>3 DEF Matched, Coherent, Installed
<1> QED BY <1>1, <1>2, <1>4, <1>5, <1>6, <1>7, <1>8, <1>9, <1>10, <1>11, <1>12, <1>13, <1>14, <1>15,
          <1>16, UpdateSteps DEF UpdateStep, ApplyStep

\* An installation that is ahead stays so: nothing that fails makes it fall back.
LEMMA AheadStep ==
  ASSUME UpdateTyped, Alive, HasDatabase, Called, Told, InPlace, Migrated, Journaled, Matched,
         Ahead, [UpdateNext]_updateVars, Alone, ~forced'
  PROVE  Ahead'
<1> USE DEF UpdateTyped
<1>0. /\ ujournal \in UJournal /\ code \in [File -> {"old", "new"}] /\ left \subseteq File
      /\ copy \in [File -> {"none", "old", "new"}] /\ migrated \in BOOLEAN
  BY DEF UpdateType
<1>1. CASE OtherStep /\ UNCHANGED update
  <2>1. live'[Db].s = live[Db].s
    BY <1>1, LiveStays DEF Ahead
  <2> QED BY <1>1, <2>1, OtherControl DEF Ahead, Alone, Installed
<1>2. CASE UpdateDown
  BY <1>2 DEF UpdateDown, Crash, Stop, Down, Ahead, Installed
<1>3. ASSUME UpdateStep
      PROVE  ~forced /\ journal' = journal /\ (ux' # "restoring" => at' = "idle")
  <2>1. Effect
    BY <1>0, <1>3, EffectOfUpdate
  <2>2. journal' = journal
    BY <2>1 DEF Effect
  <2>3. ~forced
    BY <2>1 DEF Effect
  <2>4. ux' # "restoring" => at' = "idle"
    BY <2>1 DEF Effect, Ahead
  <2> QED BY <2>2, <2>3, <2>4
<1>4. ASSUME Restore, ~migrated' PROVE ux' = "idle"
  BY <1>4 DEF Restore
<1>5. CASE StageUpdate \/ CancelUpdate \/ BeginApply \/ TimeoutUpdate \/ SweepUpdate
  <2>1. /\ UNCHANGED <<live, code, migrated>>
        /\ ux' \in {ux, "idle", "checkpointing", "checkpointed"}
    BY <1>5 DEF StageUpdate, CancelUpdate, BeginApply, MayCall, TimeoutUpdate, SweepUpdate,
       restoreVars, Ahead
  <2> QED BY <1>3, <1>5, <2>1 DEF UpdateStep, Ahead, Installed
<1>6. CASE EndUpdateCheckpoint \/ TakeUpdateLock \/ DrainDatabase \/ CommitUpdate \/ ArchiveUpdate
           \/ EndUpdateRestore
  <2>1. /\ UNCHANGED <<live, code, migrated>>
        /\ ux' \in {"idle", "checkpointed", "draining", "quiesced", "committed"}
    BY <1>6 DEF EndUpdateCheckpoint, TakeUpdateLock, DrainDatabase, GiveUp, CommitUpdate, ArchiveUpdate,
       EndUpdateRestore, restoreVars
  <2> QED BY <1>3, <1>6, <2>1 DEF UpdateStep, ApplyStep, Ahead, Installed
<1>7. CASE BeginMigration \/ EndMigration
  <2>1. live' = live /\ code' = code /\ ux' = "migrated" /\ ~migrated'
    BY <1>7 DEF BeginMigration, EndMigration, Migratable, Ahead
  <2> QED BY <1>3, <1>7, <2>1 DEF UpdateStep, ApplyStep, Ahead, Installed
<1>8. CASE BeginFileSwap \/ SwapFile \/ FilesSwapped
  <2>1. /\ UNCHANGED <<live, migrated>> /\ ux \in {"migrated", "swapping"}
        /\ ux' \in {"swapping", "applied"}
    BY <1>8 DEF BeginFileSwap, SwapFile, FilesSwapped, restoreVars
  <2>2. Installed("new")'
    BY <1>0, <1>8 DEF BeginFileSwap, SwapFile, FilesSwapped, Ahead, Installed
  <2> QED BY <1>3, <1>8, <2>1, <2>2 DEF UpdateStep, ApplyStep, Ahead
<1>9. CASE SwapFails
  <2>1. live' = live /\ ux' = "idle"
    BY <1>4, <1>9 DEF SwapFails, Ahead
  <2>2. Installed("new")'
    <3>1. /\ TakeBack(File \ left)
          /\ \A f \in File : IF f \in File \ left THEN copy[f] = "new" ELSE code[f] = "new"
      BY <1>3, <1>9 DEF UpdateStep, SwapFails, Ahead, Matched, Before
    <3> QED BY <3>1, TakenBack
  <2> QED BY <1>3, <1>9, <2>1, <2>2 DEF UpdateStep, Ahead
<1>10. CASE VerifyUpdate
  <2>1. CASE ux' = "verified" /\ UNCHANGED <<coroutine, code, copy, migrated>>
    BY <1>3, <1>10, <2>1 DEF UpdateStep, ApplyStep, VerifyUpdate, Ahead, Installed
  <2>2. CASE TakeBack(File) /\ UNCHANGED migrated /\ Restore
    <3>1. live' = live /\ ux' = "idle"
      BY <1>4, <1>10, <2>2 DEF VerifyUpdate, Ahead
    <3>2. Installed("new")'
      <4>1. \A f \in File : IF f \in File THEN copy[f] = "new" ELSE code[f] = "new"
        BY <1>3, <1>10 DEF UpdateStep, ApplyStep, VerifyUpdate, Ahead, Matched, Before
      <4> QED BY <2>2, <4>1, TakenBack
    <3> QED BY <1>3, <1>10, <3>1, <3>2 DEF UpdateStep, ApplyStep, Ahead
  <2> QED BY <1>10, <2>1, <2>2 DEF VerifyUpdate
<1> QED BY <1>1, <1>2, <1>5, <1>6, <1>7, <1>8, <1>9, <1>10, UpdateSteps DEF UpdateStep, ApplyStep

\* A checkpoint is taken of code and schema that go together.
LEMMA CheckpointsStep ==
  ASSUME UpdateTyped, Alive, HasDatabase, Called, Told, Checkpointed, Keyed, InPlace, Migrated,
     Journaled,
         Matched, Checkpoints, [UpdateNext]_updateVars, Alone
  PROVE  Checkpoints'
<1> USE UpdateAssumption, BackupAssumption DEF UpdateTyped
<1> SUFFICES ASSUME ~forced' PROVE Checkpoints'
  BY DEF Checkpoints
<1>0. ujournal \in UJournal /\ UpdateKey # NoKey
  BY DEF UpdateType
<1>1. ~forced
  <2>1. OtherStep => ~forced
    BY OtherControl DEF Alone
  <2>2. UpdateDown => ~forced
    BY DEF UpdateDown, Crash, Stop
  <2>3. UpdateStep => ~forced
    BY <1>0, EffectOfUpdate DEF Effect
  <2> QED BY <2>1, <2>2, <2>3, UpdateSteps
<1>2. ux = "checkpointing" =>
        /\ Coherent /\ at = "idle" /\ journal.phase \notin Destructive
        /\ ujournal.phase \notin {"ROLLING_BACK", "FAILED_NEEDS_OPERATOR"}
  BY <1>1 DEF Journaled, Matched, Called, Unfinished
<1>3. (\A b \in Known(UpdateKey)' : b.parts[Db].s = "old") \/ Ahead
  <2>1. SUFFICES ASSUME ~Ahead, NEW b \in Known(UpdateKey)' PROVE b.parts[Db].s = "old"
    OBVIOUS
  <2>2. CASE b \in Known(UpdateKey)
    BY <1>1, <2>1, <2>2 DEF Checkpoints
  <2>3. CASE /\ job.at = "assembled" /\ job.key = UpdateKey
             /\ \E new \in Artifacts(job.id) : b.parts = new.parts
    <3>1. job.by = "update" /\ ux = "checkpointing"
      BY <2>3 DEF Called
    <3>2. b.parts[Db].s = live[Db].s
      BY <1>1, <2>3, <3>1 DEF Checkpoints, Seen
    <3>3. live[Db].s # "head"
      BY <1>2, <2>1, <3>1 DEF Ahead, Coherent
    <3> QED BY <1>2, <3>1, <3>2, <3>3 DEF Coherent
  <2> QED BY <2>2, <2>3, KnownStep, MovesOfBackups
<1>4. Ahead => Ahead'
  BY AheadStep
<1>5. job'.by = "update" => Seen'
  <2>1. CASE OtherStep /\ UNCHANGED update
    <3>1. SUFFICES ASSUME job'.by = "update" PROVE Seen'
      OBVIOUS
    <3>2. job.by = "update" /\ ux = "checkpointing" /\ Seen
      BY <1>1, <2>1, <3>1, OtherBackups DEF Called, Checkpoints
    <3>3. live[Db].s \in {"old", "head"} /\ at = "idle"
      BY <1>2, <3>2 DEF Coherent
    <3>4. live'[Db].s = live[Db].s /\ live[Db] # Absent
      BY <2>1, <3>3, LiveStays DEF Absent
    <3> QED BY <3>2, <3>4, MovesOfBackups, SchemaSeenStep
  <2>2. CASE UpdateDown
    BY <2>2 DEF UpdateDown, Crash, Stop, Down, NoJob
  <2>3. CASE UpdateStep
    <3>1. Effect
      BY <1>0, <2>3, EffectOfUpdate
    <3>2. CASE UNCHANGED backups
      BY <2>3, <3>2, UpdateWaits DEF Called, NoJob
    <3>3. CASE StartBackup("update", UpdateKey)
      BY <3>3 DEF StartBackup, NoJob, Seen
    <3>4. CASE job' = NoJob
      BY <3>4 DEF NoJob
    <3> QED BY <3>1, <3>2, <3>3, <3>4 DEF Effect, CancelledJob
  <2> QED BY <2>1, <2>2, <2>3, UpdateSteps
<1>6. ((ux = "restoring" /\ at \in Taken) \/ Ended)' => staged'[Db].s = "old"
  <2>1. CASE OtherStep /\ UNCHANGED update
    <3>1. SUFFICES ASSUME ((ux = "restoring" /\ at \in Taken) \/ Ended)' PROVE staged'[Db].s = "old"
      OBVIOUS
    <3>2. ux = "restoring"
      BY <2>1, <3>1 DEF Ended
    <3>3. CASE staged' = staged /\ (at' \in Taken => at \in Taken)
      <4>1. (ux = "restoring" /\ at \in Taken) \/ Ended
        BY <2>1, <3>1, <3>2, <3>3, OtherControl DEF Ended, Taken, Alone
      <4> QED BY <1>1, <3>3, <4>1 DEF Checkpoints
    <3>4. CASE \E b \in Artifacts(want) : staged' = b.parts
      <4>1. PICK b \in Artifacts(want) : staged' = b.parts
        BY <3>4
      <4>2. b \in Known(UpdateKey)
        BY <1>0, <3>2 DEF Checkpointed, Settled, Known, Artifacts
      <4>3. ~Ahead
        BY <3>2 DEF Ahead
      <4> QED BY <1>1, <4>1, <4>2, <4>3 DEF Checkpoints
    <3> QED BY <2>1, <3>3, <3>4, OtherStaged DEF Alone
  <2>2. CASE UpdateDown
    BY <2>2 DEF UpdateDown, Ended
  <2>3. CASE UpdateStep
    BY <2>3, UpdateWaits DEF Ended, Taken
  <2> QED BY <2>1, <2>2, <2>3, UpdateSteps
<1> QED BY <1>3, <1>4, <1>5, <1>6 DEF Checkpoints

-----------------------------------------------------------------------------
(* Updates: the theorems *)

\* The invariant is inductive under Alone.
LEMMA UpdateInvStep ==
  ASSUME UpdateInv, [UpdateNext]_updateVars, Alone
  PROVE  UpdateInv'
<1> USE DEF UpdateInv
<1>1. UpdateTyped' /\ Alive' /\ HasDatabase' /\ Called'
  BY UpdateTypedStep, AliveWithUpdate, HasDatabaseWithUpdate, CalledStep
<1>2. Told' /\ Checkpointed' /\ InPlace' /\ Migrated' /\ Journaled'
  BY ToldStep, CheckpointedStep, InPlaceStep, MigratedStep, JournaledStep
<1>3. Keyed'
  BY KeyedStep, MovesOfBackups DEF UpdateTyped
<1>4. Matched' /\ Checkpoints'
  BY MatchedStep, CheckpointsStep
<1> QED BY <1>1, <1>2, <1>3, <1>4

\* It holds at first, of an installation of the old edition.
LEMMA InitialUpdateInv == UpdateInit /\ live[Db].s = "old" => UpdateInv
<1> USE BackupAssumption, UpdateAssumption
<1> SUFFICES ASSUME UpdateInit, live[Db].s = "old" PROVE UpdateInv
  OBVIOUS
<1>1. UpdateTyped /\ RecoveryInv
  BY InitiallyTyped, InitialInv DEF UpdateInit
<1>2. /\ ux = "idle" /\ at = "idle" /\ job = NoJob /\ journal.phase = "NONE" /\ ujournal = NoUpdate
      /\ before.version = 0 /\ version = 1
      /\ \A b \in store : b.key = NoKey
  BY DEF UpdateInit, RecoveryInit, NoJournal
<1>3. NoJob.at = "idle" /\ NoJob.by = "user" /\ NoJob.key = NoKey /\ UpdateKey # NoKey
  BY DEF NoJob
<1>4. Called /\ Told /\ Checkpointed /\ Keyed /\ InPlace /\ Migrated
  BY <1>2, <1>3 DEF Called, Told, Checkpointed, Keyed, InPlace, Ended, Installing, Migrated, Working
<1>5. Journaled /\ Matched
  BY <1>2 DEF NoUpdate, Journaled, Matched, Coherent, Installed, UpdateInit, Unfinished, Mutated,
     Destructive
<1>6. Checkpoints
  BY <1>2, <1>3 DEF Checkpoints, Known, Ended
<1> QED BY <1>1, <1>4, <1>5, <1>6 DEF UpdateInv, RecoveryInv

\* It implies containment: Called gives the first half, Matched the second.
LEMMA Contained == UpdateInv => UpdateContained
<1> SUFFICES ASSUME UpdateInv PROVE UpdateContained
  OBVIOUS
<1>1. ux \in Working => ulock = Run
  BY DEF UpdateInv, Called
<1>2. ~forced /\ ~Coherent => ujournal.phase \in Unfinished /\ ulock # 0
  BY DEF UpdateInv, Journaled, Matched
<1> QED BY <1>1, <1>2 DEF UpdateContained, Working

\* The invariant holds while nobody else restores or backs up under the update's key.
THEOREM UpdateInvAlways ==
  UpdateSpec /\ live[Db].s = "old" /\ [][Alone]_updateVars => []UpdateInv
<1>1. UpdateInv /\ [UpdateNext]_updateVars /\ [Alone]_updateVars => UpdateInv'
  <2>1. UNCHANGED updateVars => UNCHANGED <<restores, job>>
    BY DEF updateVars, restoreVars
  <2>2. CASE UNCHANGED updateVars /\ UpdateInv
    <3>1. Alone
      BY <2>1, <2>2 DEF Alone, UpdateInv, Called
    <3> QED BY <2>2, <3>1, UpdateInvStep
  <2> QED BY <2>2, UpdateInvStep
<1>2. UpdateInit /\ live[Db].s = "old" => UpdateInv
  BY InitialUpdateInv
<1> QED BY <1>1, <1>2, PTL DEF UpdateSpec

\* Whatever fails, is cut off or crashes: code and schema go together, or the journal
\* tells that they do not and the lock of the update contains the instance.
THEOREM UpdateContainedAlways ==
  UpdateSpec /\ live[Db].s = "old" /\ [][Alone]_updateVars => []UpdateContained
BY UpdateInvAlways, Contained, PTL

\* Where apply is verified or waits for its rollback, only its own step to the
\* outcome records another phase.
LEMMA OnlyOutcomes ==
  ASSUME UpdateInv, [UpdateNext]_updateVars, ux \in {"verified", "restoring"},
         ujournal'.phase # ujournal.phase
  PROVE  CommitUpdate \/ EndUpdateRestore
<1>1. ux # "idle" /\ swept
  BY DEF UpdateInv, Called
<1>2. ~UNCHANGED update /\ ~UNCHANGED ujournal
  BY DEF update, ufiles
<1>3. ~UpdateDown /\ ~TimeoutUpdate /\ ~UNCHANGED updateVars
  BY <1>2 DEF UpdateDown, TimeoutUpdate, updateVars, update
<1>4. UpdateStep
  BY <1>2, <1>3, UpdateSteps
<1>5. ~(StageUpdate \/ CancelUpdate \/ BeginApply \/ SweepUpdate)
  BY <1>1 DEF StageUpdate, CancelUpdate, BeginApply, MayCall, SweepUpdate
<1>6. ~(SwapFile \/ SwapFails \/ FilesSwapped \/ EndUpdateCheckpoint \/ TakeUpdateLock \/ DrainDatabase)
  BY DEF SwapFile, SwapFails, FilesSwapped, EndUpdateCheckpoint, TakeUpdateLock, DrainDatabase
<1>7. ~(BeginMigration \/ EndMigration \/ BeginFileSwap \/ VerifyUpdate \/ ArchiveUpdate)
  BY DEF BeginMigration, EndMigration, BeginFileSwap, VerifyUpdate, ArchiveUpdate
<1> QED BY <1>3, <1>4, <1>5, <1>6, <1>7 DEF UpdateStep, ApplyStep

\* The step to an outcome finds what the invariant says.
LEMMA OutcomeStep ==
  ASSUME UpdateInv, [UpdateNext]_updateVars
  PROVE  /\ ux = "verified" /\ ujournal'.phase = "COMMITTED" =>
              Installed("new")' /\ live'[Db].s = "head"
         /\ ux = "restoring" /\ ujournal'.phase = "ROLLED_BACK" =>
              /\ want = ujournal.checkpoint /\ (~forced => Installed("old")')
              /\ live'[Db].s = staged[Db].s /\ Restored(Db, live'[Db])
<1>0. ujournal \in UJournal
  BY DEF UpdateInv, UpdateTyped, UpdateType
<1>1. ASSUME ux = "verified", ujournal'.phase = "COMMITTED"
      PROVE  Installed("new")' /\ live'[Db].s = "head"
  <2>1. CommitUpdate
    BY <1>1, OnlyOutcomes DEF UpdateInv, Told, EndUpdateRestore
  <2>2. UNCHANGED <<live, code>>
    BY <2>1 DEF CommitUpdate, restoreVars
  <2> QED BY <1>1, <2>2 DEF UpdateInv, Migrated, Installed
<1>2. ASSUME ux = "restoring", ujournal'.phase = "ROLLED_BACK"
      PROVE  /\ want = ujournal.checkpoint /\ (~forced => Installed("old")')
             /\ live'[Db].s = staged[Db].s /\ Restored(Db, live'[Db])
  <2>1. EndUpdateRestore
    BY <1>2, OnlyOutcomes DEF UpdateInv, Told, CommitUpdate
  <2>2. UNCHANGED <<live, code, staged, version>> /\ Ended
    BY <1>0, <1>2, <2>1 DEF EndUpdateRestore, Ended, Record, UJournal
  <2>3. Placed
    BY <2>2 DEF UpdateInv, InPlace
  <2>4. Restored(Db, live'[Db]) <=> Restored(Db, live[Db])
    BY <2>2
  <2> QED BY <1>2, <2>2, <2>3, <2>4 DEF UpdateInv, Checkpointed, Matched, Installed, Placed
<1> QED BY <1>1, <1>2

\* What apply records of its outcome is so: COMMITTED over new code and the migrated
\* schema, ROLLED_BACK over the database of the checkpoint, and over the old code unless
\* an operator applied over what a failed attempt had left.
THEOREM OutcomeIsCoherentAlways ==
  UpdateSpec /\ live[Db].s = "old" /\ [][Alone]_updateVars => OutcomeIsCoherent
<1>1. ASSUME UpdateInv, [UpdateNext]_updateVars
      PROVE  [/\ ux = "verified" /\ ujournal'.phase = "COMMITTED" =>
                   Installed("new")' /\ live'[Db].s = "head"
              /\ ux = "restoring" /\ ujournal'.phase = "ROLLED_BACK" =>
                   /\ want = ujournal.checkpoint /\ (~forced => Installed("old")')
                   /\ live'[Db].s = staged[Db].s /\ Restored(Db, live'[Db])]_updateVars
  BY <1>1, OutcomeStep
<1> QED BY <1>1, UpdateInvAlways, PTL DEF UpdateSpec, OutcomeIsCoherent

\* While apply is at work the process is up, has looked at the journal at boot and
\* holds the lock.
Locked ==
  /\ ux # "idle" => proc = "up" /\ swept
  /\ ux \in Working \cup {"draining", "restoring"} => ulock = Run

\* The other engines never take the process down.
LEMMA OtherStaysUp ==
  ASSUME OtherStep
  PROVE  crashes' = crashes /\ (proc = "up" => proc' = "up")
<1>1. CASE (BackupThread \/ BackupLoop) /\ UNCHANGED recovery
  BY <1>1 DEF BackupThread, BackupLoop, CaptureDatabase, ScanStorage, Assemble, FinishBackup,
     FailBackup, EndUserBackup, TimeoutBackup, WriteFile, UserBackup, DeleteBackup
<1>2. CASE RecoveryRun /\ ~(BackupLoop /\ UNCHANGED recovery)
  BY <1>2 DEF RecoveryRun, RestoreStep, SwapStep, RollbackStep, WriteDatabase, UserRestore,
     TakeLock, StartCheckpoint, EndCheckpoint, TimeoutRestore, Extract, ValidateStaged,
     EnterQuiescence, Disconnect, Reconnect, Commit, BeginSwap, SwapAway, SwapIn, StorageSwapped,
     DatabaseAway, DatabaseIn, DatabaseSwapped, ArchiveCommit, ReverseStorage, ReverseDatabase,
     CheckRollback, ArchiveRollback, DiskError, DeleteRecovery, Halt
<1>3. CASE Boot \/ UNCHANGED restoreVars
  BY <1>3 DEF Boot, restoreVars
<1> QED BY <1>1, <1>2, <1>3 DEF OtherStep

\* No step but its own releases the lock of an apply at work.
LEMMA LockedStep ==
  ASSUME UpdateTyped, Locked, [UpdateNext]_updateVars
  PROVE  Locked'
<1> USE DEF Working
<1>1. CASE OtherStep /\ UNCHANGED update
  BY <1>1, OtherStaysUp DEF Locked, Run
<1>2. CASE UpdateDown
  BY <1>2 DEF UpdateDown, Locked
<1>3. ASSUME UpdateStep PROVE Locked'
  <2>1. Effect
    BY <1>3, EffectOfUpdate DEF UpdateTyped, UpdateType
  <2>2. proc' = proc /\ Run' = Run
    BY <2>1 DEF Effect, Run
  <2>3. CASE TimeoutUpdate \/ SweepUpdate
    BY <2>3 DEF TimeoutUpdate, SweepUpdate, Locked
  <2>4. CASE StageUpdate \/ CancelUpdate \/ BeginApply
    BY <2>2, <2>4 DEF StageUpdate, CancelUpdate, BeginApply, MayCall, Locked
  <2>5. CASE EndUpdateCheckpoint \/ TakeUpdateLock \/ DrainDatabase \/ BeginFileSwap \/ CommitUpdate
             \/ ArchiveUpdate \/ EndUpdateRestore \/ SwapFile \/ FilesSwapped
    BY <2>2, <2>5 DEF EndUpdateCheckpoint, TakeUpdateLock, DrainDatabase, GiveUp, BeginFileSwap,
       CommitUpdate, ArchiveUpdate, EndUpdateRestore, SwapFile, FilesSwapped, Locked
  <2>6. CASE BeginMigration \/ EndMigration \/ SwapFails \/ VerifyUpdate
    BY <2>2, <2>6 DEF BeginMigration, EndMigration, SwapFails, VerifyUpdate, Locked
  <2> QED BY <1>3, <2>3, <2>4, <2>5, <2>6 DEF UpdateStep, ApplyStep
<1> QED BY <1>1, <1>2, <1>3, UpdateSteps

\* The first half of UpdateContained, whoever restores and backs up beside it: from
\* the drained database to the commit the maintenance lock is the one of this process.
THEOREM WorksUnderLock == UpdateSpec => [](ux \in Working => ulock = Run)
<1>1. UpdateInit => UpdateTyped /\ Locked
  BY InitiallyTyped DEF UpdateInit, Locked, Working
<1>2. UpdateTyped /\ Locked /\ [UpdateNext]_updateVars => (UpdateTyped /\ Locked)'
  BY UpdateTypedStep, LockedStep
<1>3. Locked => (ux \in Working => ulock = Run)
  BY DEF Locked
<1> QED BY <1>1, <1>2, <1>3, PTL DEF UpdateSpec
=============================================================================
