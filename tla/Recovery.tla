------------------------------ MODULE Recovery ------------------------------
(***************************************************************************)
(* Restoring a backup: RecoveryEngine (recovery/engine.py) with its        *)
(* journal, maintenance lock, staging checks, restorers and boot sweep.    *)
(*                                                                         *)
(* create_recovery is a coroutine: `at` names the await it stands at, or,  *)
(* in the blocks that swap and reverse files without awaiting, the next    *)
(* file operation. During those only worker threads and a crash come in    *)
(* between. The journal, the lock file, the rollback copies and the data   *)
(* survive a crash; the coroutine does not.                                *)
(***************************************************************************)
EXTENDS Backup

CONSTANTS Deployed,     \* the schemas the live database may start with
          MaxRestores,  \* bound on the restores that are requested
          MaxCrashes    \* bound on crashes and stops

ASSUME RecoveryAssumption ==
  /\ Deployed \subseteq {"old", "head"}
  /\ MaxRestores \in Nat /\ MaxCrashes \in Nat

VARIABLES
  journal, \* phase, rollback sources and checkpoint of journal.json
  lock,    \* does the maintenance lock file exist?
  kept,    \* the rollback copies the current recovery has made
  at,      \* where create_recovery or the rollback stands
  want,    \* the backup being restored
  by,      \* who called create_recovery: "update" while UpdateEngine may wait for it
  saved,   \* the safety checkpoint it made
  staged,  \* what was extracted from it
  todo,    \* the subtrees still to swap or to reverse
  result,  \* how the last create_recovery ended
  pool,    \* the file the connections of the process are open on
  before,  \* history: the data and the version when the swap began
  forced,  \* history: was a halted recovery's lock or journal dropped by hand?
  restores, crashes

durable == <<journal, lock, kept>>
coroutine == <<at, want, by, saved, staged, todo, result>>
bookkeeping == <<before, forced, restores, crashes>>
recovery == <<durable, coroutine, pool, bookkeeping>>
restoreVars == <<data, backups, proc, recovery>>

\* Mutation: the swap is thought not to have begun while it is unrecorded.
PreMutationUntilRecorded == {"STAGING", "STAGED", "PRE_SWAP", "STORAGE_SWAP_PARTIAL"}

PreMutation == {"STAGING", "STAGED", "PRE_SWAP"}
Destructive == {"STORAGE_SWAP_PARTIAL", "STORAGE_SWAP_COMPLETE",
                "DATABASE_SWAP_COMPLETE", "VERIFYING", "ROLLING_BACK"}
Phase == {"NONE", "COMMITTED", "ROLLED_BACK", "FAILED_NEEDS_OPERATOR"}
         \cup PreMutation \cup Destructive
NoJournal == [phase |-> "NONE", sources |-> {}, checkpoint |-> 0]
InPhase(phase) == [journal EXCEPT !.phase = phase]

Await == {"requested", "located", "checkpointing", "secured", "extracted",
          "staged", "quiescing", "quiesced", "swapped", "verifying"}
Swap == {"storage", "place", "database", "install", "installed"}
Reverse == {"reverse", "checking", "archiving"}
\* While the coroutine is here the event loop runs nothing else.
Blocked == at \in Swap \cup Reverse \cup {"committing"}

RecoveryTypeOK ==
  /\ BackupTypeOK
  /\ journal \in [phase : Phase, sources : SUBSET Part, checkpoint : Nat]
  /\ lock \in BOOLEAN /\ forced \in BOOLEAN
  /\ kept \in [Part -> Content] /\ staged \in [Part -> Content]
  /\ at \in {"idle", "committing"} \cup Await \cup Swap \cup Reverse
  /\ want \in Nat /\ saved \in Nat /\ by \in {"user", "update"} /\ todo \subseteq Subtree
  /\ result \in {"none", "restored", "failed"}
  /\ pool \in {"closed", "live", "kept", "lost"}
  /\ before.parts \in [Part -> Content] /\ before.version \in Nat
  /\ restores \in Nat /\ crashes \in Nat

-----------------------------------------------------------------------------
(* The database connections follow the file, not its name. *)

Open(c) == IF c = Absent THEN Blank ELSE c
WithTables(c) == IF c.s = "empty" THEN [c EXCEPT !.s = "filled"] ELSE Open(c)
Renamed == IF pool = "live" THEN "kept" ELSE pool
Replaced == CASE pool = "live" -> "lost" [] pool = "kept" -> "live" [] OTHER -> pool
Removed == IF pool = "live" THEN "lost" ELSE pool

\* The workload writes to the database: get_session connects when it must, and
\* connecting creates a missing file. Nothing looks at the maintenance lock.
WriteDatabase ==
  /\ proc = "up" /\ ~Blocked /\ version < MaxVersion
  /\ version' = version + 1
  /\ pool' = IF pool = "closed" THEN "live" ELSE pool
  /\ live' = IF pool' = "live"
             THEN [live EXCEPT ![Db] = [Open(@) EXCEPT !.v = version']] ELSE live
  /\ kept' = IF pool' = "kept" THEN [kept EXCEPT ![Db].v = version'] ELSE kept
  /\ UNCHANGED <<backups, proc, journal, lock, coroutine, bookkeeping>>

-----------------------------------------------------------------------------
(* create_recovery, up to the swap *)

Leave(how) == at' = "idle" /\ result' = how

\* The guards: no restore in progress, and no backup at this moment.
RequestRestore(id, who) ==
  /\ at = "idle" /\ job.at = "idle"
  /\ by = "update" => result = "none"  \* _recovery_lock is held until it returns
  /\ at' = "requested" /\ want' = id /\ by' = who /\ result' = "none"
  /\ UNCHANGED <<saved, staged, todo>>

UserRestore(b) ==
  /\ proc = "up" /\ restores < MaxRestores
  /\ restores' = restores + 1
  /\ RequestRestore(b.id, "user")
  /\ UNCHANGED <<data, backups, proc, durable, pool, before, forced, crashes>>

\* The lock file must be free, and the artifact there. From here to the journal
\* nothing catches an error: the lock file stays.
TakeLock ==
  /\ at = "requested"
  /\ lock' = TRUE
  /\ IF lock \/ Artifacts(want) = {} THEN Leave("failed")
     ELSE at' = "located" /\ UNCHANGED result
  /\ UNCHANGED <<data, backups, proc, journal, kept, want, by, saved, staged, todo, pool,
                 bookkeeping>>

StartCheckpoint ==
  /\ at = "located"
  /\ IF job.at = "idle"
     THEN at' = "checkpointing" /\ UNCHANGED result /\ StartBackup("recovery", NoKey)
     ELSE Leave("failed") /\ UNCHANGED backups
  /\ UNCHANGED <<data, proc, durable, want, by, saved, staged, todo, pool, bookkeeping>>

EndCheckpoint ==
  /\ at = "checkpointing" /\ job.at \in {"finished", "failed"}
  /\ job' = NoJob /\ saved' = job.id
  /\ IF job.at = "finished" /\ Artifacts(job.id) # {}
     THEN at' = "secured" /\ UNCHANGED result
     ELSE Leave("failed")
  /\ UNCHANGED <<data, store, made, proc, durable, want, by, staged, todo, pool,
                 bookkeeping>>

\* An error before the swap: staging and journal go, the lock is released.
CleanUp ==
  /\ journal' = NoJournal /\ lock' = FALSE
  /\ Leave("failed")

\* The journal is written, over the one of an earlier recovery if need be; then
\* the artifact is decrypted, extracted and compared with its checksums.
Extract ==
  /\ at = "secured"
  /\ \/ \E b \in Artifacts(want) :
          /\ b.whole /\ staged' = b.parts
          /\ journal' = [NoJournal EXCEPT !.phase = "STAGING", !.checkpoint = saved]
          /\ at' = "extracted" /\ UNCHANGED <<result, lock>>
     \/ /\ "storage" \in Faults \/ \A b \in Artifacts(want) : ~b.whole
        /\ CleanUp /\ UNCHANGED staged
  /\ UNCHANGED <<data, backups, proc, kept, want, by, saved, todo, pool, bookkeeping>>

\* apply_staged_migration asks Alembic to upgrade the staged copy, and
\* alembic/env.py takes the address of the live database.
Behind(c) == c.s \in {"old", "torn"}
Upgradable(c) == c.s \in {"none", "empty", "old", "head"}
Upgraded(c) == [c EXCEPT !.s = "head"]

ValidateStaged ==
  /\ at = "extracted"
  /\ \/ /\ Behind(staged[Db]) => Upgradable(live[Db])
        /\ live' = IF Behind(staged[Db])
                   THEN [live EXCEPT ![Db] = Upgraded(@)] ELSE live
        /\ journal' = InPhase("STAGED") /\ at' = "staged"
        /\ UNCHANGED <<result, lock>>
     \/ /\ Behind(staged[Db]) /\ ~Upgradable(live[Db])
        /\ CleanUp /\ UNCHANGED live
     \/ "invalid" \in Faults /\ CleanUp /\ UNCHANGED live
  /\ UNCHANGED <<version, backups, proc, kept, want, by, saved, staged, todo, pool, bookkeeping>>

EnterQuiescence ==
  /\ at = "staged"
  /\ journal' = InPhase("PRE_SWAP") /\ at' = "quiescing"
  /\ UNCHANGED <<data, backups, proc, lock, kept, want, by, saved, staged, todo, result, pool,
                 bookkeeping>>

Disconnect ==
  /\ at = "quiescing"
  /\ \/ at' = "quiesced" /\ pool' = "closed" /\ UNCHANGED <<result, journal, lock>>
     \/ "drain" \in Faults /\ CleanUp /\ UNCHANGED pool
  /\ UNCHANGED <<data, backups, proc, kept, want, by, saved, staged, todo, bookkeeping>>

-----------------------------------------------------------------------------
(* Swap and rollback: blocks without an await, one file operation at a time *)

\* execute_storage_swap starts; the journal has no rollback source yet.
BeginSwap ==
  /\ at = "quiesced"
  /\ journal' = InPhase("STORAGE_SWAP_PARTIAL") /\ at' = "storage"
  /\ todo' = {s \in Subtree : staged[s] # Absent}
  /\ kept' = Nothing
  /\ before' = [parts |-> live, version |-> version]
  /\ UNCHANGED <<data, backups, proc, lock, want, by, saved, staged, result, pool,
                 forced, restores, crashes>>

Current == CHOOSE s \in todo : TRUE  \* the code takes them in a fixed order

\* A live subtree is renamed away, then the staged one renamed into its place.
SwapAway ==
  /\ at = "storage" /\ todo # {}
  /\ kept' = [kept EXCEPT ![Current] = live[Current]]
  /\ live' = [live EXCEPT ![Current] = Absent]
  /\ at' = "place"
  /\ UNCHANGED <<version, backups, proc, journal, lock, want, by, saved, staged, todo,
                 result, pool, bookkeeping>>

SwapIn ==
  /\ at = "place"
  /\ live' = [live EXCEPT ![Current] = staged[Current]]
  /\ todo' = todo \ {Current} /\ at' = "storage"
  /\ UNCHANGED <<version, backups, proc, durable, want, by, saved, staged, result, pool,
                 bookkeeping>>

\* Mutation: the last subtree is taken for done when it is begun.
StorageSwappedEarly ==
  /\ at = "storage" /\ Cardinality(todo) <= 1
  /\ journal' = [InPhase("STORAGE_SWAP_COMPLETE") EXCEPT
                   !.sources = {s \in Subtree : kept[s] # Absent}]
  /\ at' = "database"
  /\ UNCHANGED <<data, backups, proc, lock, kept, want, by, saved, staged, todo, result,
                 pool, bookkeeping>>

\* Only now the rollback sources of the storage enter the journal.
StorageSwapped ==
  /\ at = "storage" /\ todo = {}
  /\ journal' = [InPhase("STORAGE_SWAP_COMPLETE") EXCEPT
                   !.sources = {s \in Subtree : kept[s] # Absent}]
  /\ at' = "database"
  /\ UNCHANGED <<data, backups, proc, lock, kept, want, by, saved, staged, todo, result,
                 pool, bookkeeping>>

DatabaseAway ==
  /\ at = "database"
  /\ kept' = [kept EXCEPT ![Db] = live[Db]]
  /\ live' = [live EXCEPT ![Db] = Absent]
  /\ pool' = Renamed /\ at' = "install"
  /\ UNCHANGED <<version, backups, proc, journal, lock, want, by, saved, staged, todo,
                 result, bookkeeping>>

DatabaseIn ==
  /\ at = "install"
  /\ live' = [live EXCEPT ![Db] = staged[Db]] /\ at' = "installed"
  /\ UNCHANGED <<version, backups, proc, durable, want, by, saved, staged, todo, result,
                 pool, bookkeeping>>

DatabaseSwapped ==
  /\ at = "installed"
  /\ journal' = [InPhase("DATABASE_SWAP_COMPLETE") EXCEPT
                   !.sources = {p \in Part : kept[p] # Absent}]
  /\ at' = "swapped"
  /\ UNCHANGED <<data, backups, proc, lock, kept, want, by, saved, staged, todo, result,
                 pool, bookkeeping>>

\* Mutation: the storage is not reversed.
StartRollbackOfDatabase(sources) ==
  /\ journal' = [InPhase("ROLLING_BACK") EXCEPT !.sources = sources]
  /\ todo' = {} /\ at' = "reverse"

\* _execute_automated_rollback, with the rollback sources of the journal.
StartRollback(sources) ==
  /\ journal' = [InPhase("ROLLING_BACK") EXCEPT !.sources = sources]
  /\ todo' = sources \cap Subtree /\ at' = "reverse"

\* An error of a file operation: each restorer first undoes its own renames,
\* then create_recovery rolls back by what the journal says.
DiskError ==
  /\ "disk" \in Faults
  /\ LET mine == IF at \in {"storage", "place"} THEN Subtree ELSE {Db}
         undone == {p \in mine : kept[p] # Absent}
     IN /\ at \in {"place", "install"} \/ (at = "storage" /\ todo # {}) \/ at = "database"
        /\ live' = [p \in Part |-> IF p \in undone THEN kept[p] ELSE live[p]]
        /\ kept' = [p \in Part |-> IF p \in undone THEN Absent ELSE kept[p]]
        /\ pool' = IF Db \in undone THEN Replaced ELSE pool
  /\ StartRollback(journal.sources)
  /\ UNCHANGED <<version, backups, proc, lock, want, by, saved, staged, result, bookkeeping>>

\* A rollback copy that is missing is passed over.
ReverseStorage ==
  /\ at = "reverse" /\ todo # {}
  /\ todo' = todo \ {Current}
  /\ IF kept[Current] # Absent
     THEN /\ live' = [live EXCEPT ![Current] = kept[Current]]
          /\ kept' = [kept EXCEPT ![Current] = Absent]
     ELSE UNCHANGED <<live, kept>>
  /\ UNCHANGED <<version, backups, proc, journal, lock, at, want, by, saved, staged, result,
                 pool, bookkeeping>>

\* The rollback gave up: the lock file is there, whoever made it. At boot the
\* engine fails to initialise, and with it the process.
Halt ==
  /\ journal' = InPhase("FAILED_NEEDS_OPERATOR") /\ lock' = TRUE
  /\ Leave("failed")
  /\ IF proc = "sweeping" THEN proc' = "down" /\ pool' = "closed" ELSE UNCHANGED <<proc, pool>>

\* No database among the sources is taken for no database before: the live one
\* is unlinked. A source whose copy is missing is an error.
ReverseDatabase ==
  /\ at = "reverse" /\ todo = {}
  /\ \/ /\ Db \in journal.sources /\ kept[Db] # Absent
        /\ live' = [live EXCEPT ![Db] = kept[Db]]
        /\ kept' = [kept EXCEPT ![Db] = Absent]
        /\ pool' = Replaced /\ at' = "checking"
        /\ UNCHANGED <<journal, lock, result, proc>>
     \/ /\ Db \in journal.sources /\ kept[Db] = Absent
        /\ Halt /\ UNCHANGED <<live, kept>>
     \/ /\ Db \notin journal.sources
        /\ live' = [live EXCEPT ![Db] = Absent]
        /\ pool' = Removed /\ at' = "checking"
        /\ UNCHANGED <<kept, journal, lock, result, proc>>
  /\ UNCHANGED <<version, backups, want, by, saved, staged, todo, bookkeeping>>

\* Mutation: the validation is repeated until it succeeds.
CheckRollbackAgain ==
  /\ at = "checking" /\ live[Db] # Absent
  /\ journal' = InPhase("ROLLED_BACK") /\ at' = "archiving"
  /\ UNCHANGED <<data, backups, proc, lock, kept, want, by, saved, staged, todo, result,
                 pool, bookkeeping>>

\* The restored database is validated; a missing one is not valid.
CheckRollback ==
  /\ at = "checking"
  /\ \/ /\ live[Db] # Absent
        /\ journal' = InPhase("ROLLED_BACK") /\ at' = "archiving"
        /\ UNCHANGED <<lock, result, proc, pool>>
     \/ /\ live[Db] = Absent \/ "invalid" \in Faults
        /\ Halt
  /\ UNCHANGED <<data, backups, kept, want, by, saved, staged, todo, bookkeeping>>

ArchiveRollback ==
  /\ at = "archiving"
  /\ journal' = NoJournal /\ lock' = FALSE /\ Leave("failed")
  /\ proc' = "up"
  /\ UNCHANGED <<data, backups, kept, want, by, saved, staged, todo, pool, bookkeeping>>

-----------------------------------------------------------------------------
(* create_recovery, after the swap *)

\* exit_quiescence opens no connection while there are some, and releases the
\* lock file; then the live database is validated.
Reconnect ==
  /\ at = "swapped"
  /\ \/ /\ journal' = InPhase("VERIFYING") /\ lock' = FALSE /\ at' = "verifying"
        /\ UNCHANGED todo
     \/ /\ "invalid" \in Faults /\ lock' = FALSE
        /\ StartRollback(journal.sources)
     \/ /\ "storage" \in Faults /\ UNCHANGED lock
        /\ StartRollback(journal.sources)
  /\ UNCHANGED <<data, backups, proc, kept, want, by, saved, staged, result, pool,
                 bookkeeping>>

Commit ==
  /\ at = "verifying"
  /\ journal' = InPhase("COMMITTED") /\ at' = "committing"
  /\ UNCHANGED <<data, backups, proc, lock, kept, want, by, saved, staged, todo, result,
                 pool, bookkeeping>>

ArchiveCommit ==
  /\ at = "committing"
  /\ journal' = NoJournal /\ lock' = FALSE /\ Leave("restored")
  /\ UNCHANGED <<data, backups, proc, kept, want, by, saved, staged, todo, pool,
                 bookkeeping>>

\* The caller is cut off at an await: no handler runs, files stay as they are.
CutRestore ==
  /\ at \in Await
  /\ Leave("failed")
  /\ IF at = "checkpointing" THEN CancelledJob ELSE UNCHANGED backups

TimeoutRestore ==
  /\ "timeout" \in Faults /\ proc = "up" /\ by = "user"
  /\ CutRestore
  /\ UNCHANGED <<data, proc, durable, want, by, saved, staged, todo, pool, bookkeeping>>

\* delete_recovery drops the journal, whatever its phase.
DeleteRecovery ==
  /\ "discard" \in Faults /\ proc = "up"
  /\ at = "idle" /\ journal # NoJournal
  /\ journal' = NoJournal /\ lock' = FALSE
  /\ forced' = (forced \/ journal.phase \in Destructive \cup {"FAILED_NEEDS_OPERATOR"})
  /\ UNCHANGED <<data, backups, proc, kept, coroutine, pool, before, restores, crashes>>

-----------------------------------------------------------------------------
(* Crash, stop and boot *)

Down ==
  /\ crashes < MaxCrashes /\ crashes' = crashes + 1
  /\ proc' = "down" /\ job' = NoJob /\ pool' = "closed"
  /\ at' = "idle" /\ by' = "user" /\ result' = "none" /\ todo' = {}
  /\ UNCHANGED <<data, store, made, journal, kept, want, saved, staged, before, restores>>

Crash ==
  /\ proc # "down" /\ Down
  /\ UNCHANGED <<lock, forced>>

\* stop releases the lock file even if it keeps a halted recovery contained.
Stop ==
  /\ "stop" \in Faults /\ proc = "up" /\ ~Blocked
  /\ Down
  /\ lock' = FALSE
  /\ forced' = (forced \/ journal.phase = "FAILED_NEEDS_OPERATOR")

\* Kernel.boot connects and creates the tables of a missing database; then
\* _startup_crash_recovery_sweep goes by the phase of the journal.
Boot ==
  /\ proc = "down"
  /\ live' = [live EXCEPT ![Db] = WithTables(@)] /\ pool' = "live"
  /\ \/ /\ journal.phase \in {"NONE", "COMMITTED"} \cup PreMutation
        /\ journal' = NoJournal /\ lock' = FALSE
        /\ proc' = "up" /\ UNCHANGED <<at, todo>>
     \/ /\ journal.phase \in Destructive
        /\ proc' = "sweeping" /\ StartRollback(journal.sources)
        /\ UNCHANGED lock
     \/ /\ journal.phase \in {"ROLLED_BACK", "FAILED_NEEDS_OPERATOR"}
        /\ proc' = "up" /\ UNCHANGED <<journal, lock, at, todo>>
  /\ UNCHANGED <<version, backups, kept, want, by, saved, staged, result, bookkeeping>>

-----------------------------------------------------------------------------
RecoveryInit ==
  /\ live \in {[p \in Part |-> [v |-> 1, s |-> IF p = Db THEN d ELSE "file"]] : d \in Deployed}
  /\ version = 1 /\ proc = "up" /\ job = NoJob /\ made = 1
  /\ store = {[id |-> 1, key |-> NoKey, sidecar |-> TRUE, whole |-> TRUE,
               parts |-> [p \in Part |-> [v |-> 0, s |-> IF p = Db THEN "old" ELSE "file"]]]}
  /\ journal = NoJournal /\ lock = FALSE /\ kept = Nothing
  /\ at = "idle" /\ want = 0 /\ by = "user" /\ saved = 0 /\ staged = Nothing
  /\ todo = {} /\ result = "none" /\ pool = "live"
  /\ before = [parts |-> Nothing, version |-> 0]
  /\ forced = FALSE /\ restores = 0 /\ crashes = 0

RestoreStep ==
  \/ TakeLock \/ StartCheckpoint \/ EndCheckpoint \/ Extract \/ ValidateStaged
  \/ EnterQuiescence \/ Disconnect \/ Reconnect \/ Commit

SwapStep ==
  \/ BeginSwap \/ SwapAway \/ SwapIn \/ StorageSwapped
  \/ DatabaseAway \/ DatabaseIn \/ DatabaseSwapped \/ ArchiveCommit

RollbackStep ==
  ReverseStorage \/ ReverseDatabase \/ CheckRollback \/ ArchiveRollback

RecoveryRun ==
  \/ ~Blocked /\ BackupLoop /\ UNCHANGED recovery
  \/ WriteDatabase
  \/ \E b \in store : UserRestore(b)
  \/ RestoreStep \/ SwapStep \/ RollbackStep \/ DiskError
  \/ TimeoutRestore \/ DeleteRecovery

RecoveryNext ==
  \/ BackupThread /\ UNCHANGED recovery
  \/ RecoveryRun \/ Crash \/ Stop \/ Boot

RecoverySpec == RecoveryInit /\ [][RecoveryNext]_restoreVars

FairRecoverySpec ==
  RecoverySpec /\ WF_restoreVars(Boot) /\ WF_restoreVars(RollbackStep)

-----------------------------------------------------------------------------
(* Properties *)

\* What a part held when the swap began, or what was written since: to the database
\* through a connection that followed the file, to a subtree the backup does not have.
AsBefore(p, c) ==
  \/ c = before.parts[p] \/ before.parts[p] = Absent
  \/ (p = Db \/ staged[p] = Absent) /\ c.v > before.version

Restored(p, c) == c = staged[p] \/ c.v > before.version

\* A process that serves calls has all its data: whatever crashes, failed file
\* operations, cut calls and boots came before, no subtree is missing and the
\* database is not one that was created empty in its place - unless the recovery
\* halted and says so, or an operator has dropped a halted recovery.
ServesData ==
  proc = "up" /\ at = "idle" /\ ~forced =>
    \/ journal.phase = "FAILED_NEEDS_OPERATOR" /\ lock
    \/ live[Db].s # "unversioned" /\ \A p \in Part : live[p] # Absent

\* ROLLED_BACK is recorded only when every part is again what it was before the
\* swap, also when the rollback was itself interrupted and begun anew at boot - or
\* for the empty database that a backup's thread has left in a missing one's place.
RollbackIsExact ==
  [][journal'.phase = "ROLLED_BACK" /\ journal.phase # "ROLLED_BACK" =>
       \A p \in Part : AsBefore(p, live'[p]) \/ live'[p].s = "empty"]_restoreVars

\* COMMITTED is recorded only over the backup's content in every part it has:
\* nothing of the old data is left, whatever backup, write or call ran beside.
CommitIsWhole ==
  [][journal'.phase = "COMMITTED" /\ journal.phase # "COMMITTED" =>
       \A p \in Part : staged[p] = Absent \/ Restored(p, live'[p])]_restoreVars

\* What the journal records as the outcome is what is on the disk.
OutcomeIsWhole == RollbackIsExact /\ CommitIsWhole

\* As long as a backup with metadata exists, neither retention nor a failed
\* backup nor delete_backup leaves the instance without any.
KeepsABackup == [][(\E b \in store : b.sidecar) => store' # {}]_restoreVars

\* After a crash in a destructive phase the boot sweep comes to an end: the
\* journal is gone or the recovery is halted for the operator.
SweepSettles ==
  proc # "up" /\ journal.phase \in Destructive ~>
    proc = "up" /\ journal.phase \notin Destructive

\* ADR-0017: "If verification or swap fails at any step, completes reverse-swap
\* restoring .rollback_<id> files". Every rollback that ends restores all parts.
RollbackRestores ==
  [][at' = "idle" /\ at \in Reverse /\ proc' # "down" =>
       \A p \in Part : AsBefore(p, live'[p])]_restoreVars
=============================================================================
