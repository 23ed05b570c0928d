------------------------------- MODULE Update -------------------------------
(***************************************************************************)
(* Updating the software in place: UpdateEngine (update/engine.py) with    *)
(* its journal, maintenance lock, migrator, file applier and boot sweep.   *)
(*                                                                         *)
(* It composes with the other two: apply takes its safety checkpoint from  *)
(* the backup engine, under an idempotency key made of the update's id,    *)
(* and rolls a migration back by a recovery of that checkpoint. One        *)
(* update, whose package replaces the files File and migrates the database *)
(* from revision "old" to "head"; it may be staged and applied repeatedly. *)
(***************************************************************************)
EXTENDS Recovery

CONSTANTS File,        \* the code files the package replaces
          UpdateKey,   \* f"update-checkpoint-{update_id}"
          MaxStages, MaxApplies  \* bounds on the calls of stage and apply

ASSUME UpdateAssumption ==
  UpdateKey \in Key /\ MaxStages \in Nat /\ MaxApplies \in Nat

VARIABLES
  ujournal, \* phase, filesystem_applied and checkpoint
  ulock,    \* the boot of the process that wrote maintenance.lock, 0 if none
  package,  \* does the staging directory of the update exist?
  code,     \* the installed edition of each file
  copy,     \* the edition in its .rollback copy
  ux,       \* where apply or its rollback stands
  left,     \* the files still to swap
  migrated, \* live_db_was_migrated
  swept,    \* has the update engine looked at its journal since the boot?
  stages, applies

ufiles == <<ujournal, ulock, package, code, copy>>
ucoroutine == <<ux, left, migrated>>
ubounds == <<stages, applies>>
update == <<ufiles, ucoroutine, swept, ubounds>>
updateVars == <<restoreVars, update>>

UPhase == {"NONE", "STAGED", "CHECKPOINT_CREATED", "QUIESCED", "SCHEMA_MIGRATED",
           "FILES_SWAPPED", "VERIFIED", "COMMITTED", "ROLLING_BACK", "ROLLED_BACK",
           "FAILED", "FAILED_NEEDS_OPERATOR"}
Mutated == {"SCHEMA_MIGRATED", "FILES_SWAPPED", "VERIFIED"}
NoUpdate == [phase |-> "NONE", applied |-> FALSE, checkpoint |-> 0]
Record(phase) == ujournal' = [ujournal EXCEPT !.phase = phase]

RecordCheckpoint(id) ==
  ujournal' = [ujournal EXCEPT !.phase = "CHECKPOINT_CREATED", !.checkpoint = id]

UAwait == {"checkpointing", "checkpointed", "draining", "quiesced", "migrating",
           "migrated", "applied", "verified", "committed", "restoring"}
UBlocked == ux = "swapping"
Run == crashes + 1  \* os.getpid: every boot is another process
NoCopy == [f \in File |-> "none"]

UpdateTypeOK ==
  /\ RecoveryTypeOK
  /\ ujournal \in [phase : UPhase, applied : BOOLEAN, checkpoint : Nat]
  /\ ulock \in Nat /\ package \in BOOLEAN
  /\ code \in [File -> {"old", "new"}] /\ copy \in [File -> {"none", "old", "new"}]
  /\ ux \in {"idle", "swapping"} \cup UAwait
  /\ left \subseteq File /\ migrated \in BOOLEAN /\ swept \in BOOLEAN
  /\ stages \in Nat /\ applies \in Nat

\* A call gets the loop and the update lock.
MayCall == proc = "up" /\ swept /\ ~Blocked /\ ux = "idle"

\* History: a call passes over the journal of an attempt that did not end, or
\* over one whose filesystem_applied outlived the rollback of the files.
Unfinished == Mutated \cup {"QUIESCED", "ROLLING_BACK", "FAILED_NEEDS_OPERATOR"}
PassOver == forced' = (forced \/ ujournal.phase \in Unfinished \/ ujournal.applied)
unmarked == <<before, restores, crashes>>
unforced == <<data, backups, proc, durable, coroutine, pool, unmarked>>

-----------------------------------------------------------------------------
(* stage, cancel, and apply up to the first mutation *)

\* check_cross_engine_concurrency: the lock file of the recovery engine; the one
\* of the backup engine is never written. A journal is overwritten.
StageUpdate ==
  /\ MayCall /\ ~lock /\ stages < MaxStages
  /\ stages' = stages + 1
  /\ ujournal' = [NoUpdate EXCEPT !.phase = "STAGED"] /\ package' = TRUE
  /\ PassOver
  /\ UNCHANGED <<unforced, ulock, code, copy, ucoroutine, swept, applies>>

CancelUpdate ==
  /\ "cancel" \in Faults /\ MayCall
  /\ ujournal.phase \notin Mutated \cup {"QUIESCED"}
  /\ ujournal' = NoUpdate /\ package' = FALSE /\ ulock' = 0
  /\ PassOver
  /\ UNCHANGED <<unforced, code, copy, ucoroutine, swept, ubounds>>

\* apply does not ask for the phase of the journal. A backup under the update's
\* key, also one of an earlier attempt, is taken for the checkpoint.
BeginApply ==
  /\ MayCall /\ ~lock /\ applies < MaxApplies
  /\ ujournal.phase # "NONE" /\ package
  /\ applies' = applies + 1 /\ PassOver
  /\ \/ \E b \in Known(UpdateKey) :
          ux' = "checkpointed" /\ RecordCheckpoint(b.id) /\ UNCHANGED backups
     \/ /\ StartBackup("update", UpdateKey)
        /\ ux' = "checkpointing" /\ UNCHANGED ujournal
     \/ /\ Known(UpdateKey) = {} /\ job.at # "idle"
        /\ Record("FAILED") /\ UNCHANGED <<ux, backups>>
  /\ UNCHANGED <<data, proc, durable, coroutine, pool, unmarked, ulock, package, code, copy,
                 left, migrated, swept, stages>>

EndUpdateCheckpoint ==
  /\ ux = "checkpointing" /\ job.at \in {"finished", "failed"}
  /\ job' = NoJob
  /\ IF job.at = "finished"
     THEN ux' = "checkpointed" /\ RecordCheckpoint(job.id)
     ELSE ux' = "idle" /\ Record("FAILED")
  /\ UNCHANGED <<data, store, made, proc, recovery, ulock, package, code, copy, left,
                 migrated, swept, ubounds>>

\* Any error of the quiescence releases the lock file, also one found held.
GiveUp == ulock' = 0 /\ ux' = "idle" /\ Record("FAILED")

\* Mutation: the lock file of a dead process is left in place.
TakeUpdateLockBeside ==
  /\ ux = "checkpointed"
  /\ IF lock \/ ulock = Run THEN GiveUp
     ELSE /\ ulock' = IF ulock = 0 THEN Run ELSE ulock
          /\ ux' = "draining" /\ UNCHANGED ujournal
  /\ UNCHANGED <<restoreVars, package, code, copy, left, migrated, swept, ubounds>>

TakeUpdateLock ==
  /\ ux = "checkpointed"
  /\ IF lock \/ ulock = Run THEN GiveUp
     ELSE ulock' = Run /\ ux' = "draining" /\ UNCHANGED ujournal
  /\ UNCHANGED <<restoreVars, package, code, copy, left, migrated, swept, ubounds>>

DrainDatabase ==
  /\ ux = "draining"
  /\ \/ pool' = "closed" /\ ux' = "quiesced" /\ Record("QUIESCED") /\ UNCHANGED ulock
     \/ "drain" \in Faults /\ GiveUp /\ UNCHANGED pool
  /\ UNCHANGED <<data, backups, proc, durable, coroutine, bookkeeping, package, code, copy,
                 left, migrated, swept, ubounds>>

-----------------------------------------------------------------------------
(* _handle_post_mutation_failure *)

\* Mutation: the copies are dropped before they are put back.
TakeBackNothing(files) ==
  /\ copy' = [f \in File |-> IF f \in files THEN "none" ELSE copy[f]]
  /\ UNCHANGED code

\* Layer 1: what was swapped is taken back from the rollback copies.
TakeBack(files) ==
  /\ code' = [f \in File |-> IF f \in files /\ copy[f] # "none" THEN copy[f] ELSE code[f]]
  /\ copy' = [f \in File |-> IF f \in files THEN "none" ELSE copy[f]]

\* Layer 2, if the database was migrated: a recovery of the checkpoint, unless
\* create_recovery refuses. Layer 3: the operator; the lock file stays.
Restore ==
  IF migrated' /\ at = "idle" /\ job.at = "idle" /\ (by = "update" => result = "none")
  THEN /\ RequestRestore(ujournal.checkpoint, "update")
       /\ ux' = "restoring" /\ Record("ROLLING_BACK")
  ELSE /\ ux' = "idle" /\ Record("FAILED_NEEDS_OPERATOR")
       /\ UNCHANGED coroutine

\* Mutation: only a recovery that succeeds is waited for.
EndUpdateRestored ==
  /\ ux = "restoring" /\ at = "idle" /\ result = "restored"
  /\ ux' = "idle" /\ result' = "none"
  /\ Record("ROLLED_BACK") /\ ulock' = 0
  /\ UNCHANGED <<data, backups, proc, durable, at, want, by, saved, staged, todo, pool,
                 bookkeeping, package, code, copy, left, migrated, swept, ubounds>>

EndUpdateRestore ==
  /\ ux = "restoring" /\ at = "idle" /\ result # "none"
  /\ ux' = "idle" /\ result' = "none"
  /\ IF result = "restored"
     THEN Record("ROLLED_BACK") /\ ulock' = 0
     ELSE Record("FAILED_NEEDS_OPERATOR") /\ UNCHANGED ulock
  /\ UNCHANGED <<data, backups, proc, durable, at, want, by, saved, staged, todo, pool,
                 bookkeeping, package, code, copy, left, migrated, swept, ubounds>>

-----------------------------------------------------------------------------
(* apply: migration, file swap, verification *)

\* The thread of run_forward_migration changes the live database in place.
Migratable == live[Db].s \in {"none", "empty", "old"}

BeginMigration ==
  /\ ux = "quiesced"
  /\ \/ /\ live[Db].s = "head"  \* ALREADY_CURRENT
        /\ migrated' = FALSE /\ ux' = "migrated" /\ Record("SCHEMA_MIGRATED")
        /\ UNCHANGED <<live, coroutine>>
     \/ /\ Migratable
        /\ live' = [live EXCEPT ![Db].s = "torn"] /\ ux' = "migrating"
        /\ UNCHANGED <<coroutine, migrated, ujournal>>
     \/ /\ ~Migratable /\ live[Db].s # "head"
        /\ migrated' = TRUE /\ Restore /\ UNCHANGED live
  /\ UNCHANGED <<version, backups, proc, durable, pool, bookkeeping, ulock, package, code,
                 copy, left, swept, ubounds>>

Complete(c) == IF c.s = "torn" THEN Upgraded(c) ELSE c

EndMigration ==
  /\ ux = "migrating" /\ migrated' = TRUE
  /\ \/ /\ live' = [live EXCEPT ![Db] = Complete(@)]
        /\ ux' = "migrated" /\ Record("SCHEMA_MIGRATED") /\ UNCHANGED coroutine
     \/ "storage" \in Faults /\ Restore /\ UNCHANGED live
  /\ UNCHANGED <<version, backups, proc, durable, pool, bookkeeping, ulock, package, code,
                 copy, left, swept, ubounds>>

BeginFileSwap ==
  /\ ux = "migrated"
  /\ ux' = "swapping" /\ left' = File
  /\ UNCHANGED <<restoreVars, ufiles, migrated, swept, ubounds>>

\* A copy is made of whatever is installed, then the file is replaced.
SwapFile ==
  /\ ux = "swapping" /\ left # {}
  /\ LET f == CHOOSE g \in left : TRUE
     IN /\ copy' = [copy EXCEPT ![f] = code[f]]
        /\ code' = [code EXCEPT ![f] = "new"]
        /\ left' = left \ {f}
  /\ UNCHANGED <<restoreVars, ujournal, ulock, package, ux, migrated, swept, ubounds>>

\* swap_components reverts what it has swapped, then raises.
SwapFails ==
  /\ "disk" \in Faults /\ ux = "swapping" /\ left # {}
  /\ TakeBack(File \ left) /\ left' = {} /\ UNCHANGED migrated
  /\ Restore
  /\ UNCHANGED <<data, backups, proc, durable, pool, bookkeeping, ulock, package, swept,
                 ubounds>>

FilesSwapped ==
  /\ ux = "swapping" /\ left = {}
  /\ ujournal' = [ujournal EXCEPT !.phase = "FILES_SWAPPED", !.applied = TRUE]
  /\ ux' = "applied"
  /\ UNCHANGED <<restoreVars, ulock, package, code, copy, left, migrated, swept, ubounds>>

VerifyUpdate ==
  /\ ux = "applied"
  /\ \/ /\ live[Db].s = "head"
        /\ Record("VERIFIED") /\ ux' = "verified"
        /\ UNCHANGED <<coroutine, code, copy, migrated>>
     \/ /\ live[Db].s # "head" \/ "invalid" \in Faults
        /\ TakeBack(File) /\ UNCHANGED migrated /\ Restore
  /\ UNCHANGED <<data, backups, proc, durable, pool, bookkeeping, ulock, package, left,
                 swept, ubounds>>

CommitUpdate ==
  /\ ux = "verified"
  /\ Record("COMMITTED") /\ ux' = "committed"
  /\ UNCHANGED <<restoreVars, ulock, package, code, copy, left, migrated, swept, ubounds>>

\* The copies and the staging directory go, the lock is released, the journal is
\* archived as COMPLETED. The database stays disconnected until the restart.
ArchiveUpdate ==
  /\ ux = "committed"
  /\ ujournal' = NoUpdate /\ ulock' = 0 /\ package' = FALSE /\ copy' = NoCopy
  /\ ux' = "idle"
  /\ UNCHANGED <<restoreVars, code, left, migrated, swept, ubounds>>

\* The caller of apply is cut off at an await; a migration goes on in its thread.
TimeoutUpdate ==
  /\ "timeout" \in Faults /\ proc = "up" /\ ~Blocked /\ ux \in UAwait
  /\ ux' = "idle"
  /\ IF ux = "checkpointing" \/ (ux = "restoring" /\ at = "checkpointing")
     THEN CancelledJob ELSE UNCHANGED backups
  /\ IF ux = "restoring"
     THEN /\ at \in {"idle"} \cup Await /\ at' = "idle" /\ result' = "none"
          /\ UNCHANGED <<want, by, saved, staged, todo>>
     ELSE UNCHANGED coroutine
  /\ live' \in {live} \cup
       IF ux = "migrating" THEN {[live EXCEPT ![Db] = Complete(@)]} ELSE {}
  /\ UNCHANGED <<version, proc, durable, pool, bookkeeping, ufiles, left, migrated, swept,
                 ubounds>>

-----------------------------------------------------------------------------
(* Boot *)

\* Mutation: a migration under way is taken for a pre-mutation phase.
PurgedWhenQuiesced == ujournal.phase \in {"STAGED", "CHECKPOINT_CREATED", "QUIESCED"}

\* What evaluate_crash_recovery tells the sweep to purge, and to complete:
\* VERIFY_RUNTIME does so without looking at what is installed.
Purged == ujournal.phase \in {"STAGED", "CHECKPOINT_CREATED"}
Completed == \/ ujournal.phase = "COMMITTED"
             \/ ujournal.phase \in Mutated /\ ujournal.applied

\* It passes over the restores and rollbacks it is told to carry out.
SweepUpdate ==
  /\ proc = "up" /\ ~swept /\ swept' = TRUE
  /\ IF Purged \/ Completed
     THEN /\ ujournal' = NoUpdate /\ ulock' = 0
          /\ package' = (package /\ ~Purged)
     ELSE UNCHANGED <<ujournal, ulock, package>>
  /\ UNCHANGED <<restoreVars, code, copy, ucoroutine, ubounds>>

UpdateDown ==
  /\ Crash \/ (~UBlocked /\ Stop)
  /\ ux' = "idle" /\ left' = {} /\ migrated' = FALSE /\ swept' = FALSE
  /\ UNCHANGED <<ufiles, ubounds>>

-----------------------------------------------------------------------------
UpdateInit ==
  /\ RecoveryInit
  /\ ujournal = NoUpdate /\ ulock = 0 /\ package = FALSE
  /\ code = [f \in File |-> "old"] /\ copy = NoCopy
  /\ ux = "idle" /\ left = {} /\ migrated = FALSE /\ swept = TRUE
  /\ stages = 0 /\ applies = 0

ApplyStep ==
  \/ EndUpdateCheckpoint \/ TakeUpdateLock \/ DrainDatabase
  \/ BeginMigration \/ EndMigration \/ BeginFileSwap \/ VerifyUpdate
  \/ CommitUpdate \/ ArchiveUpdate \/ EndUpdateRestore

UpdateNext ==
  \/ BackupThread /\ UNCHANGED <<recovery, update>>
  \/ ~UBlocked /\ (RecoveryRun \/ Boot) /\ UNCHANGED update
  \/ ~Blocked /\ (StageUpdate \/ CancelUpdate \/ BeginApply \/ ApplyStep)
  \/ SwapFile \/ SwapFails \/ FilesSwapped
  \/ TimeoutUpdate \/ SweepUpdate \/ UpdateDown

UpdateSpec == UpdateInit /\ [][UpdateNext]_updateVars

\* Threads end and the event loop gets round to a coroutine whose await is over.
FairUpdateSpec ==
  /\ UpdateSpec
  /\ WF_updateVars(~Blocked /\ ApplyStep)
  /\ WF_updateVars(SwapFile \/ FilesSwapped)
  /\ WF_updateVars(BackupThread /\ UNCHANGED <<recovery, update>>)
  /\ WF_updateVars(~Blocked /\ FinishBackup /\ UNCHANGED <<recovery, update>>)
  /\ WF_updateVars((RestoreStep \/ SwapStep \/ RollbackStep) /\ UNCHANGED update)

-----------------------------------------------------------------------------
(* Properties *)

Installed(edition) == \A f \in File : code[f] = edition
\* All files are of one edition, and the schema is the one of that edition.
Coherent == \/ Installed("old") /\ live[Db].s = "old"
            \/ Installed("new") /\ live[Db].s = "head"

\* From the drained database to the commit the lock file is there and is of this
\* process: no cancel, no failed second apply and no boot sweep takes it away.
\* And when no call is at work, half-swapped files, a half-run migration or code
\* that does not go with the schema are told by the journal and kept contained
\* by a maintenance lock - whatever failed, was cut off or crashed, unless an
\* operator staged, applied or cancelled over what a failed attempt left. (A user
\* who backs up under UpdateKey after the checkpoint was deleted breaks it too, in
\* runs longer than those checked.)
UpdateContained ==
  /\ ux \in {"quiesced", "migrating", "migrated", "swapping", "applied", "verified",
             "committed"} => ulock = Run
  /\ proc = "up" /\ swept /\ ux = "idle" /\ at = "idle" /\ ~forced /\ ~Coherent =>
       ujournal.phase \in Unfinished /\ (ulock # 0 \/ lock)

\* COMMITTED and ROLLED_BACK are recorded by a living apply only over a coherent
\* instance: new code with the migrated schema, or the database of the checkpoint,
\* which a recovery has brought back, with the old code again - unless an operator
\* applied over what a failed attempt left, which may have been new code.
OutcomeIsCoherent ==
  [][/\ ux = "verified" /\ ujournal'.phase = "COMMITTED" =>
          Installed("new")' /\ live'[Db].s = "head"
     /\ ux = "restoring" /\ ujournal'.phase = "ROLLED_BACK" =>
          /\ want = ujournal.checkpoint /\ (~forced => Installed("old")')
          /\ live'[Db].s = staged[Db].s /\ Restored(Db, live'[Db])]_updateVars

\* apply returns: through checkpoint, migration and, when it fails, a recovery
\* that takes a checkpoint of its own, nothing waits for what is not to come.
ApplyReturns == ux # "idle" ~> ux = "idle"
=============================================================================
