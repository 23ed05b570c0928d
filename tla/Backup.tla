------------------------------- MODULE Backup -------------------------------
(***************************************************************************)
(* The instance's data and its backups: BackupEngine (backup/engine.py)    *)
(* with its capture, packager, verifier, repository and retention.         *)
(*                                                                         *)
(* The data is one database file and some storage subtrees. What a part    *)
(* holds is told by the number v of the write that made it and, for the    *)
(* database, by its schema s. A backup reads the database, lists the files *)
(* and packs them in worker threads, so the event loop serves other calls  *)
(* in between; everything from the packed archive to the end of the        *)
(* retention is one step of the loop.                                      *)
(***************************************************************************)
EXTENDS Naturals, FiniteSets

CONSTANTS Db, Subtree,  \* the database file and the storage subtrees
          Key, NoKey,   \* idempotency keys of create_backup
          MaxCount,     \* RetentionPolicy.max_count
          MaxBackups,   \* bound on the backups users start
          MaxVersion,   \* bound on the writes of the workload
          Faults        \* what may go wrong

Fault == {"storage", "timeout", "aged", "delete", "disk", "invalid", "drain", "stop",
          "discard", "cancel"}

ASSUME BackupAssumption ==
  /\ Db \notin Subtree /\ NoKey \notin Key
  /\ MaxCount \in Nat \ {0} /\ MaxBackups \in Nat /\ MaxVersion \in Nat \ {0}
  /\ Faults \subseteq Fault

VARIABLES
  live,    \* what each part holds on disk
  version, \* the number of the last write
  store,   \* the artifacts in the backup directory
  job,     \* the operation that holds _backup_lock
  made,    \* how many backups were begun: ids are given in this order
  proc     \* is the process "up", "down", or "sweeping" the journal at boot?

data == <<live, version>>
backups == <<store, job, made>>

Part == {Db} \cup Subtree

\* "old" and "head" are Alembic revisions, "torn" is a migration cut short,
\* "unversioned" a database that create_all made where none was. "empty" is what
\* a backup holds of a missing database, "filled" that one with create_all's
\* tables, after a restore.
Schema == {"none", "file", "unversioned", "empty", "filled", "old", "torn", "head"}
Content == [v : Nat, s : Schema]
Absent == [v |-> 0, s |-> "none"]
Blank == [v |-> 0, s |-> "unversioned"]
Empty == [v |-> 0, s |-> "empty"]
Nothing == [p \in Part |-> Absent]

Artifact == [id : Nat, parts : [Part -> Content], key : Key \cup {NoKey},
             sidecar : BOOLEAN, whole : BOOLEAN]
Artifacts(id) == {b \in store : b.id = id}

Stage == {"idle", "started", "captured", "scanned", "assembled", "finished", "failed"}
NoJob == [at |-> "idle", by |-> "user", id |-> 0, key |-> NoKey, seen |-> Nothing]
At(stage) == [job EXCEPT !.at = stage]

BackupTypeOK ==
  /\ live \in [Part -> Content]
  /\ version \in 1..MaxVersion
  /\ store \subseteq Artifact
  /\ \A b, c \in store : b.id = c.id => b = c
  /\ job \in [at : Stage, by : {"user", "recovery", "update"}, id : Nat,
              key : Key \cup {NoKey}, seen : [Part -> Content]]
  /\ made \in Nat
  /\ proc \in {"up", "down", "sweeping"}

-----------------------------------------------------------------------------
\* The workload writes a file of a subtree. Nothing in the code makes it
\* wait for a backup or a restore.
WriteFile(s) ==
  /\ proc = "up" /\ live[s] # Absent /\ version < MaxVersion
  /\ version' = version + 1
  /\ live' = [live EXCEPT ![s].v = version']
  /\ UNCHANGED <<backups, proc>>

\* create_backup past its guards: the key is new and the lock is free.
Known(key) == {b \in store : key # NoKey /\ b.key = key}

StartBackup(by, key) ==
  /\ Known(key) = {} /\ job.at = "idle"
  /\ made' = made + 1
  /\ job' = [NoJob EXCEPT !.at = "started", !.by = by, !.id = made', !.key = key]
  /\ UNCHANGED store

UserBackup(key) ==
  /\ proc = "up" /\ made < MaxBackups
  /\ StartBackup("user", key)
  /\ UNCHANGED <<data, proc>>

\* The thread of capture_database. A database that is missing, already at the
\* check on the loop or only in the thread, gives an empty one; the thread's
\* connection also leaves an empty file in its place.
CaptureDatabase ==
  /\ job.at = "started"
  /\ \/ live[Db] # Absent /\ UNCHANGED live
     \/ live[Db] = Absent /\ live' \in {live, [live EXCEPT ![Db] = Empty]}
  /\ job' = [At("captured") EXCEPT
               !.seen[Db] = IF live[Db] = Absent THEN Empty ELSE live[Db]]
  /\ UNCHANGED <<version, store, made, proc>>

\* The thread of scan_storage_files: the files there are, with checksums.
ScanStorage ==
  /\ job.at = "captured"
  /\ job' = [At("scanned") EXCEPT
               !.seen = [p \in Part |-> IF p = Db THEN @[Db] ELSE live[p]]]
  /\ UNCHANGED <<data, store, made, proc>>

\* The thread of assemble_backup reads the listed files again and renames the
\* archive into place; it cannot when one is gone.
Readable == \A s \in Subtree : job.seen[s] # Absent => live[s] # Absent
Packed == [p \in Part |-> IF p = Db \/ job.seen[p] = Absent THEN job.seen[p] ELSE live[p]]
Archived == [id |-> job.id, parts |-> Packed, key |-> NoKey,
             sidecar |-> FALSE, whole |-> Packed = job.seen]

Assemble ==
  /\ job.at = "scanned"
  /\ \/ Readable /\ store' = store \cup {Archived} /\ job' = At("assembled")
     \/ ~Readable /\ job' = At("failed") /\ UNCHANGED store
  /\ UNCHANGED <<data, made, proc>>

\* evaluate_and_prune spares the new backup. The count policy takes what is
\* past the MaxCount newest, age and size take all before some backup.
Newer(b, S) == {c \in S : c.id > b.id}
Excess(S) == {b \in S : Cardinality(Newer(b, S)) >= MaxCount}
Aged(S) == IF "aged" \in Faults
           THEN {{}} \cup {{b \in S : b.id <= c.id} : c \in S} ELSE {{}}
Pruned(S, active) ==
  IF Cardinality(S) <= 1 THEN {{}}
  ELSE {(Excess(S) \cup old) \ {active} : old \in Aged(S)}

\* The rest of create_backup: sidecar, self-verification, retention. An
\* archive whose sidecar cannot be written stays, and is listed as valid.
FinishBackup ==
  /\ job.at = "assembled"
  /\ \E new \in Artifacts(job.id) :
       LET kept == [new EXCEPT !.sidecar = TRUE, !.key = job.key]
           others == store \ {new}
       IN \/ /\ new.whole /\ job' = At("finished")
             /\ \E gone \in Pruned(others \cup {kept}, kept) :
                  store' = (others \cup {kept}) \ gone
          \/ ~new.whole /\ job' = At("failed") /\ store' = others
          \/ "storage" \in Faults /\ job' = At("failed") /\ UNCHANGED store
  /\ UNCHANGED <<data, made, proc>>

\* An error before the archive is in place leaves nothing behind.
FailBackup ==
  /\ "storage" \in Faults
  /\ job.at \in {"started", "captured", "scanned"}
  /\ job' = At("failed")
  /\ UNCHANGED <<data, store, made, proc>>

EndUserBackup ==
  /\ job.by = "user" /\ job.at \in {"finished", "failed"}
  /\ job' = NoJob
  /\ UNCHANGED <<data, store, made, proc>>

\* The caller is cut off: a CancelledError passes every handler. The packing
\* thread goes on and may still bring its archive into place.
CancelledJob ==
  /\ job' = NoJob
  /\ store' \in {store} \cup IF job.at = "scanned" /\ Readable
                             THEN {store \cup {Archived}} ELSE {}
  /\ UNCHANGED made

TimeoutBackup ==
  /\ "timeout" \in Faults /\ proc = "up"
  /\ job.by = "user" /\ job.at # "idle"
  /\ CancelledJob
  /\ UNCHANGED <<data, proc>>

\* Mutation: the last backup is not looked for.
DeleteAnyBackup(b) ==
  /\ "delete" \in Faults /\ proc = "up"
  /\ ~(job.at # "idle" /\ job.id = b.id)
  /\ store' = store \ {b}
  /\ UNCHANGED <<data, job, made, proc>>

\* delete_backup looks for the last valid backup only if there is a sidecar.
DeleteBackup(b) ==
  /\ "delete" \in Faults /\ proc = "up"
  /\ ~(job.at # "idle" /\ job.id = b.id)
  /\ ~(b.sidecar /\ store = {b})
  /\ store' = store \ {b}
  /\ UNCHANGED <<data, job, made, proc>>

BackupThread == CaptureDatabase \/ ScanStorage \/ Assemble

BackupLoop ==
  \/ FinishBackup \/ FailBackup \/ EndUserBackup \/ TimeoutBackup
  \/ \E s \in Subtree : WriteFile(s)
  \/ \E key \in Key \cup {NoKey} : UserBackup(key)
  \/ \E b \in store : DeleteBackup(b)
=============================================================================
