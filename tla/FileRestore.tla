---------------------------- MODULE FileRestore ----------------------------
(***************************************************************************)
(* Backup and restore of FileStorage.  The nightly backup runs online:     *)
(* first a consistent dump of the database, then a copy of the bucket,     *)
(* object by object.  A restore runs with every API stopped: it puts the   *)
(* dump and the copy back and replays the journal and the outbox before    *)
(* traffic resumes.  The journal is not part of the backup.                *)
(*                                                                         *)
(* One backup is taken and one restore is completed; the restore command   *)
(* may fail and be run again from its start.                               *)
(***************************************************************************)
EXTENDS FileStorage

VARIABLES backup,  \* the archive, or the one being made
          phase    \* where the operator is

restoreVars == <<vars, backup, phase>>

NoBackup == [stage |-> "none"]
Archive == [stage : {"copying", "done"}, users : SUBSET Users,
            file : [Files -> {NoRow} \cup FileRow], outbox : [Files -> Entry],
            receipt : [Items -> Files \cup {NoFile}],
            pending : SUBSET Files, objects : SUBSET Files]

Serving == phase \in {"serving", "restored"}

RestoreInit == Init /\ backup = NoBackup /\ phase = "serving"

-----------------------------------------------------------------------------
(* backup.sh. *)

DumpDatabase ==
  /\ phase = "serving" /\ backup = NoBackup
  /\ backup' = [stage |-> "copying", users |-> users, file |-> file,
                outbox |-> outbox, receipt |-> receipt,
                pending |-> Files, objects |-> {}]
  /\ UNCHANGED <<vars, phase>>

CopyObject(f) ==
  /\ phase = "serving" /\ backup.stage = "copying"
  /\ f \in backup.pending
  /\ backup' = [backup EXCEPT !.pending = @ \ {f},
                              !.objects = @ \cup ({f} \cap objects)]
  /\ UNCHANGED <<vars, phase>>

UploadArchive ==
  /\ phase = "serving" /\ backup.stage = "copying"
  /\ backup.pending = {}
  /\ backup' = [backup EXCEPT !.stage = "done"]
  /\ UNCHANGED <<vars, phase>>

BackupFails ==
  /\ phase = "serving" /\ backup.stage = "copying"
  /\ backup' = NoBackup
  /\ UNCHANGED <<vars, phase>>

-----------------------------------------------------------------------------
(* restore.sh, with the artifacts of apply-deletion-tombstones.py.         *)

\* Variant: an archive without its manifest is accepted.
DisasterDuringCopy ==
  /\ phase = "serving" /\ backup.stage = "copying"
  /\ phase' = "stopped"
  /\ task' = [t \in Tasks |-> Idle]
  /\ UNCHANGED <<database, stamp, bucket, history, backup>>

Disaster ==
  /\ phase = "serving" /\ backup.stage = "done"
  /\ phase' = "stopped"
  /\ task' = [t \in Tasks |-> Idle]
  /\ UNCHANGED <<database, stamp, bucket, history, backup>>

RestoreDatabase ==
  /\ phase = "stopped"
  /\ users' = backup.users /\ file' = backup.file
  /\ outbox' = backup.outbox /\ receipt' = backup.receipt
  /\ phase' = "database"
  /\ UNCHANGED <<stamp, bucket, task, history, backup>>

RestoreObjects ==
  /\ phase = "database"
  /\ objects' = backup.objects
  /\ phase' = "objects"
  /\ UNCHANGED <<database, stamp, tombs, accTombs, task, history, backup>>

\* apply.sql: the trigger of files queues what it deletes.
Replay(accounts, fs) ==
  LET rows == (UNION {FilesOf(u) : u \in accounts}) \cup {f \in fs : HasRow(f)} IN
  /\ users' = users \ accounts
  /\ file' = [f \in Files |-> IF f \in rows THEN NoRow ELSE file[f]]
  /\ outbox' = Enqueued(rows)
  /\ receipt' = WithoutReceipts(rows)

\* Variant: only account tombstones are replayed.
ReplayAccountsOnly ==
  /\ phase = "objects"
  /\ Replay(accTombs, {})
  /\ phase' = "replayed"
  /\ UNCHANGED <<stamp, bucket, task, history, backup>>

ReplayTombstones ==
  /\ phase = "objects"
  /\ Replay(accTombs, tombs)
  /\ phase' = "replayed"
  /\ UNCHANGED <<stamp, bucket, task, history, backup>>

Queued == {f \in Files : outbox[f].status # "none"}

JournalOutbox ==
  /\ phase = "replayed"
  /\ tombs' = tombs \cup Queued
  /\ phase' = "journaled"
  /\ UNCHANGED <<database, stamp, objects, accTombs, task, history, backup>>

\* Variant: the outbox of the dump is completed without its objects.
EraseNothing ==
  /\ phase = "journaled"
  /\ phase' = "erased"
  /\ UNCHANGED <<vars, backup>>

EraseTombstoned ==
  /\ phase = "journaled"
  /\ objects' = objects \ tombs
  /\ phase' = "erased"
  /\ UNCHANGED <<database, stamp, tombs, accTombs, task, history, backup>>

CompleteOutbox ==
  /\ phase = "erased"
  /\ outbox' = [f \in Files |-> [outbox[f] EXCEPT !.status = "none"]]
  /\ phase' = "restored"
  /\ UNCHANGED <<users, file, receipt, stamp, bucket, task, history, backup>>

RestoreFails ==
  /\ phase \in {"database", "objects", "replayed", "journaled", "erased"}
  /\ phase' = "stopped"
  /\ UNCHANGED <<vars, backup>>

-----------------------------------------------------------------------------
Backup == DumpDatabase \/ (\E f \in Files : CopyObject(f)) \/ UploadArchive \/ BackupFails

Restore == \/ Disaster \/ RestoreDatabase \/ RestoreObjects \/ ReplayTombstones
           \/ JournalOutbox \/ EraseTombstoned \/ CompleteOutbox \/ RestoreFails

RestoreNext ==
  \/ Serving /\ Next /\ UNCHANGED <<backup, phase>>
  \/ Backup
  \/ Restore

RestoreSpec == RestoreInit /\ [][RestoreNext]_restoreVars

-----------------------------------------------------------------------------
(* Properties. *)

\* The types of FileStorage survive a restore, and the archive holds rows and
\* keys of the same kinds.
RestoreTypeOK ==
  /\ TypeOK
  /\ backup \in {NoBackup} \cup Archive
  /\ phase \in {"serving", "stopped", "database", "objects", "replayed",
                "journaled", "erased", "restored"}
  /\ phase # "serving" => backup.stage = "done"

\* An account whose deletion was committed does not come back with an older
\* snapshot: its tombstone was in the journal before the commit.
AccountsStayDeleted == Serving => left \cap users = {}

\* After a restore rows and objects agree: every file that is live, and whose
\* upload was once answered, has its object, although the dump and the copy of
\* the bucket were taken at different times, and no object of an archived row is
\* left without an outbox entry.  What went in between is in the journal, and
\* what the dump's outbox still had to do is done before traffic resumes.
RestoredBucketAgrees ==
  Serving =>
    /\ AcknowledgedUploadsKept
    /\ \A f \in objects : file[f].status = "archived" => f \in Queued

\* A file whose upload was answered, and whose deletion reached the journal,
\* is not live again.  (A row of an upload that failed may be: its cleanup is
\* in the outbox of the dump, which removes objects and no rows.)
JournaledFilesStayDeleted ==
  Serving => \A f \in acked \cap removed \cap tombs : ~Live(f)

-----------------------------------------------------------------------------
(* A claim of the documentation that the code does not keep. *)

\* PRODUCTION.md: the restore replays the journal, so that older snapshots do
\* not reintroduce deleted file metadata, i.e. no committed deletion of a
\* file is undone.
DeletedFilesStayDeleted == Serving => \A f \in removed : ~Live(f)
=============================================================================
