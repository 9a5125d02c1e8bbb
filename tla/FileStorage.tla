---------------------------- MODULE FileStorage ----------------------------
(***************************************************************************)
(* Uploaded files: the rows of files, the objects in the uploads bucket,   *)
(* the outbox file_storage_deletions with its worker, and the journal of   *)
(* deletions in a bucket of its own.  PostgreSQL and S3 share no           *)
(* transaction, so a request or a worker is a task that takes one          *)
(* statement or one S3 call at a time and may stop after any of them.      *)
(*                                                                         *)
(* A file, its row and its storage path are one element of Files: a path   *)
(* is drawn at random for one upload and never reused.  Content types and  *)
(* sizes are left out.  available_at and locked_until are kept as the      *)
(* state of an outbox entry (due, claimed or later).                       *)
(***************************************************************************)
EXTENDS Naturals, FiniteSets

CONSTANTS Files, Users, Projects, Items, Calls, Workers,
          OwnerOf,   \* the owner of each project
          NoFile     \* a cost item without a receipt

ASSUME StorageAssumption ==
  /\ OwnerOf \in [Projects -> Users]
  /\ NoFile \notin Files
  /\ Calls \cap Workers = {}
  /\ IsFiniteSet(Files)

VARIABLES users,     \* accounts
          file,      \* files
          stamp,     \* created_at, as a position; 0: nothing stored yet
          receipt,   \* receipt_file_id of the cost items
          outbox,    \* file_storage_deletions
          objects,   \* external: the keys in the uploads bucket
          tombs,     \* external: the object tombstones in the journal
          accTombs,  \* external: the account tombstones in the journal
          task,      \* requests and deletion workers
          acked,     \* history: uploads answered with 201
          removed,   \* history: files whose deletion was committed
          left       \* history: accounts whose deletion was committed

vars == <<users, file, stamp, receipt, outbox, objects, tombs, accTombs,
          task, acked, removed, left>>

database == <<users, file, receipt, outbox>>
bucket == <<objects, tombs, accTombs>>
history == <<acked, removed, left>>

-----------------------------------------------------------------------------
NoRow == [status |-> "none"]
FileRow == [status : {"live", "archived"}, user : Users, project : Projects,
            cover : BOOLEAN]
Entry == [id : Nat, status : {"none", "due", "claimed", "later"}]

Idle == [pc |-> "idle"]
CallState ==
  {Idle}
  \cup [pc : {"put", "insert"}, file : Files, user : Users, project : Projects,
        cover : BOOLEAN]
  \cup [pc : {"archive"}, file : Files, project : Projects]
  \cup [pc : {"delete", "journal", "erase", "erased", "failed"}, file : Files]
  \cup [pc : {"attach"}, item : Items, file : Files]
  \cup [pc : {"account", "commit"}, user : Users]
WorkerState ==
  {Idle} \cup [pc : {"journal", "erase", "erased", "failed"}, file : Files, id : Nat]

Tasks == Calls \cup Workers
Goto(t, state) == task' = [task EXCEPT ![t] = state]
GotoPc(t, pc) == task' = [task EXCEPT ![t].pc = pc]
Return(t) == Goto(t, Idle)

HasRow(f) == file[f].status # "none"
Live(f) == file[f].status = "live"
Exists(p) == OwnerOf[p] \in users

\* DELETE /account holds the account, its projects and all their files until
\* it commits; an INSERT that refers to them waits.
UserLocked(u) ==
  \E c \in Calls : task[c].pc \in {"account", "commit"} /\ task[c].user = u
ProjectLocked(p) == UserLocked(OwnerOf[p])
RowLocked(f) ==
  HasRow(f) /\ (UserLocked(file[f].user) \/ ProjectLocked(file[f].project))

\* INSERT ... ON CONFLICT (storage_path) DO NOTHING; an entry that is inserted
\* again gets a new id.
Enqueued(fs) ==
  [f \in Files |-> IF f \in fs /\ outbox[f].status = "none"
                   THEN [id |-> outbox[f].id + 1, status |-> "due"]
                   ELSE outbox[f]]

Init ==
  /\ users = Users
  /\ file = [f \in Files |-> NoRow]
  /\ stamp = [f \in Files |-> 0]
  /\ receipt = [i \in Items |-> NoFile]
  /\ outbox = [f \in Files |-> [id |-> 0, status |-> "none"]]
  /\ objects = {} /\ tombs = {} /\ accTombs = {}
  /\ task = [t \in Tasks |-> Idle]
  /\ acked = {} /\ removed = {} /\ left = {}

-----------------------------------------------------------------------------
(* POST /files/upload: permission checks, the object, then its row.        *)

\* Variant: a path that was used once may be drawn again.
NotBeingPut(f) == \A t \in Tasks : task[t].pc = "put" => task[t].file # f

Unused(f) ==
  /\ stamp[f] = 0
  /\ \A t \in Tasks : task[t].pc = "put" => task[t].file # f

BeginUpload(c, f, u, p, cover) ==
  /\ task[c] = Idle
  /\ Unused(f)
  /\ u \in users /\ Exists(p)
  /\ Goto(c, [pc |-> "put", file |-> f, user |-> u, project |-> p, cover |-> cover])
  /\ UNCHANGED <<database, stamp, bucket, history>>

Stamped(f) ==
  [stamp EXCEPT ![f] = 1 + Cardinality({g \in Files : stamp[g] # 0})]

\* The INSERT begins as soon as the object is stored: created_at is taken now.
PutObject(c) ==
  /\ task[c].pc = "put"
  /\ objects' = objects \cup {task[c].file}
  /\ stamp' = Stamped(task[c].file)
  /\ GotoPc(c, "insert")
  /\ UNCHANGED <<database, tombs, accTombs, history>>

\* A Put that reports an error may have stored the object.
PutFails(c) ==
  /\ task[c].pc = "put"
  /\ objects' \in {objects, objects \cup {task[c].file}}
  /\ stamp' = Stamped(task[c].file)
  /\ Goto(c, [pc |-> "journal", file |-> task[c].file])
  /\ UNCHANGED <<database, tombs, accTombs, history>>

Inserted(r) ==
  [file EXCEPT ![r.file] = [status |-> "live", user |-> r.user,
                            project |-> r.project, cover |-> r.cover]]

\* Variant: an INSERT that no foreign key guards.
InsertUnchecked(c) ==
  /\ task[c].pc = "insert"
  /\ file' = Inserted(task[c])
  /\ Return(c)
  /\ UNCHANGED <<users, receipt, outbox, stamp, bucket, history>>

\* Variant: the flag of the deferred cleanup is not cleared on success.
InsertCleansUp(c) ==
  /\ task[c].pc = "insert"
  /\ ~UserLocked(task[c].user) /\ ~ProjectLocked(task[c].project)
  /\ task[c].user \in users /\ Exists(task[c].project)
  /\ file' = Inserted(task[c])
  /\ Goto(c, [pc |-> "journal", file |-> task[c].file])
  /\ acked' = acked \cup {task[c].file}
  /\ UNCHANGED <<users, receipt, outbox, stamp, bucket, removed, left>>

InsertFile(c) ==
  /\ task[c].pc = "insert"
  /\ ~UserLocked(task[c].user) /\ ~ProjectLocked(task[c].project)
  /\ task[c].user \in users /\ Exists(task[c].project)
  /\ file' = Inserted(task[c])
  /\ IF task[c].cover
     THEN /\ Goto(c, [pc |-> "archive", file |-> task[c].file,
                      project |-> task[c].project])
          /\ UNCHANGED acked
     ELSE Return(c) /\ acked' = acked \cup {task[c].file}
  /\ UNCHANGED <<users, receipt, outbox, stamp, bucket, removed, left>>

\* The INSERT is refused (its account or project is gone), or its answer is
\* lost, committed or not; the deferred cleanup removes the object.
InsertFails(c) ==
  /\ task[c].pc = "insert"
  /\ \/ UNCHANGED file
     \/ /\ ~UserLocked(task[c].user) /\ ~ProjectLocked(task[c].project)
        /\ task[c].user \in users /\ Exists(task[c].project)
        /\ file' = Inserted(task[c])
  /\ Goto(c, [pc |-> "journal", file |-> task[c].file])
  /\ UNCHANGED <<users, receipt, outbox, stamp, bucket, history>>

Covers(p) == {f \in Files : HasRow(f) /\ file[f].cover /\ file[f].project = p}

\* Variant: the comparison of created_at is dropped.
OtherCovers(f, p) == {g \in Covers(p) : Live(g) /\ g # f /\ HasRow(f)}

OlderCovers(f, p) ==
  {g \in Covers(p) : Live(g) /\ HasRow(f) /\ stamp[g] < stamp[f]}

ArchivePreviousCovers(c) ==
  /\ task[c].pc = "archive"
  /\ LET old == OlderCovers(task[c].file, task[c].project) IN
     /\ \A g \in old : ~RowLocked(g)
     /\ file' = [g \in Files |-> IF g \in old THEN [file[g] EXCEPT !.status = "archived"]
                                              ELSE file[g]]
     /\ outbox' = Enqueued(old)
  /\ acked' = acked \cup {task[c].file}
  /\ Return(c)
  /\ UNCHANGED <<users, receipt, stamp, bucket, removed, left>>

\* Its errors are only logged.
ArchiveFails(c) ==
  /\ task[c].pc = "archive"
  /\ acked' = acked \cup {task[c].file}
  /\ Return(c)
  /\ UNCHANGED <<database, stamp, bucket, removed, left>>

-----------------------------------------------------------------------------
(* DELETE /files/{id}.                                                     *)

BeginDelete(c, f) ==
  /\ task[c] = Idle
  /\ Live(f)
  /\ Goto(c, [pc |-> "delete", file |-> f])
  /\ UNCHANGED <<database, stamp, bucket, history>>

WithoutReceipts(fs) ==
  [i \in Items |-> IF receipt[i] \in fs THEN NoFile ELSE receipt[i]]

DeleteFile(c) ==
  /\ task[c].pc = "delete"
  /\ LET f == task[c].file IN
     /\ ~RowLocked(f)
     /\ IF Live(f)
        THEN /\ file' = [file EXCEPT ![f].status = "archived"]
             /\ outbox' = Enqueued({f})
             /\ receipt' = WithoutReceipts({f})
             /\ removed' = removed \cup {f}
             /\ Goto(c, [pc |-> "journal", file |-> f])
        ELSE /\ Return(c)
             /\ UNCHANGED <<file, outbox, receipt, removed>>
  /\ UNCHANGED <<users, stamp, bucket, acked, left>>

-----------------------------------------------------------------------------
(* Cost items: the receipt is checked, then written by a statement of its  *)
(* own.  A deleted item counts as one without a receipt.                   *)

CheckReceipt(c, i, f) ==
  /\ task[c] = Idle
  /\ Live(f) /\ ~file[f].cover
  /\ Goto(c, [pc |-> "attach", item |-> i, file |-> f])
  /\ UNCHANGED <<database, stamp, bucket, history>>

AttachReceipt(c) ==
  /\ task[c].pc = "attach"
  /\ ~RowLocked(task[c].file)
  /\ receipt' = IF HasRow(task[c].file)
                THEN [receipt EXCEPT ![task[c].item] = task[c].file]
                ELSE receipt
  /\ Return(c)
  /\ UNCHANGED <<users, file, outbox, stamp, bucket, history>>

DeleteCostItem(i) ==
  /\ receipt[i] # NoFile
  /\ receipt' = [receipt EXCEPT ![i] = NoFile]
  /\ UNCHANGED <<users, file, outbox, stamp, bucket, task, history>>

-----------------------------------------------------------------------------
(* DELETE /account: one transaction, with the tombstone of the account     *)
(* written while it is open.                                               *)

FilesOf(u) ==
  {f \in Files : HasRow(f) /\ (file[f].user = u \/ OwnerOf[file[f].project] = u)}

BeginDeleteAccount(c, u) ==
  /\ task[c] = Idle
  /\ u \in users /\ ~UserLocked(u)
  /\ \A f \in FilesOf(u) : ~RowLocked(f)
  /\ Goto(c, [pc |-> "account", user |-> u])
  /\ UNCHANGED <<database, stamp, bucket, history>>

\* Variant: the transaction commits without the journal's answer.
SkipAccountJournal(c) ==
  /\ task[c].pc = "account"
  /\ GotoPc(c, "commit")
  /\ UNCHANGED <<database, stamp, bucket, history>>

RecordAccountDeletion(c) ==
  /\ task[c].pc = "account"
  /\ accTombs' = accTombs \cup {task[c].user}
  /\ GotoPc(c, "commit")
  /\ UNCHANGED <<database, stamp, objects, tombs, history>>

\* The account's own uploads and, by cascade, every file of its projects go;
\* the trigger of files queues their objects.
CommitAccountDeletion(c) ==
  /\ task[c].pc = "commit"
  /\ LET u == task[c].user IN
     /\ users' = users \ {u}
     /\ file' = [f \in Files |-> IF f \in FilesOf(u) THEN NoRow ELSE file[f]]
     /\ outbox' = Enqueued(FilesOf(u))
     /\ receipt' = WithoutReceipts(FilesOf(u))
     /\ removed' = removed \cup FilesOf(u)
     /\ left' = left \cup {u}
  /\ Return(c)
  /\ UNCHANGED <<stamp, bucket, acked>>

-----------------------------------------------------------------------------
(* S3Store.Delete, called by removeStoredFile, by the cleanup of a failed  *)
(* Put and by the deletion workers: first the tombstone, then the object.  *)

RecordObjectDeletion(t) ==
  /\ task[t].pc = "journal"
  /\ tombs' = tombs \cup {task[t].file}
  /\ GotoPc(t, "erase")
  /\ UNCHANGED <<database, stamp, objects, accTombs, history>>

EraseObject(t) ==
  /\ task[t].pc = "erase"
  /\ objects' = objects \ {task[t].file}
  /\ GotoPc(t, "erased")
  /\ UNCHANGED <<database, stamp, tombs, accTombs, history>>

\* A call that reports an error may have taken effect.
RemovalFails(t) ==
  /\ \/ task[t].pc = "journal" /\ UNCHANGED objects
                               /\ tombs' \in {tombs, tombs \cup {task[t].file}}
     \/ task[t].pc = "erase" /\ UNCHANGED tombs
                             /\ objects' \in {objects, objects \ {task[t].file}}
  /\ GotoPc(t, "failed")
  /\ UNCHANGED <<database, stamp, accTombs, history>>

\* removeStoredFile after Delete.
Unqueue(c) ==
  /\ task[c].pc = "erased"
  /\ outbox' = [outbox EXCEPT ![task[c].file].status = "none"]
  /\ Return(c)
  /\ UNCHANGED <<users, file, receipt, stamp, bucket, history>>

\* Variant: a removal that failed is taken off the queue.
UnqueueAnyway(c) ==
  /\ task[c].pc = "failed"
  /\ outbox' = [outbox EXCEPT ![task[c].file].status = "none"]
  /\ Return(c)
  /\ UNCHANGED <<users, file, receipt, stamp, bucket, history>>

QueueStorageDeletion(c) ==
  /\ task[c].pc = "failed"
  /\ outbox' = Enqueued({task[c].file})
  /\ Return(c)
  /\ UNCHANGED <<users, file, receipt, stamp, bucket, history>>

-----------------------------------------------------------------------------
(* The deletion worker: claim an entry under a lease, delete, then mark it *)
(* complete or reschedule it, by the entry's id.                           *)

ClaimDeletion(w, f) ==
  /\ task[w] = Idle
  /\ outbox[f].status = "due"
  /\ outbox' = [outbox EXCEPT ![f].status = "claimed"]
  /\ Goto(w, [pc |-> "journal", file |-> f, id |-> outbox[f].id])
  /\ UNCHANGED <<users, file, receipt, stamp, bucket, history>>

\* UPDATE or DELETE ... WHERE id = $1 finds nothing when the entry is gone.
SetEntry(w, status) ==
  outbox' = LET f == task[w].file IN
            IF outbox[f].id = task[w].id /\ outbox[f].status # "none"
            THEN [outbox EXCEPT ![f].status = status]
            ELSE outbox

MarkDeletionComplete(w) ==
  /\ task[w].pc = "erased"
  /\ SetEntry(w, "none")
  /\ Return(w)
  /\ UNCHANGED <<users, file, receipt, stamp, bucket, history>>

\* Variant: an entry that failed once is given up.
DropDeletion(w) ==
  /\ task[w].pc = "failed"
  /\ SetEntry(w, "none")
  /\ Return(w)
  /\ UNCHANGED <<users, file, receipt, stamp, bucket, history>>

RescheduleDeletion(w) ==
  /\ task[w].pc = "failed"
  /\ SetEntry(w, "later")
  /\ Return(w)
  /\ UNCHANGED <<users, file, receipt, stamp, bucket, history>>

\* On shutdown the claims that were not started are given back.
ReleaseDeletionClaim(w) ==
  /\ task[w].pc = "journal"
  /\ SetEntry(w, "due")
  /\ Return(w)
  /\ UNCHANGED <<users, file, receipt, stamp, bucket, history>>

\* A worker finishes an entry well within its lease (20 s and 5 s of 5 min),
\* so a lease runs out only when its holder has stopped.
LeaseLapses(f) ==
  /\ outbox[f].status = "claimed"
  /\ \A w \in Workers : task[w] # Idle =>
       ~(task[w].file = f /\ task[w].id = outbox[f].id)
  /\ outbox' = [outbox EXCEPT ![f].status = "due"]
  /\ UNCHANGED <<users, file, receipt, stamp, bucket, task, history>>

RetryDue(f) ==
  /\ outbox[f].status = "later"
  /\ outbox' = [outbox EXCEPT ![f].status = "due"]
  /\ UNCHANGED <<users, file, receipt, stamp, bucket, task, history>>

\* A deadline, a lost connection or a crash: the task stops where it is and
\* PostgreSQL rolls an open transaction back.
Abort(t) ==
  /\ task[t] # Idle
  /\ Return(t)
  /\ UNCHANGED <<database, stamp, bucket, history>>

-----------------------------------------------------------------------------
Request(c) ==
  \/ \E f \in Files, u \in Users, p \in Projects, cover \in BOOLEAN :
       BeginUpload(c, f, u, p, cover)
  \/ PutObject(c) \/ PutFails(c)
  \/ InsertFile(c) \/ InsertFails(c)
  \/ ArchivePreviousCovers(c) \/ ArchiveFails(c)
  \/ \E f \in Files : BeginDelete(c, f)
  \/ DeleteFile(c)
  \/ \E i \in Items, f \in Files : CheckReceipt(c, i, f)
  \/ AttachReceipt(c)
  \/ \E u \in Users : BeginDeleteAccount(c, u)
  \/ RecordAccountDeletion(c) \/ CommitAccountDeletion(c)
  \/ Unqueue(c) \/ QueueStorageDeletion(c)

DeletionWorker(w) ==
  \/ \E f \in Files : ClaimDeletion(w, f)
  \/ MarkDeletionComplete(w) \/ RescheduleDeletion(w) \/ ReleaseDeletionClaim(w)

Next ==
  \/ \E c \in Calls : Request(c)
  \/ \E w \in Workers : DeletionWorker(w)
  \/ \E t \in Tasks : RecordObjectDeletion(t) \/ EraseObject(t) \/ RemovalFails(t)
                      \/ Abort(t)
  \/ \E f \in Files : LeaseLapses(f) \/ RetryDue(f)
  \/ \E i \in Items : DeleteCostItem(i)

Spec == Init /\ [][Next]_vars

-----------------------------------------------------------------------------
(* Fairness.  The worker polls every 5 s and is restarted with the API; a  *)
(* goroutine is bounded by its timeouts; a lease and a retry delay run     *)
(* out; S3 does not refuse one object every single time.                   *)

WorkerOn(A(_), f) ==
  \E w \in Workers : task[w] # Idle /\ task[w].file = f /\ A(w)
Claimed(f) == \E w \in Workers : ClaimDeletion(w, f)

Fairness ==
  /\ \A w \in Workers : WF_vars(MarkDeletionComplete(w) \/ RescheduleDeletion(w) \/ Abort(w))
  /\ \A f \in Files :
       /\ SF_vars(Claimed(f))
       /\ SF_vars(WorkerOn(RecordObjectDeletion, f))
       /\ SF_vars(WorkerOn(EraseObject, f))
       /\ WF_vars(LeaseLapses(f)) /\ WF_vars(RetryDue(f))

FairSpec == Spec /\ Fairness

-----------------------------------------------------------------------------
(* Properties. *)

\* The tables, the journal and the tasks only take the values the handlers
\* and the CHECK constraints allow.
TypeOK ==
  /\ users \subseteq Users
  /\ file \in [Files -> {NoRow} \cup FileRow]
  /\ stamp \in [Files -> Nat]
  /\ receipt \in [Items -> Files \cup {NoFile}]
  /\ outbox \in [Files -> Entry]
  /\ objects \subseteq Files /\ tombs \subseteq Files /\ accTombs \subseteq Users
  /\ task \in [Tasks -> CallState \cup WorkerState]
  /\ \A c \in Calls : task[c] \in CallState
  /\ \A w \in Workers : task[w] \in WorkerState
  /\ acked \subseteq Files /\ removed \subseteq Files /\ left \subseteq Users

\* The object of an archived or deleted file is not forgotten: as long as it
\* is in the bucket there is an outbox entry for it, however the request
\* that removes it inline, the workers and the account deletion race, and
\* wherever one of them stops.
RemovedObjectsAreQueued ==
  \A f \in objects :
    file[f].status = "archived" \/ (f \in removed /\ ~HasRow(f)) =>
      outbox[f].status # "none"

\* A file whose upload was answered with 201 can be downloaded while its row
\* is live: no cleanup of a failed request, stale worker or retry takes the
\* object away under it.
AcknowledgedUploadsKept ==
  \A f \in acked : Live(f) => f \in objects

\* Concurrent uploads of covers do not archive one another: a project shows
\* a cover unless a user deleted one (or an account with its uploads).
CoverSurvives ==
  left = {} =>
    \A p \in Projects :
      Covers(p) # {} /\ Covers(p) \cap removed = {} => \E f \in Covers(p) : Live(f)

\* A deleted account leaves no file behind, its own or in its projects: an
\* upload that was admitted before the deletion cannot store its row after it.
AccountLeavesNothing == \A u \in left : FilesOf(u) = {}

\* What rows, objects and answers say, as the state of ObjectLife.
ServedFiles == {f \in objects : Live(f) /\ f \in acked}
RetiredFiles ==
  {f \in objects \ ServedFiles : file[f].status = "archived" \/ f \in removed}
ObjectsLife == INSTANCE ObjectLife WITH
  stored <- objects \ (ServedFiles \cup RetiredFiles),
  served <- ServedFiles,
  retired <- RetiredFiles,
  gone <- {f \in Files : stamp[f] # 0} \ objects

\* The storage implements ObjectLife: however uploads, covers, deletions, account
\* deletions and workers race, fail or stop, no object is erased while its file
\* is shown, none is shown before its upload succeeded, and no file that was
\* deleted or replaced is shown again.
LifeSpec == ObjectsLife!Spec

\* What was deleted is removed from the bucket in the end, although S3 calls
\* fail, workers stop and leases are left behind.
RemovedObjectsGo ==
  \A f \in Files :
    (f \in objects /\ (file[f].status = "archived" \/ f \in removed)) ~> f \notin objects

-----------------------------------------------------------------------------
(* A claim of the documentation that the code does not keep. *)

\* SMOKE_TESTS.md: deleting an attached receipt clears the link from the
\* cost item, i.e. a cost item never shows a receipt that was deleted.
DeletedReceiptsAreDetached ==
  \A i \in Items : receipt[i] # NoFile => Live(receipt[i])
=============================================================================
