----------------------------- MODULE FileProofs -----------------------------
(***************************************************************************)
(* Proofs about FileStorage and FileRestore, for every number of accounts, *)
(* projects, files, requests and deletion workers.                         *)
(***************************************************************************)
EXTENDS FileRestore, FiniteSetTheorems, TLAPS

-----------------------------------------------------------------------------
(* Types. *)

\* What a task carries at each of its steps.
LEMMA TaskShape ==
  ASSUME TypeOK, NEW t \in Tasks
  PROVE  /\ task[t].pc \in {"put", "insert"} =>
              /\ t \in Calls
              /\ task[t] \in [pc : {"put", "insert"}, file : Files, user : Users,
                              project : Projects, cover : BOOLEAN]
         /\ task[t].pc = "archive" =>
              t \in Calls /\ task[t] \in [pc : {"archive"}, file : Files, project : Projects]
         /\ task[t].pc = "delete" =>
              t \in Calls /\ task[t] \in [pc : {"delete"}, file : Files]
         /\ task[t].pc = "attach" =>
              t \in Calls /\ task[t] \in [pc : {"attach"}, item : Items, file : Files]
         /\ task[t].pc \in {"account", "commit"} =>
              t \in Calls /\ task[t] \in [pc : {"account", "commit"}, user : Users]
         /\ task[t].pc \in {"journal", "erase", "erased", "failed"} /\ t \in Calls =>
              task[t] \in [pc : {"journal", "erase", "erased", "failed"}, file : Files]
         /\ task[t].pc \in {"journal", "erase", "erased", "failed"} /\ t \in Workers =>
              task[t] \in [pc : {"journal", "erase", "erased", "failed"}, file : Files,
                           id : Nat]
         /\ task[t].pc \in {"journal", "erase", "erased", "failed"} =>
              task[t].file \in Files
  <1>1. CASE t \in Calls
    <2>1. task[t] \in CallState /\ t \notin Workers
      BY <1>1, StorageAssumption DEF TypeOK
    <2>2. QED BY <1>1, <2>1 DEF CallState, Idle
  <1>2. CASE t \in Workers
    <2>1. task[t] \in WorkerState /\ t \notin Calls
      BY <1>2, StorageAssumption DEF TypeOK
    <2>2. QED BY <1>2, <2>1 DEF WorkerState, Idle
  <1>3. QED BY <1>1, <1>2 DEF Tasks

\* A task moves and leaves the others where they are.
LEMMA TaskMoves ==
  ASSUME TypeOK, NEW t \in Tasks, NEW state, Goto(t, state)
  PROVE  /\ task'[t] = state
         /\ \A d \in Tasks : d # t => task'[d] = task[d]
  BY DEF TypeOK, Goto

LEMMA CallMoves ==
  ASSUME TypeOK, NEW c \in Calls, NEW state \in CallState, Goto(c, state)
  PROVE  /\ task' \in [Tasks -> CallState \cup WorkerState]
         /\ \A d \in Calls : task'[d] \in CallState
         /\ \A w \in Workers : task'[w] \in WorkerState
  BY StorageAssumption DEF TypeOK, Goto, Tasks

LEMMA WorkerMoves ==
  ASSUME TypeOK, NEW w \in Workers, NEW state \in WorkerState, Goto(w, state)
  PROVE  /\ task' \in [Tasks -> CallState \cup WorkerState]
         /\ \A d \in Calls : task'[d] \in CallState
         /\ \A d \in Workers : task'[d] \in WorkerState
  BY StorageAssumption DEF TypeOK, Goto, Tasks

\* A removal goes on at another step.
LEMMA RemovalMoves ==
  ASSUME TypeOK, NEW t \in Tasks, NEW pc \in {"journal", "erase", "erased", "failed"},
         task[t].pc \in {"journal", "erase", "erased", "failed"}, GotoPc(t, pc)
  PROVE  /\ task'[t].pc = pc /\ task'[t].file = task[t].file
         /\ \A d \in Tasks : d # t => task'[d] = task[d]
         /\ task' \in [Tasks -> CallState \cup WorkerState]
         /\ \A d \in Calls : task'[d] \in CallState
         /\ \A d \in Workers : task'[d] \in WorkerState
  <1> DEFINE state == [task[t] EXCEPT !.pc = pc]
  <1>1. Goto(t, state)
    BY DEF GotoPc, Goto
  <1>2. state.pc = pc /\ state.file = task[t].file
    BY TaskShape DEF Tasks
  <1>3. CASE t \in Calls
    <2>1. state \in CallState
      BY <1>3, TaskShape DEF CallState
    <2>2. QED BY <1>1, <1>2, <1>3, <2>1, TaskMoves, CallMoves
  <1>4. CASE t \in Workers
    <2>1. state \in WorkerState
      BY <1>4, TaskShape DEF WorkerState
    <2>2. QED BY <1>1, <1>2, <1>4, <2>1, TaskMoves, WorkerMoves
  <1>5. QED BY <1>3, <1>4 DEF Tasks

LEMMA IdleState == Idle \in CallState /\ Idle \in WorkerState
  BY DEF Idle, CallState, WorkerState

LEMMA TaskReturns ==
  ASSUME TypeOK, NEW t \in Tasks, Return(t)
  PROVE  /\ task'[t] = Idle
         /\ \A d \in Tasks : d # t => task'[d] = task[d]
         /\ task' \in [Tasks -> CallState \cup WorkerState]
         /\ \A d \in Calls : task'[d] \in CallState
         /\ \A d \in Workers : task'[d] \in WorkerState
  BY IdleState, TaskMoves, CallMoves, WorkerMoves DEF Return, Tasks

LEMMA EntriesQueued ==
  ASSUME TypeOK, NEW fs \in SUBSET Files
  PROVE  /\ Enqueued(fs) \in [Files -> Entry]
         /\ \A f \in fs : Enqueued(fs)[f].status # "none"
         /\ \A f \in Files : outbox[f].status # "none" => Enqueued(fs)[f] = outbox[f]
         /\ \A f \in Files \ fs : Enqueued(fs)[f] = outbox[f]
  <1>1. \A f \in Files : outbox[f] \in [id : Nat, status : {"none", "due", "claimed", "later"}]
    BY DEF TypeOK, Entry
  <1>2. QED BY <1>1 DEF Enqueued, Entry

LEMMA EntriesSet ==
  ASSUME TypeOK, NEW f \in Files, NEW status \in {"none", "due", "claimed", "later"},
         outbox' = [outbox EXCEPT ![f].status = status]
  PROVE  /\ outbox' \in [Files -> Entry]
         /\ outbox'[f].status = status
         /\ \A g \in Files \ {f} : outbox'[g] = outbox[g]
  <1>1. outbox[f] \in [id : Nat, status : {"none", "due", "claimed", "later"}]
    BY DEF TypeOK, Entry
  <1>2. QED BY <1>1 DEF TypeOK, Entry

LEMMA StampsSet ==
  ASSUME TypeOK, NEW f \in Files, stamp' = Stamped(f)
  PROVE  /\ stamp' \in [Files -> Nat] /\ stamp'[f] # 0
         /\ \A g \in Files \ {f} : stamp'[g] = stamp[g]
  <1> DEFINE n == Cardinality({g \in Files : stamp[g] # 0})
  <1>1. n \in Nat
    <2>1. {g \in Files : stamp[g] # 0} \subseteq Files
      OBVIOUS
    <2>2. QED BY <2>1, StorageAssumption, FS_CardinalityType, FS_Subset
  <1>2. stamp' = [stamp EXCEPT ![f] = 1 + n]
    BY DEF Stamped
  <1> HIDE DEF n
  <1>3. QED BY <1>1, <1>2 DEF TypeOK

LEMMA RowStored ==
  ASSUME TypeOK, NEW c \in Calls, task[c].pc = "insert", file' = Inserted(task[c])
  PROVE  /\ file' \in [Files -> {NoRow} \cup FileRow]
         /\ file'[task[c].file].status = "live"
         /\ file'[task[c].file].user = task[c].user
         /\ file'[task[c].file].project = task[c].project
         /\ file'[task[c].file].cover = task[c].cover
         /\ \A g \in Files : g # task[c].file => file'[g] = file[g]
  <1>1. task[c] \in [pc : {"put", "insert"}, file : Files, user : Users,
                     project : Projects, cover : BOOLEAN]
    BY TaskShape DEF Tasks
  <1>2. QED BY <1>1 DEF TypeOK, Inserted, FileRow

LEMMA RowsOfFiles ==
  ASSUME TypeOK, NEW f \in Files
  PROVE  /\ HasRow(f) => file[f] \in FileRow
         /\ ~HasRow(f) => file[f] = NoRow
         /\ Live(f) => HasRow(f)
         /\ HasRow(f) /\ ~Live(f) => file[f].status = "archived"
  <1>1. file[f] = NoRow \/ file[f] \in FileRow
    BY DEF TypeOK
  <1>2. CASE file[f] = NoRow
    BY <1>2 DEF NoRow, HasRow, Live
  <1>3. CASE file[f] \in FileRow
    BY <1>3 DEF FileRow, HasRow, Live
  <1>4. QED BY <1>1, <1>2, <1>3

LEMMA TypesFirst ==
  ASSUME Init
  PROVE  TypeOK
  <1>1. outbox \in [Files -> Entry]
    BY DEF Init, Entry
  <1>2. task \in [Tasks -> {Idle}]
    BY DEF Init
  <1>3. QED
    BY <1>1, <1>2, IdleState DEF Init, TypeOK, Tasks

\* Uploads and covers.
LEMMA UploadTypes ==
  ASSUME TypeOK, NEW c \in Calls,
         \/ \E f \in Files, u \in Users, p \in Projects, cover \in BOOLEAN :
              BeginUpload(c, f, u, p, cover)
         \/ PutObject(c) \/ PutFails(c)
         \/ InsertFile(c) \/ InsertFails(c)
         \/ ArchivePreviousCovers(c) \/ ArchiveFails(c)
  PROVE  TypeOK'
  <1> USE DEF database, bucket, history
  <1>0. c \in Tasks
    BY DEF Tasks
  <1>1. ASSUME NEW f \in Files, NEW u \in Users, NEW p \in Projects,
               NEW cover \in BOOLEAN, BeginUpload(c, f, u, p, cover)
        PROVE  TypeOK'
    <2> DEFINE state == [pc |-> "put", file |-> f, user |-> u, project |-> p,
                         cover |-> cover]
    <2>1. state \in CallState
      BY DEF CallState
    <2>2. Goto(c, state)
      BY <1>1 DEF BeginUpload
    <2> HIDE DEF state
    <2>3. QED BY <1>1, <2>1, <2>2, CallMoves DEF BeginUpload, TypeOK
  <1>2. ASSUME PutObject(c)
        PROVE  TypeOK'
    <2> DEFINE state == [task[c] EXCEPT !.pc = "insert"]
    <2>1. task[c] \in [pc : {"put", "insert"}, file : Files, user : Users,
                       project : Projects, cover : BOOLEAN]
      BY <1>0, <1>2, TaskShape DEF PutObject
    <2>2. state \in CallState
      BY <2>1 DEF CallState
    <2>3. Goto(c, state)
      BY <1>2 DEF PutObject, GotoPc, Goto
    <2> HIDE DEF state
    <2>4. stamp' \in [Files -> Nat] /\ objects' \subseteq Files
      BY <1>2, <2>1, StampsSet DEF PutObject, TypeOK
    <2>5. QED BY <1>2, <2>2, <2>3, <2>4, CallMoves DEF PutObject, TypeOK
  <1>3. ASSUME PutFails(c)
        PROVE  TypeOK'
    <2> DEFINE state == [pc |-> "journal", file |-> task[c].file]
    <2>1. task[c].file \in Files
      BY <1>0, <1>3, TaskShape DEF PutFails
    <2>2. state \in CallState
      BY <2>1 DEF CallState
    <2>3. Goto(c, state)
      BY <1>3 DEF PutFails
    <2> HIDE DEF state
    <2>4. stamp' \in [Files -> Nat] /\ objects' \subseteq Files
      BY <1>3, <2>1, StampsSet DEF PutFails, TypeOK
    <2>5. QED BY <1>3, <2>2, <2>3, <2>4, CallMoves DEF PutFails, TypeOK
  <1>4. ASSUME InsertFile(c)
        PROVE  TypeOK'
    <2> DEFINE state == [pc |-> "archive", file |-> task[c].file,
                         project |-> task[c].project]
    <2>1. task[c].file \in Files /\ task[c].project \in Projects
      BY <1>0, <1>4, TaskShape DEF InsertFile
    <2>2. state \in CallState
      BY <2>1 DEF CallState
    <2>3. Goto(c, state) \/ Goto(c, Idle)
      BY <1>4 DEF InsertFile, Return
    <2> HIDE DEF state
    <2>4. file' \in [Files -> {NoRow} \cup FileRow]
      BY <1>4, RowStored DEF InsertFile
    <2>5. acked' \subseteq Files
      BY <1>4, <2>1 DEF InsertFile, TypeOK
    <2>6. QED BY <1>4, <2>2, <2>3, <2>4, <2>5, CallMoves, IdleState DEF InsertFile, TypeOK
  <1>5. ASSUME InsertFails(c)
        PROVE  TypeOK'
    <2> DEFINE state == [pc |-> "journal", file |-> task[c].file]
    <2>1. task[c].file \in Files
      BY <1>0, <1>5, TaskShape DEF InsertFails
    <2>2. state \in CallState
      BY <2>1 DEF CallState
    <2>3. Goto(c, state)
      BY <1>5 DEF InsertFails
    <2> HIDE DEF state
    <2>4. file' \in [Files -> {NoRow} \cup FileRow]
      BY <1>5, RowStored DEF InsertFails, TypeOK
    <2>5. QED BY <1>5, <2>2, <2>3, <2>4, CallMoves DEF InsertFails, TypeOK
  <1>6. ASSUME ArchivePreviousCovers(c)
        PROVE  TypeOK'
    <2> DEFINE old == OlderCovers(task[c].file, task[c].project)
    <2>1. task[c].file \in Files
      BY <1>0, <1>6, TaskShape DEF ArchivePreviousCovers
    <2>2. old \subseteq Files /\ \A g \in old : Live(g)
      BY DEF OlderCovers, Covers
    <2>3. outbox' = Enqueued(old)
      BY <1>6 DEF ArchivePreviousCovers
    <2>4. file' \in [Files -> {NoRow} \cup FileRow]
      <3>1. \A g \in old : [file[g] EXCEPT !.status = "archived"] \in FileRow
        BY <2>2, RowsOfFiles DEF FileRow
      <3>2. file' = [g \in Files |-> IF g \in old THEN [file[g] EXCEPT !.status = "archived"]
                                                  ELSE file[g]]
        BY <1>6 DEF ArchivePreviousCovers
      <3> HIDE DEF old
      <3>3. QED BY <3>1, <3>2 DEF TypeOK
    <2> HIDE DEF old
    <2>5. outbox' \in [Files -> Entry]
      BY <2>2, <2>3, EntriesQueued
    <2>6. QED
      BY <1>0, <1>6, <2>1, <2>4, <2>5, TaskReturns DEF ArchivePreviousCovers, TypeOK
  <1>7. ASSUME ArchiveFails(c)
        PROVE  TypeOK'
    <2>1. task[c].file \in Files
      BY <1>0, <1>7, TaskShape DEF ArchiveFails
    <2>2. QED BY <1>0, <1>7, <2>1, TaskReturns DEF ArchiveFails, TypeOK
  <1>8. QED BY <1>1, <1>2, <1>3, <1>4, <1>5, <1>6, <1>7

\* Deletions of files and accounts, and receipts.
LEMMA RequestTypes ==
  ASSUME TypeOK, NEW c \in Calls,
         \/ \E f \in Files : BeginDelete(c, f)
         \/ DeleteFile(c)
         \/ \E i \in Items, f \in Files : CheckReceipt(c, i, f)
         \/ AttachReceipt(c)
         \/ \E u \in Users : BeginDeleteAccount(c, u)
         \/ RecordAccountDeletion(c) \/ CommitAccountDeletion(c)
         \/ Unqueue(c) \/ QueueStorageDeletion(c)
  PROVE  TypeOK'
  <1> USE DEF database, bucket, history
  <1>0. c \in Tasks
    BY DEF Tasks
  <1>1. ASSUME NEW f \in Files, BeginDelete(c, f)
        PROVE  TypeOK'
    <2> DEFINE state == [pc |-> "delete", file |-> f]
    <2>1. state \in CallState
      BY DEF CallState
    <2>2. Goto(c, state)
      BY <1>1 DEF BeginDelete
    <2> HIDE DEF state
    <2>3. QED BY <1>1, <2>1, <2>2, CallMoves DEF BeginDelete, TypeOK
  <1>2. ASSUME DeleteFile(c)
        PROVE  TypeOK'
    <2> DEFINE f == task[c].file
               state == [pc |-> "journal", file |-> f]
    <2>1. f \in Files
      BY <1>0, <1>2, TaskShape DEF DeleteFile
    <2>2. CASE ~Live(f)
      BY <1>0, <1>2, <2>2, TaskReturns DEF DeleteFile, TypeOK
    <2>3. CASE Live(f)
      <3>1. state \in CallState /\ Goto(c, state)
        BY <1>2, <2>1, <2>3 DEF DeleteFile, CallState
      <3>2. file' \in [Files -> {NoRow} \cup FileRow]
        <4>1. file[f] \in FileRow /\ file' = [file EXCEPT ![f].status = "archived"]
          BY <1>2, <2>1, <2>3, RowsOfFiles DEF DeleteFile
        <4> HIDE DEF f
        <4>2. QED BY <2>1, <4>1 DEF TypeOK, FileRow
      <3>3. outbox' \in [Files -> Entry]
        BY <1>2, <2>1, <2>3, EntriesQueued DEF DeleteFile
      <3>4. receipt' \in [Items -> Files \cup {NoFile}] /\ removed' \subseteq Files
        BY <1>2, <2>1, <2>3 DEF DeleteFile, TypeOK, WithoutReceipts
      <3> HIDE DEF state
      <3>5. QED BY <1>2, <3>1, <3>2, <3>3, <3>4, CallMoves DEF DeleteFile, TypeOK
    <2>4. QED BY <2>2, <2>3
  <1>3. ASSUME NEW i \in Items, NEW f \in Files, CheckReceipt(c, i, f)
        PROVE  TypeOK'
    <2> DEFINE state == [pc |-> "attach", item |-> i, file |-> f]
    <2>1. state \in CallState
      BY DEF CallState
    <2>2. Goto(c, state)
      BY <1>3 DEF CheckReceipt
    <2> HIDE DEF state
    <2>3. QED BY <1>3, <2>1, <2>2, CallMoves DEF CheckReceipt, TypeOK
  <1>4. ASSUME AttachReceipt(c)
        PROVE  TypeOK'
    <2>1. task[c].file \in Files
      BY <1>0, <1>4, TaskShape DEF AttachReceipt
    <2>2. receipt' \in [Items -> Files \cup {NoFile}]
      BY <1>4, <2>1 DEF AttachReceipt, TypeOK
    <2>3. QED BY <1>0, <1>4, <2>2, TaskReturns DEF AttachReceipt, TypeOK
  <1>5. ASSUME NEW u \in Users, BeginDeleteAccount(c, u)
        PROVE  TypeOK'
    <2> DEFINE state == [pc |-> "account", user |-> u]
    <2>1. state \in CallState
      BY DEF CallState
    <2>2. Goto(c, state)
      BY <1>5 DEF BeginDeleteAccount
    <2> HIDE DEF state
    <2>3. QED BY <1>5, <2>1, <2>2, CallMoves DEF BeginDeleteAccount, TypeOK
  <1>6. ASSUME RecordAccountDeletion(c)
        PROVE  TypeOK'
    <2> DEFINE state == [task[c] EXCEPT !.pc = "commit"]
    <2>1. task[c] \in [pc : {"account", "commit"}, user : Users]
      BY <1>0, <1>6, TaskShape DEF RecordAccountDeletion
    <2>2. state \in CallState
      BY <2>1 DEF CallState
    <2>3. Goto(c, state)
      BY <1>6 DEF RecordAccountDeletion, GotoPc, Goto
    <2> HIDE DEF state
    <2>4. QED BY <1>6, <2>1, <2>2, <2>3, CallMoves DEF RecordAccountDeletion, TypeOK
  <1>7. ASSUME CommitAccountDeletion(c)
        PROVE  TypeOK'
    <2> DEFINE u == task[c].user
    <2>1. u \in Users
      BY <1>0, <1>7, TaskShape DEF CommitAccountDeletion
    <2>2. FilesOf(u) \subseteq Files
      BY DEF FilesOf
    <2>3. file' \in [Files -> {NoRow} \cup FileRow]
      BY <1>7 DEF CommitAccountDeletion, TypeOK
    <2>4. outbox' \in [Files -> Entry]
      BY <1>7, <2>2, EntriesQueued DEF CommitAccountDeletion
    <2>5. receipt' \in [Items -> Files \cup {NoFile}]
      BY <1>7 DEF CommitAccountDeletion, TypeOK, WithoutReceipts
    <2>6. users' \subseteq Users /\ removed' \subseteq Files /\ left' \subseteq Users
      BY <1>7, <2>1, <2>2 DEF CommitAccountDeletion, TypeOK
    <2>7. QED
      BY <1>0, <1>7, <2>3, <2>4, <2>5, <2>6, TaskReturns DEF CommitAccountDeletion, TypeOK
  <1>8. ASSUME Unqueue(c) \/ QueueStorageDeletion(c)
        PROVE  TypeOK'
    <2>1. task[c].file \in Files
      BY <1>0, <1>8, TaskShape DEF Unqueue, QueueStorageDeletion
    <2>2. outbox' \in [Files -> Entry]
      <3>1. CASE Unqueue(c)
        <4>1. outbox' = [outbox EXCEPT ![task[c].file].status = "none"]
          BY <3>1 DEF Unqueue
        <4>2. QED BY <2>1, <4>1, EntriesSet
      <3>2. CASE QueueStorageDeletion(c)
        BY <2>1, <3>2, EntriesQueued DEF QueueStorageDeletion
      <3>3. QED BY <1>8, <3>1, <3>2
    <2>3. QED
      BY <1>0, <1>8, <2>2, TaskReturns DEF Unqueue, QueueStorageDeletion, TypeOK
  <1>9. QED BY <1>1, <1>2, <1>3, <1>4, <1>5, <1>6, <1>7, <1>8

\* An entry set by its id.
LEMMA EntrySetById ==
  ASSUME TypeOK, NEW w \in Workers,
         task[w].pc \in {"journal", "erase", "erased", "failed"},
         NEW status \in {"none", "due", "later"}, SetEntry(w, status)
  PROVE  /\ outbox' \in [Files -> Entry]
         /\ \A g \in Files : g # task[w].file => outbox'[g] = outbox[g]
         /\ status # "none" /\ outbox'[task[w].file].status = "none" =>
              outbox[task[w].file].status = "none"
  <1> DEFINE f == task[w].file
             next == [outbox EXCEPT ![f].status = status]
  <1>1. f \in Files
    BY TaskShape DEF Tasks
  <1>2. outbox' = IF outbox[f].id = task[w].id /\ outbox[f].status # "none"
                  THEN next ELSE outbox
    BY DEF SetEntry
  <1>3. CASE outbox' = outbox
    BY <1>3 DEF TypeOK
  <1>4. CASE outbox[f].status # "none" /\ outbox' = next
    BY <1>1, <1>4, EntriesSet
  <1> HIDE DEF f, next
  <1>5. QED BY <1>2, <1>3, <1>4

\* Workers, the removal of objects, and time.
LEMMA WorkerTypes ==
  ASSUME TypeOK,
         \/ \E w \in Workers : DeletionWorker(w)
         \/ \E t \in Tasks : \/ RecordObjectDeletion(t) \/ EraseObject(t)
                            \/ RemovalFails(t) \/ Abort(t)
         \/ \E f \in Files : LeaseLapses(f) \/ RetryDue(f)
         \/ \E i \in Items : DeleteCostItem(i)
  PROVE  TypeOK'
  <1> USE DEF database, bucket, history
  <1>1. ASSUME NEW w \in Workers, NEW f \in Files, ClaimDeletion(w, f)
        PROVE  TypeOK'
    <2> DEFINE state == [pc |-> "journal", file |-> f, id |-> outbox[f].id]
    <2>1. state \in WorkerState
      BY DEF WorkerState, TypeOK, Entry
    <2>2. Goto(w, state)
      BY <1>1 DEF ClaimDeletion
    <2> HIDE DEF state
    <2>3. outbox' \in [Files -> Entry]
      BY <1>1, EntriesSet DEF ClaimDeletion
    <2>4. QED BY <1>1, <2>1, <2>2, <2>3, WorkerMoves DEF ClaimDeletion, TypeOK
  <1>2. ASSUME NEW w \in Workers,
               MarkDeletionComplete(w) \/ RescheduleDeletion(w) \/ ReleaseDeletionClaim(w)
        PROVE  TypeOK'
    <2>1. outbox' \in [Files -> Entry]
      BY <1>2, EntrySetById
         DEF MarkDeletionComplete, RescheduleDeletion, ReleaseDeletionClaim
    <2>2. QED
      BY <1>2, <2>1, TaskReturns
         DEF MarkDeletionComplete, RescheduleDeletion, ReleaseDeletionClaim, TypeOK, Tasks
  <1>3. ASSUME NEW t \in Tasks,
               RecordObjectDeletion(t) \/ EraseObject(t) \/ RemovalFails(t)
        PROVE  TypeOK'
    <2>1. task[t].file \in Files
      BY <1>3, TaskShape DEF RecordObjectDeletion, EraseObject, RemovalFails
    <2>2. tombs' \subseteq Files /\ objects' \subseteq Files
      BY <1>3, <2>1 DEF RecordObjectDeletion, EraseObject, RemovalFails, TypeOK
    <2>3. QED
      BY <1>3, <2>2, RemovalMoves
         DEF RecordObjectDeletion, EraseObject, RemovalFails, TypeOK
  <1>4. ASSUME NEW t \in Tasks, Abort(t)
        PROVE  TypeOK'
    BY <1>4, TaskReturns DEF Abort, TypeOK
  <1>5. ASSUME NEW f \in Files, LeaseLapses(f) \/ RetryDue(f)
        PROVE  TypeOK'
    <2>1. outbox' = [outbox EXCEPT ![f].status = "due"]
      BY <1>5 DEF LeaseLapses, RetryDue
    <2>2. outbox' \in [Files -> Entry]
      BY <2>1, EntriesSet
    <2>3. QED BY <1>5, <2>2 DEF LeaseLapses, RetryDue, TypeOK
  <1>6. ASSUME NEW i \in Items, DeleteCostItem(i)
        PROVE  TypeOK'
    BY <1>6 DEF DeleteCostItem, TypeOK
  <1>7. QED BY <1>1, <1>2, <1>3, <1>4, <1>5, <1>6 DEF DeletionWorker

LEMMA TypesKept ==
  ASSUME TypeOK, [Next]_vars
  PROVE  TypeOK'
  <1>1. CASE Next
    <2>1. ASSUME NEW c \in Calls, Request(c)
          PROVE  TypeOK'
      BY <2>1, UploadTypes, RequestTypes DEF Request
    <2>2. QED BY <1>1, <2>1, WorkerTypes DEF Next
  <1>2. CASE UNCHANGED vars
    BY <1>2 DEF vars, TypeOK
  <1>3. QED BY <1>1, <1>2

\* The tables, the journal, the requests and the workers keep their types.
THEOREM StorageTypeCorrect == Spec => []TypeOK
  BY TypesFirst, TypesKept, PTL DEF Spec

-----------------------------------------------------------------------------
(* Accounts that were deleted. *)

LeftGone == left \cap users = {}

LEMMA LeavingKept ==
  ASSUME TypeOK, LeftGone, AccountLeavesNothing, [Next]_vars
  PROVE  LeftGone' /\ AccountLeavesNothing'
  <1> USE DEF database, bucket, history
  <1>1. ASSUME NEW c \in Calls, task[c].pc = "insert", file' = Inserted(task[c]),
               task[c].user \in users, Exists(task[c].project), UNCHANGED <<users, left>>
        PROVE  LeftGone' /\ AccountLeavesNothing'
    <2>1. task[c].file \in Files
      BY <1>1, TaskShape DEF Tasks
    <2>2. ASSUME NEW u \in left, NEW f \in FilesOf(u)'
          PROVE  FALSE
      <3>1. u \notin users /\ f \in Files
        BY <1>1, <2>2 DEF LeftGone, FilesOf
      <3>2. CASE f = task[c].file
        <4>1. file'[f].user = task[c].user /\ file'[f].project = task[c].project
          BY <1>1, <3>2, RowStored
        <4>2. QED BY <1>1, <2>2, <3>1, <4>1 DEF FilesOf, Exists
      <3>3. CASE f # task[c].file
        <4>1. file'[f] = file[f]
          BY <1>1, <3>1, <3>3, RowStored
        <4>2. f \in FilesOf(u)
          BY <2>2, <3>1, <4>1 DEF FilesOf, HasRow
        <4>3. QED BY <2>2, <4>2 DEF AccountLeavesNothing
      <3>4. QED BY <3>2, <3>3
    <2>3. QED BY <1>1, <2>2 DEF LeftGone, AccountLeavesNothing
  <1>2. ASSUME \A f \in Files : file'[f] = file[f] \/ ~HasRow(f)' \/
                 /\ HasRow(f) /\ file'[f].user = file[f].user
                 /\ file'[f].project = file[f].project,
               UNCHANGED <<users, left>>
        PROVE  LeftGone' /\ AccountLeavesNothing'
    <2>1. \A u \in left : FilesOf(u)' \subseteq FilesOf(u)
      BY <1>2 DEF FilesOf, HasRow
    <2>2. QED BY <1>2, <2>1 DEF LeftGone, AccountLeavesNothing
  <1>3. ASSUME NEW c \in Calls, InsertFile(c) \/ InsertFails(c)
        PROVE  LeftGone' /\ AccountLeavesNothing'
    <2>1. CASE UNCHANGED file
      BY <1>2, <1>3, <2>1 DEF InsertFile, InsertFails
    <2>2. CASE file' # file
      BY <1>1, <1>3, <2>2 DEF InsertFile, InsertFails
    <2>3. QED BY <2>1, <2>2
  <1>4. ASSUME NEW c \in Calls, ArchivePreviousCovers(c)
        PROVE  LeftGone' /\ AccountLeavesNothing'
    <2> DEFINE old == OlderCovers(task[c].file, task[c].project)
    <2>1. \A f \in Files : f \notin old => file'[f] = file[f]
      BY <1>4 DEF ArchivePreviousCovers
    <2>2. \A f \in old : file[f] \in FileRow /\ HasRow(f)
      BY RowsOfFiles DEF OlderCovers, Covers
    <2>3. \A f \in old : file'[f] = [file[f] EXCEPT !.status = "archived"]
      BY <1>4 DEF ArchivePreviousCovers, OlderCovers, Covers
    <2>4. \A f \in old : file'[f].user = file[f].user /\ file'[f].project = file[f].project
      BY <2>2, <2>3 DEF FileRow
    <2> HIDE DEF old
    <2>5. QED BY <1>2, <1>4, <2>1, <2>2, <2>4 DEF ArchivePreviousCovers
  <1>5. ASSUME NEW c \in Calls, DeleteFile(c)
        PROVE  LeftGone' /\ AccountLeavesNothing'
    <2> DEFINE f == task[c].file
    <2>1. CASE ~Live(f)
      BY <1>2, <1>5, <2>1 DEF DeleteFile
    <2>2. CASE Live(f)
      <3>1. f \in Files
        BY <1>5, TaskShape DEF DeleteFile, Tasks
      <3>2. file[f] \in FileRow /\ HasRow(f)
        BY <2>2, <3>1, RowsOfFiles
      <3>3. file' = [file EXCEPT ![f].status = "archived"] /\ UNCHANGED <<users, left>>
        BY <1>5, <2>2 DEF DeleteFile
      <3> HIDE DEF f
      <3>4. file'[f].user = file[f].user /\ file'[f].project = file[f].project
        BY <3>1, <3>2, <3>3 DEF TypeOK, FileRow
      <3>5. \A g \in Files \ {f} : file'[g] = file[g]
        BY <3>1, <3>3 DEF TypeOK
      <3>6. QED BY <1>2, <3>2, <3>3, <3>4, <3>5
    <2>3. QED BY <2>1, <2>2
  <1>6. ASSUME NEW c \in Calls, CommitAccountDeletion(c)
        PROVE  LeftGone' /\ AccountLeavesNothing'
    <2> DEFINE u == task[c].user
    <2>1. users' = users \ {u} /\ left' = left \cup {u}
      BY <1>6 DEF CommitAccountDeletion
    <2>2. \A f \in Files : file'[f] = IF f \in FilesOf(u) THEN NoRow ELSE file[f]
      BY <1>6 DEF CommitAccountDeletion
    <2>3. \A v : FilesOf(v)' \subseteq FilesOf(v) \ FilesOf(u)
      BY <2>2 DEF FilesOf, HasRow, NoRow
    <2> HIDE DEF u
    <2>4. QED BY <2>1, <2>3 DEF LeftGone, AccountLeavesNothing
  <1>7. CASE UNCHANGED <<file, users, left>>
    BY <1>2, <1>7
  <1>8. CASE Next
    <2>1. ASSUME NEW c \in Calls, Request(c)
          PROVE  LeftGone' /\ AccountLeavesNothing'
      BY <1>3, <1>4, <1>5, <1>6, <1>7, <2>1
         DEF Request, BeginUpload, PutObject, PutFails, ArchiveFails, BeginDelete,
             CheckReceipt, AttachReceipt, BeginDeleteAccount, RecordAccountDeletion,
             Unqueue, QueueStorageDeletion
    <2>2. QED
      BY <1>7, <1>8, <2>1
         DEF Next, DeletionWorker, ClaimDeletion, MarkDeletionComplete, RescheduleDeletion,
             ReleaseDeletionClaim, RecordObjectDeletion, EraseObject, RemovalFails, Abort,
             LeaseLapses, RetryDue, DeleteCostItem
  <1>9. QED BY <1>7, <1>8 DEF vars

\* A deleted account leaves no file behind: what was admitted before its
\* deletion and is stored after it is refused by the foreign keys (account.go).
THEOREM DeletedAccountsLeaveNothing == Spec => []AccountLeavesNothing
  <1>1. Init => LeftGone /\ AccountLeavesNothing
    BY DEF Init, LeftGone, AccountLeavesNothing
  <1>2. TypeOK /\ LeftGone /\ AccountLeavesNothing /\ [Next]_vars
          => LeftGone' /\ AccountLeavesNothing'
    BY LeavingKept
  <1>3. QED BY <1>1, <1>2, StorageTypeCorrect, PTL DEF Spec

-----------------------------------------------------------------------------
(* Objects: who may remove which one.  A file is condemned while the outbox *)
(* or a removal in flight names it.                                        *)

RemovalSteps == {"journal", "erase", "erased", "failed"}
UploadSteps == {"put", "insert", "archive"}

Removing(t, f) == task[t].pc \in RemovalSteps /\ task[t].file = f
Condemned(f) == outbox[f].status # "none" \/ \E t \in Tasks : Removing(t, f)
Inserting(t, f) == task[t].pc = "insert" /\ task[t].file = f
Archiving(f) == \E t \in Tasks : task[t].pc = "archive" /\ task[t].file = f

\* Nothing knows a file before its object is stored.
FreshUnknown ==
  \A f \in Files : stamp[f] = 0 =>
    /\ ~HasRow(f) /\ ~Condemned(f)
    /\ f \notin objects /\ f \notin acked /\ f \notin removed
    /\ \A t \in Tasks : task[t].pc \in {"insert", "archive"} => task[t].file # f

\* One upload per file, until its object is stored and until its row is.
PutsFresh ==
  \A t \in Tasks : task[t].pc = "put" =>
    /\ stamp[task[t].file] = 0
    /\ \A d \in Tasks : task[d].pc = "put" /\ task[d].file = task[t].file => d = t

InsertsNew ==
  \A t \in Tasks, f \in Files : Inserting(t, f) =>
    /\ ~HasRow(f) /\ ~Condemned(f) /\ ~Archiving(f)
    /\ f \in objects /\ f \notin acked
    /\ \A d \in Tasks : Inserting(d, f) => d = t

\* A live file whose upload succeeded, or will be answered with success.
LiveKept ==
  \A f \in Files : Live(f) /\ (f \in acked \/ Archiving(f)) =>
    f \in objects /\ ~Condemned(f)

ErasedGone == \A t \in Tasks : task[t].pc = "erased" => task[t].file \notin objects

\* The two halves of RemovedObjectsAreQueued.  A restore keeps the first only:
\* the row of a file that was removed after the dump may be missing from it,
\* while the copy of the bucket has the object.
ArchivedQueued ==
  \A f \in objects : file[f].status = "archived" => outbox[f].status # "none"
GoneQueued ==
  \A f \in objects \cap removed : ~HasRow(f) => outbox[f].status # "none"

FileInv ==
  /\ TypeOK
  /\ FreshUnknown
  /\ PutsFresh
  /\ InsertsNew
  /\ LiveKept
  /\ ErasedGone
  /\ ArchivedQueued

\* A step that uploads and deletes nothing: it may remove objects, and finish
\* entries, of condemned files only.
Background ==
  /\ UNCHANGED <<file, stamp, acked, removed>>
  /\ objects' \subseteq objects
  /\ \A f \in objects \ objects' : Condemned(f)
  /\ \A f \in Files : Condemned(f)' => Condemned(f)
  /\ \A t \in Tasks : task'[t] = task[t] \/ task'[t].pc \notin UploadSteps
  /\ ErasedGone'
  /\ \A f \in objects' : outbox[f].status # "none" => outbox'[f].status # "none"

LEMMA BackgroundKeeps ==
  ASSUME FileInv, TypeOK', Background
  PROVE  FileInv' /\ (GoneQueued => GoneQueued')
  <1> USE DEF FileInv
  <1>1. \A f \in Files : Archiving(f)' => Archiving(f)
    BY DEF Archiving, Background, UploadSteps
  <1>2. \A t \in Tasks : task'[t].pc \in UploadSteps =>
          task[t].pc = task'[t].pc /\ task[t].file = task'[t].file
    BY DEF Background
  <1>3. \A f \in Files : /\ HasRow(f)' <=> HasRow(f)
                         /\ Live(f)' <=> Live(f)
    BY DEF Background, HasRow, Live
  <1>4. FreshUnknown'
    BY <1>2, <1>3 DEF FreshUnknown, Background, UploadSteps
  <1>5. PutsFresh'
    BY <1>2 DEF PutsFresh, Background, UploadSteps
  <1>6. InsertsNew'
    <2>1. \A t \in Tasks, f \in Files : Inserting(t, f)' => Inserting(t, f)
      BY <1>2 DEF Inserting, UploadSteps
    <2>2. QED BY <1>1, <1>3, <2>1 DEF InsertsNew, Background
  <1>7. LiveKept'
    BY <1>1, <1>3 DEF LiveKept, Background
  <1>8. ArchivedQueued' /\ (GoneQueued => GoneQueued')
    BY DEF ArchivedQueued, GoneQueued, Background, TypeOK, HasRow
  <1>9. QED BY <1>4, <1>5, <1>6, <1>7, <1>8 DEF Background

\* A task that has nothing to do with objects, before or after.
LEMMA QuietStep ==
  ASSUME FileInv, NEW t \in Tasks,
         task'[t].pc \notin UploadSteps \cup RemovalSteps,
         \A d \in Tasks : d # t => task'[d] = task[d],
         UNCHANGED <<file, stamp, acked, removed, objects, outbox>>
  PROVE  Background
  BY DEF FileInv, Background, Condemned, Removing, ErasedGone, UploadSteps, RemovalSteps

\* A removal that goes on, fails or ends.
LEMMA RemovalStep ==
  ASSUME FileInv, NEW t \in Tasks, NEW f \in Files, Removing(t, f),
         task'[t] = Idle \/ (task'[t].pc \in RemovalSteps /\ task'[t].file = f),
         \A d \in Tasks : d # t => task'[d] = task[d],
         UNCHANGED <<file, stamp, acked, removed>>,
         objects' \in {objects, objects \ {f}},
         task'[t].pc = "erased" => f \notin objects',
         \A g \in Files : g # f => outbox'[g] = outbox[g],
         outbox[f].status # "none" /\ outbox'[f].status = "none" => f \notin objects
  PROVE  Background
  <1>1. Condemned(f)
    BY DEF Condemned
  <1>2. \A g \in Files : Condemned(g)' => Condemned(g)
    BY <1>1 DEF Condemned, Removing, Idle, RemovalSteps
  <1>3. task'[t].pc \notin UploadSteps
    BY DEF Removing, RemovalSteps, UploadSteps, Idle
  <1>4. ErasedGone'
    BY DEF FileInv, ErasedGone, Removing, Idle
  <1>5. objects' \subseteq objects /\ objects \ objects' \subseteq {f}
    OBVIOUS
  <1>6. \A g \in objects' : outbox[g].status # "none" => outbox'[g].status # "none"
    BY DEF FileInv, TypeOK
  <1>7. QED BY <1>1, <1>2, <1>3, <1>4, <1>5, <1>6 DEF Background

\* Receipts, permission checks and everything that stops.
LEMMA QuietActions ==
  ASSUME FileInv,
         \/ \E c \in Calls, f \in Files : BeginDelete(c, f)
         \/ \E c \in Calls : DeleteFile(c) /\ ~Live(task[c].file)
         \/ \E c \in Calls, i \in Items, f \in Files : CheckReceipt(c, i, f)
         \/ \E c \in Calls : AttachReceipt(c)
         \/ \E c \in Calls, u \in Users : BeginDeleteAccount(c, u)
         \/ \E c \in Calls : RecordAccountDeletion(c)
         \/ \E t \in Tasks : Abort(t)
  PROVE  Background
  <1> USE DEF database, bucket, history
  <1>0. TypeOK
    BY DEF FileInv
  <1>1. ASSUME NEW t \in Tasks, NEW state,
               Goto(t, state), state.pc \notin UploadSteps \cup RemovalSteps,
               UNCHANGED <<file, stamp, acked, removed, objects, outbox>>
        PROVE  Background
    BY <1>0, <1>1, TaskMoves, QuietStep
  <1>2. Idle.pc \notin UploadSteps \cup RemovalSteps
    BY DEF Idle, UploadSteps, RemovalSteps
  <1>3. ASSUME NEW c \in Calls, NEW f \in Files, BeginDelete(c, f)
        PROVE  Background
    <2> DEFINE state == [pc |-> "delete", file |-> f]
    <2>1. state.pc \notin UploadSteps \cup RemovalSteps
      BY DEF UploadSteps, RemovalSteps
    <2>2. Goto(c, state) /\ UNCHANGED <<file, stamp, acked, removed, objects, outbox>>
      BY <1>3 DEF BeginDelete
    <2> HIDE DEF state
    <2>3. QED BY <1>1, <2>1, <2>2 DEF Tasks
  <1>4. ASSUME NEW c \in Calls, DeleteFile(c), ~Live(task[c].file)
        PROVE  Background
    BY <1>1, <1>2, <1>4 DEF DeleteFile, Return, Tasks
  <1>5. ASSUME NEW c \in Calls, NEW i \in Items, NEW f \in Files, CheckReceipt(c, i, f)
        PROVE  Background
    <2> DEFINE state == [pc |-> "attach", item |-> i, file |-> f]
    <2>1. state.pc \notin UploadSteps \cup RemovalSteps
      BY DEF UploadSteps, RemovalSteps
    <2>2. Goto(c, state) /\ UNCHANGED <<file, stamp, acked, removed, objects, outbox>>
      BY <1>5 DEF CheckReceipt
    <2> HIDE DEF state
    <2>3. QED BY <1>1, <2>1, <2>2 DEF Tasks
  <1>6. ASSUME NEW c \in Calls, AttachReceipt(c)
        PROVE  Background
    BY <1>1, <1>2, <1>6 DEF AttachReceipt, Return, Tasks
  <1>7. ASSUME NEW c \in Calls, NEW u \in Users, BeginDeleteAccount(c, u)
        PROVE  Background
    <2> DEFINE state == [pc |-> "account", user |-> u]
    <2>1. state.pc \notin UploadSteps \cup RemovalSteps
      BY DEF UploadSteps, RemovalSteps
    <2>2. Goto(c, state) /\ UNCHANGED <<file, stamp, acked, removed, objects, outbox>>
      BY <1>7 DEF BeginDeleteAccount
    <2> HIDE DEF state
    <2>3. QED BY <1>1, <2>1, <2>2 DEF Tasks
  <1>8. ASSUME NEW c \in Calls, RecordAccountDeletion(c)
        PROVE  Background
    <2> DEFINE state == [task[c] EXCEPT !.pc = "commit"]
    <2>1. task[c] \in [pc : {"account", "commit"}, user : Users]
      BY <1>0, <1>8, TaskShape DEF RecordAccountDeletion, Tasks
    <2>2. state.pc \notin UploadSteps \cup RemovalSteps
      BY <2>1 DEF UploadSteps, RemovalSteps
    <2>3. Goto(c, state) /\ UNCHANGED <<file, stamp, acked, removed, objects, outbox>>
      BY <1>8 DEF RecordAccountDeletion, GotoPc, Goto
    <2> HIDE DEF state
    <2>4. QED BY <1>1, <2>2, <2>3 DEF Tasks
  <1>9. ASSUME NEW t \in Tasks, Abort(t)
        PROVE  Background
    BY <1>1, <1>2, <1>9 DEF Abort, Return
  <1>10. QED BY <1>3, <1>4, <1>5, <1>6, <1>7, <1>8, <1>9

\* Everything a removal does, in a request or in a worker.
LEMMA RemovalActions ==
  ASSUME FileInv,
         \/ \E c \in Calls : Unqueue(c) \/ QueueStorageDeletion(c)
         \/ \E w \in Workers : DeletionWorker(w)
         \/ \E t \in Tasks : RecordObjectDeletion(t) \/ EraseObject(t) \/ RemovalFails(t)
  PROVE  Background
  <1> USE DEF database, bucket, history
  <1>0. TypeOK
    BY DEF FileInv
  <1>1. ASSUME NEW c \in Calls, Unqueue(c) \/ QueueStorageDeletion(c)
        PROVE  Background
    <2> DEFINE f == task[c].file
    <2>1. c \in Tasks /\ f \in Files /\ Removing(c, f)
      BY <1>0, <1>1, TaskShape
         DEF Unqueue, QueueStorageDeletion, Removing, RemovalSteps, Tasks
    <2>2. task'[c] = Idle /\ \A d \in Tasks : d # c => task'[d] = task[d]
      BY <1>0, <1>1, <2>1, TaskReturns DEF Unqueue, QueueStorageDeletion
    <2>3. CASE Unqueue(c)
      <3>1. outbox' = [outbox EXCEPT ![f].status = "none"] /\ f \notin objects
        BY <2>1, <2>3 DEF Unqueue, FileInv, ErasedGone
      <3>2. UNCHANGED <<file, stamp, acked, removed, objects>>
        BY <2>3 DEF Unqueue
      <3> HIDE DEF f
      <3>3. \A g \in Files : g # f => outbox'[g] = outbox[g]
        BY <1>0, <2>1, <3>1, EntriesSet
      <3>4. QED BY <2>1, <2>2, <3>1, <3>2, <3>3, RemovalStep DEF Idle
    <2>4. CASE QueueStorageDeletion(c)
      <3>1. outbox' = Enqueued({f}) /\ UNCHANGED <<file, stamp, acked, removed, objects>>
        BY <2>4 DEF QueueStorageDeletion
      <3> HIDE DEF f
      <3>2. outbox'[f].status # "none" /\ \A g \in Files : g # f => outbox'[g] = outbox[g]
        BY <1>0, <2>1, <3>1, EntriesQueued
      <3>3. QED BY <2>1, <2>2, <3>1, <3>2, RemovalStep DEF Idle
    <2>5. QED BY <1>1, <2>3, <2>4
  <1>2. ASSUME NEW w \in Workers, NEW f \in Files, ClaimDeletion(w, f)
        PROVE  Background
    <2> DEFINE state == [pc |-> "journal", file |-> f, id |-> outbox[f].id]
    <2>1. w \in Tasks /\ state.pc = "journal" /\ state.file = f /\ Goto(w, state)
      BY <1>2 DEF ClaimDeletion, Tasks
    <2> HIDE DEF state
    <2>2. task'[w].pc = "journal" /\ task'[w].file = f
          /\ \A d \in Tasks : d # w => task'[d] = task[d]
      BY <1>0, <2>1, TaskMoves
    <2>3. outbox' = [outbox EXCEPT ![f].status = "claimed"] /\ outbox[f].status = "due"
      BY <1>2 DEF ClaimDeletion
    <2>4. outbox'[f].status = "claimed" /\ \A g \in Files : g # f => outbox'[g] = outbox[g]
      BY <1>0, <2>3, EntriesSet
    <2>5. \A g \in Files : Condemned(g)' => Condemned(g)
      BY <2>1, <2>2, <2>3, <2>4 DEF Condemned, Removing
    <2>6. ErasedGone' /\ UNCHANGED <<file, stamp, acked, removed, objects>>
      BY <1>2, <2>1, <2>2 DEF ClaimDeletion, FileInv, ErasedGone
    <2>7. \A g \in objects : outbox[g].status # "none" => outbox'[g].status # "none"
      BY <1>0, <2>4 DEF TypeOK
    <2>8. QED BY <2>2, <2>5, <2>6, <2>7 DEF Background, UploadSteps
  <1>3. ASSUME NEW w \in Workers,
               MarkDeletionComplete(w) \/ RescheduleDeletion(w) \/ ReleaseDeletionClaim(w)
        PROVE  Background
    <2> DEFINE f == task[w].file
    <2>1. w \in Tasks /\ f \in Files /\ Removing(w, f)
      BY <1>0, <1>3, TaskShape
         DEF MarkDeletionComplete, RescheduleDeletion, ReleaseDeletionClaim, Removing,
             RemovalSteps, Tasks
    <2>2. task'[w] = Idle /\ \A d \in Tasks : d # w => task'[d] = task[d]
      BY <1>0, <1>3, <2>1, TaskReturns
         DEF MarkDeletionComplete, RescheduleDeletion, ReleaseDeletionClaim
    <2>3. UNCHANGED <<file, stamp, acked, removed, objects>>
      BY <1>3 DEF MarkDeletionComplete, RescheduleDeletion, ReleaseDeletionClaim
    <2>4. PICK status \in {"none", "due", "later"} :
            SetEntry(w, status) /\ (status = "none" => task[w].pc = "erased")
      BY <1>3 DEF MarkDeletionComplete, RescheduleDeletion, ReleaseDeletionClaim
    <2>5. /\ \A g \in Files : g # f => outbox'[g] = outbox[g]
          /\ status # "none" /\ outbox'[f].status = "none" => outbox[f].status = "none"
      BY <1>0, <2>1, <2>4, EntrySetById DEF Removing, RemovalSteps
    <2>6. status = "none" => f \notin objects
      BY <2>1, <2>4 DEF FileInv, ErasedGone
    <2> HIDE DEF f
    <2>7. QED BY <2>1, <2>2, <2>3, <2>5, <2>6, RemovalStep DEF Idle
  <1>4. ASSUME NEW t \in Tasks,
               RecordObjectDeletion(t) \/ EraseObject(t) \/ RemovalFails(t)
        PROVE  Background
    <2> DEFINE f == task[t].file
    <2>1. f \in Files /\ Removing(t, f)
      BY <1>0, <1>4, TaskShape
         DEF RecordObjectDeletion, EraseObject, RemovalFails, Removing, RemovalSteps
    <2>2. PICK pc \in {"erase", "erased", "failed"} :
            /\ GotoPc(t, pc) /\ objects' \in {objects, objects \ {f}}
            /\ pc = "erased" => f \notin objects'
      BY <1>4 DEF RecordObjectDeletion, EraseObject, RemovalFails
    <2>3. UNCHANGED <<file, stamp, acked, removed, outbox>>
      BY <1>4 DEF RecordObjectDeletion, EraseObject, RemovalFails
    <2>4. /\ task'[t].pc = pc /\ task'[t].file = f
          /\ \A d \in Tasks : d # t => task'[d] = task[d]
      BY <1>0, <2>1, <2>2, RemovalMoves DEF Removing, RemovalSteps
    <2>5. task'[t].pc \in RemovalSteps /\ task'[t].file = f
      BY <2>4 DEF RemovalSteps
    <2> HIDE DEF f
    <2>6. /\ task'[t].pc = "erased" => f \notin objects'
          /\ objects' \in {objects, objects \ {f}}
      BY <2>2, <2>4
    <2>7. \A d \in Tasks : d # t => task'[d] = task[d]
      BY <2>4
    <2>8. /\ \A g \in Files : g # f => outbox'[g] = outbox[g]
          /\ outbox[f].status # "none" /\ outbox'[f].status = "none" => f \notin objects
          /\ UNCHANGED <<file, stamp, acked, removed>>
      BY <2>3
    <2>9. QED BY <2>1, <2>5, <2>6, <2>7, <2>8, RemovalStep
  <1>5. QED BY <1>1, <1>2, <1>3, <1>4 DEF DeletionWorker

\* Leases and retry delays that run out, cost items that are deleted.
LEMMA TimeActions ==
  ASSUME FileInv,
         \/ \E f \in Files : LeaseLapses(f) \/ RetryDue(f)
         \/ \E i \in Items : DeleteCostItem(i)
         \/ UNCHANGED vars
  PROVE  Background
  <1> USE DEF database, bucket, history
  <1>0. TypeOK /\ ErasedGone
    BY DEF FileInv
  <1>1. ASSUME UNCHANGED <<file, stamp, acked, removed, objects, task>>,
               \A g \in Files : outbox'[g].status = "none" <=> outbox[g].status = "none"
        PROVE  Background
    BY <1>0, <1>1 DEF Background, Condemned, Removing, ErasedGone, TypeOK
  <1>2. ASSUME NEW f \in Files, LeaseLapses(f) \/ RetryDue(f)
        PROVE  Background
    <2>1. outbox' = [outbox EXCEPT ![f].status = "due"] /\ outbox[f].status # "none"
      BY <1>2 DEF LeaseLapses, RetryDue
    <2>2. \A g \in Files : outbox'[g].status = "none" <=> outbox[g].status = "none"
      BY <1>0, <2>1, EntriesSet
    <2>3. QED BY <1>1, <1>2, <2>2 DEF LeaseLapses, RetryDue
  <1>3. CASE \E i \in Items : DeleteCostItem(i)
    BY <1>1, <1>3 DEF DeleteCostItem
  <1>4. CASE UNCHANGED vars
    BY <1>1, <1>4 DEF vars
  <1>5. QED BY <1>2, <1>3, <1>4

\* An upload that is admitted.
LEMMA UploadStarts ==
  ASSUME FileInv, TypeOK', NEW c \in Calls, NEW f \in Files, NEW u \in Users,
         NEW p \in Projects, NEW cover \in BOOLEAN, BeginUpload(c, f, u, p, cover)
  PROVE  FileInv' /\ (GoneQueued => GoneQueued')
  <1> USE DEF FileInv, database, bucket, history
  <1>1. c \in Tasks /\ task[c] = Idle /\ Unused(f)
        /\ UNCHANGED <<file, outbox, stamp, objects, acked, removed>>
    BY DEF BeginUpload, Tasks
  <1> DEFINE state == [pc |-> "put", file |-> f, user |-> u, project |-> p, cover |-> cover]
  <1>2. state.pc = "put" /\ state.file = f /\ Goto(c, state)
    BY DEF BeginUpload
  <1> HIDE DEF state
  <1>3. task'[c].pc = "put" /\ task'[c].file = f /\ \A d \in Tasks : d # c => task'[d] = task[d]
    BY <1>1, <1>2, TaskMoves
  <1>4. \A g \in Files : /\ HasRow(g)' <=> HasRow(g)
                         /\ Live(g)' <=> Live(g)
                         /\ Condemned(g)' <=> Condemned(g)
                         /\ Archiving(g)' <=> Archiving(g)
    BY <1>1, <1>3 DEF HasRow, Live, Condemned, Removing, RemovalSteps, Archiving, Idle
  <1>5. \A t \in Tasks, g \in Files : Inserting(t, g)' <=> Inserting(t, g)
    BY <1>1, <1>3 DEF Inserting, Idle
  <1>6. FreshUnknown'
    BY <1>1, <1>3, <1>4 DEF FreshUnknown, Idle
  <1>7. PutsFresh'
    BY <1>1, <1>3 DEF PutsFresh, Unused
  <1>8. InsertsNew'
    BY <1>1, <1>4, <1>5 DEF InsertsNew
  <1>9. LiveKept'
    BY <1>1, <1>4 DEF LiveKept
  <1>10. ErasedGone'
    BY <1>1, <1>3 DEF ErasedGone
  <1>11. ArchivedQueued' /\ (GoneQueued => GoneQueued')
    BY <1>1 DEF ArchivedQueued, GoneQueued, HasRow
  <1>12. QED BY <1>6, <1>7, <1>8, <1>9, <1>10, <1>11

\* An object that is stored, or perhaps stored by a Put that reports an error.
LEMMA ObjectPut ==
  ASSUME FileInv, TypeOK', NEW c \in Calls, PutObject(c) \/ PutFails(c)
  PROVE  FileInv' /\ (GoneQueued => GoneQueued')
  <1> USE DEF FileInv, database, bucket, history
  <1>1. PICK f \in Files : f = task[c].file
    BY TaskShape DEF PutObject, PutFails, Tasks
  <1>2. c \in Tasks /\ task[c].pc = "put" /\ stamp[f] = 0
        /\ \A d \in Tasks : task[d].pc = "put" /\ task[d].file = f => d = c
    BY <1>1 DEF PutObject, PutFails, Tasks, PutsFresh
  <1>3. /\ ~HasRow(f) /\ ~Condemned(f) /\ f \notin acked /\ f \notin removed
        /\ \A t \in Tasks : task[t].pc \in {"insert", "archive"} => task[t].file # f
    BY <1>2 DEF FreshUnknown
  <1>4. UNCHANGED <<file, outbox, acked, removed>>
        /\ objects' \in {objects, objects \cup {f}}
    BY <1>1 DEF PutObject, PutFails
  <1>5. stamp'[f] # 0 /\ \A g \in Files : g # f => stamp'[g] = stamp[g]
    BY <1>1, StampsSet DEF PutObject, PutFails
  <1>6. /\ \/ task'[c].pc = "insert" /\ f \in objects'
           \/ task'[c].pc = "journal"
        /\ task'[c].file = f
        /\ \A d \in Tasks : d # c => task'[d] = task[d]
    <2>1. CASE PutObject(c)
      <3> DEFINE state == [task[c] EXCEPT !.pc = "insert"]
      <3>1. state.pc = "insert" /\ state.file = f
        BY <1>1, <1>2, TaskShape
      <3>2. Goto(c, state) /\ f \in objects'
        BY <1>1, <2>1 DEF PutObject, GotoPc, Goto
      <3> HIDE DEF state
      <3>3. QED BY <1>2, <3>1, <3>2, TaskMoves
    <2>2. CASE PutFails(c)
      <3> DEFINE state == [pc |-> "journal", file |-> task[c].file]
      <3>1. state.pc = "journal" /\ state.file = f /\ Goto(c, state)
        BY <1>1, <2>2 DEF PutFails
      <3> HIDE DEF state
      <3>2. QED BY <1>2, <3>1, TaskMoves
    <2>3. QED BY <2>1, <2>2
  <1>7. \A g \in Files : /\ HasRow(g)' <=> HasRow(g)
                         /\ Live(g)' <=> Live(g)
                         /\ Archiving(g)' => Archiving(g)
                         /\ g # f /\ Condemned(g)' => Condemned(g)
    BY <1>4, <1>6 DEF HasRow, Live, Condemned, Removing, Archiving
  <1>8. task'[c].pc = "insert" => ~Condemned(f)'
    BY <1>3, <1>4, <1>6 DEF Condemned, Removing, RemovalSteps
  <1>9. FreshUnknown'
    BY <1>4, <1>5, <1>6, <1>7 DEF FreshUnknown
  <1>10. PutsFresh'
    <2>1. ASSUME NEW t \in Tasks, task'[t].pc = "put"
          PROVE  t # c /\ task'[t] = task[t] /\ task[t].file \in Files \ {f}
      BY <1>2, <1>6, <2>1, TaskShape
    <2>2. QED BY <1>5, <2>1 DEF PutsFresh
  <1>11. InsertsNew'
    <2>1. \A t \in Tasks, g \in Files : g # f /\ Inserting(t, g)' => Inserting(t, g)
      BY <1>6 DEF Inserting
    <2>2. \A t \in Tasks : Inserting(t, f)' => t = c
      BY <1>3, <1>6 DEF Inserting
    <2>3. ~Archiving(f)
      BY <1>3 DEF Archiving
    <2>4. Inserting(c, f)' => f \in objects' /\ ~Condemned(f)'
      BY <1>6, <1>8 DEF Inserting
    <2>5. QED BY <1>3, <1>4, <1>7, <2>1, <2>2, <2>3, <2>4 DEF InsertsNew
  <1>12. LiveKept'
    <2>1. \A g \in Files : Live(g) => HasRow(g)
      BY DEF Live, HasRow
    <2>2. QED BY <1>3, <1>4, <1>7, <2>1 DEF LiveKept
  <1>13. ErasedGone'
    BY <1>3, <1>4, <1>6 DEF ErasedGone, Condemned, Removing, RemovalSteps
  <1>14. ArchivedQueued' /\ (GoneQueued => GoneQueued')
    BY <1>3, <1>4, <1>7 DEF ArchivedQueued, GoneQueued, HasRow
  <1>15. QED BY <1>9, <1>10, <1>11, <1>12, <1>13, <1>14

\* A row that is stored, or perhaps stored by an INSERT that reports an error.
LEMMA RowInserted ==
  ASSUME FileInv, TypeOK', NEW c \in Calls, InsertFile(c) \/ InsertFails(c)
  PROVE  FileInv' /\ (GoneQueued => GoneQueued')
  <1> USE DEF FileInv, database, bucket, history
  <1>1. PICK f \in Files : f = task[c].file
    BY TaskShape DEF InsertFile, InsertFails, Tasks
  <1>2. c \in Tasks /\ task[c].pc = "insert" /\ Inserting(c, f)
    BY <1>1 DEF InsertFile, InsertFails, Tasks, Inserting
  <1>3. /\ ~HasRow(f) /\ ~Condemned(f) /\ ~Archiving(f)
        /\ f \in objects /\ f \notin acked
        /\ \A d \in Tasks : Inserting(d, f) => d = c
    BY <1>2 DEF InsertsNew
  <1>4. UNCHANGED <<outbox, stamp, objects, removed>> /\ acked \subseteq acked'
        /\ acked' \subseteq acked \cup {f}
    BY <1>1 DEF InsertFile, InsertFails
  <1>5. /\ task'[c].pc = "journal" => f \notin acked'
        /\ task'[c].pc # "journal" => file'[f].status = "live"
        /\ task'[c].pc \in {"idle", "archive", "journal"}
        /\ task'[c].pc # "idle" => task'[c].file = f
        /\ \A d \in Tasks : d # c => task'[d] = task[d]
    <2>1. CASE InsertFile(c)
      <3>1. file'[f].status = "live"
        BY <1>1, <1>2, <2>1, RowStored DEF InsertFile
      <3>2. CASE task[c].cover
        <4> DEFINE state == [pc |-> "archive", file |-> task[c].file,
                             project |-> task[c].project]
        <4>1. state.pc = "archive" /\ state.file = f /\ Goto(c, state)
          BY <1>1, <2>1, <3>2 DEF InsertFile
        <4> HIDE DEF state
        <4>2. QED BY <1>2, <3>1, <4>1, TaskMoves
      <3>3. CASE ~task[c].cover
        <4>1. Return(c)
          BY <2>1, <3>3 DEF InsertFile
        <4>2. QED BY <1>2, <3>1, <4>1, TaskReturns DEF Idle
      <3>4. QED BY <3>2, <3>3
    <2>2. CASE InsertFails(c)
      <3> DEFINE state == [pc |-> "journal", file |-> task[c].file]
      <3>1. state.pc = "journal" /\ state.file = f /\ Goto(c, state)
        BY <1>1, <2>2 DEF InsertFails
      <3>2. acked' = acked
        BY <2>2 DEF InsertFails
      <3> HIDE DEF state
      <3>3. QED BY <1>2, <1>3, <3>1, <3>2, TaskMoves
    <2>3. QED BY <2>1, <2>2
  <1>6. \A g \in Files : g # f => file'[g] = file[g]
    BY <1>1, <1>2, RowStored DEF InsertFile, InsertFails
  <1>7. file'[f] = file[f] \/ file'[f].status = "live"
    BY <1>1, <1>2, RowStored DEF InsertFile, InsertFails
  <1>8. \A g \in Files : g # f => /\ HasRow(g)' <=> HasRow(g)
                                  /\ Live(g)' <=> Live(g)
                                  /\ Archiving(g)' => Archiving(g)
                                  /\ Condemned(g)' => Condemned(g)
    BY <1>4, <1>5, <1>6 DEF HasRow, Live, Condemned, Removing, RemovalSteps, Archiving
  <1>9. stamp[f] # 0
    BY <1>1, <1>2 DEF FreshUnknown
  <1>10. FreshUnknown'
    BY <1>4, <1>5, <1>8, <1>9 DEF FreshUnknown
  <1>11. PutsFresh'
    BY <1>4, <1>5 DEF PutsFresh
  <1>12. InsertsNew'
    <2>1. \A t \in Tasks, g \in Files : Inserting(t, g)' => Inserting(t, g) /\ t # c
      BY <1>5 DEF Inserting
    <2>2. \A t \in Tasks : ~Inserting(t, f)'
      BY <1>3, <2>1
    <2>3. QED BY <1>4, <1>8, <2>1, <2>2 DEF InsertsNew
  <1>13. LiveKept'
    <2>1. task'[c].pc # "journal" => ~Condemned(f)'
      BY <1>3, <1>4, <1>5 DEF Condemned, Removing, RemovalSteps
    <2>2. task'[c].pc = "journal" => ~Archiving(f)'
      BY <1>3, <1>5 DEF Archiving
    <2>3. QED BY <1>3, <1>4, <1>5, <1>8, <2>1, <2>2 DEF LiveKept
  <1>14. ErasedGone'
    BY <1>4, <1>5 DEF ErasedGone
  <1>15. ArchivedQueued' /\ (GoneQueued => GoneQueued')
    <2>1. \A g \in Files : g # f => file'[g] = file[g] /\ outbox'[g] = outbox[g]
      BY <1>4, <1>6
    <2>2. QED BY <1>4, <1>7, <2>1 DEF ArchivedQueued, GoneQueued, HasRow, TypeOK
  <1>16. QED BY <1>10, <1>11, <1>12, <1>13, <1>14, <1>15

\* Rows that are archived or deleted together with their outbox entries; the
\* uploads of covers that end meanwhile are answered.
LEMMA RowsRemoved ==
  ASSUME FileInv, TypeOK', NEW fs \in SUBSET Files, \A g \in fs : HasRow(g),
         outbox' = Enqueued(fs), \A g \in fs : file'[g].status # "live",
         \A g \in Files \ fs : file'[g] = file[g],
         UNCHANGED <<stamp, objects>>,
         acked \subseteq acked', \A g \in acked' : g \in acked \/ Archiving(g),
         removed \subseteq removed', removed' \subseteq removed \cup fs,
         \A t \in Tasks : \/ task'[t] = task[t]
                          \/ task'[t] = Idle
                          \/ task'[t].pc = "journal" /\ task'[t].file \in fs
  PROVE  FileInv' /\ (GoneQueued => GoneQueued')
  <1> USE DEF FileInv
  <1>1. /\ \A g \in fs : outbox'[g].status # "none"
        /\ \A g \in Files : outbox[g].status # "none" => outbox'[g].status # "none"
        /\ \A g \in Files \ fs : outbox'[g] = outbox[g]
    BY EntriesQueued
  <1>2. \A g \in Files \ fs : /\ HasRow(g)' <=> HasRow(g)
                              /\ Live(g)' <=> Live(g)
                              /\ Condemned(g)' => Condemned(g)
    BY <1>1 DEF HasRow, Live, Condemned, Removing, RemovalSteps, Idle
  <1>3. \A g \in Files : Archiving(g)' => Archiving(g)
    BY DEF Archiving, Idle
  <1>4. \A t \in Tasks, g \in Files : Inserting(t, g)' => Inserting(t, g)
    BY DEF Inserting, Idle
  <1>5. \A t \in Tasks : task'[t].pc \in {"put", "insert", "archive", "erased"} =>
          task'[t] = task[t]
    BY DEF Idle
  <1>6. \A g \in Files : Archiving(g) => stamp[g] # 0
    BY DEF FreshUnknown, Archiving
  <1>7. FreshUnknown'
    <2>1. ASSUME NEW g \in Files, stamp[g] = 0
          PROVE  g \notin fs /\ g \notin acked' /\ g \notin removed'
      BY <1>6, <2>1 DEF FreshUnknown
    <2>2. QED BY <1>2, <1>5, <2>1 DEF FreshUnknown
  <1>8. PutsFresh'
    BY <1>5 DEF PutsFresh
  <1>9. InsertsNew'
    <2>1. ASSUME NEW t \in Tasks, NEW g \in Files, Inserting(t, g)'
          PROVE  g \notin fs /\ g \notin acked' /\ Inserting(t, g)
      BY <1>4, <2>1 DEF InsertsNew
    <2>2. QED BY <1>2, <1>3, <1>4, <2>1 DEF InsertsNew
  <1>10. LiveKept'
    <2>1. \A g \in Files : Live(g)' => g \notin fs
      BY DEF Live
    <2>2. QED BY <1>2, <1>3, <2>1 DEF LiveKept
  <1>11. ErasedGone'
    BY <1>5 DEF ErasedGone
  <1>12. ArchivedQueued'
    <2>1. \A g \in objects \ fs : file'[g] = file[g] /\ g \in Files
      BY DEF TypeOK
    <2>2. QED BY <1>1, <2>1 DEF ArchivedQueued
  <1>13. GoneQueued => GoneQueued'
    <2>1. \A g \in objects \ fs : g \in Files /\ (g \in removed' => g \in removed)
      BY DEF TypeOK
    <2>2. QED BY <1>1, <1>2, <2>1 DEF GoneQueued
  <1>14. QED BY <1>7, <1>8, <1>9, <1>10, <1>11, <1>12, <1>13

\* Covers that are replaced, files that are deleted, accounts that go.
LEMMA RemovingActions ==
  ASSUME FileInv, TypeOK', NEW c \in Calls,
         \/ ArchivePreviousCovers(c) \/ ArchiveFails(c)
         \/ DeleteFile(c) /\ Live(task[c].file)
         \/ CommitAccountDeletion(c)
  PROVE  FileInv' /\ (GoneQueued => GoneQueued')
  <1> USE DEF database, bucket, history
  <1>0. TypeOK /\ c \in Tasks
    BY DEF FileInv, Tasks
  <1>1. CASE ArchivePreviousCovers(c) \/ ArchiveFails(c)
    <2>1. PICK fs \in SUBSET Files :
            /\ outbox' = Enqueued(fs)
            /\ \A g \in fs : HasRow(g) /\ file'[g] = [file[g] EXCEPT !.status = "archived"]
            /\ \A g \in Files \ fs : file'[g] = file[g]
      <3>1. CASE ArchivePreviousCovers(c)
        <4> DEFINE old == OlderCovers(task[c].file, task[c].project)
        <4>1. old \in SUBSET Files /\ \A g \in old : HasRow(g)
          BY DEF OlderCovers, Covers
        <4>2. outbox' = Enqueued(old)
              /\ file' = [g \in Files |-> IF g \in old
                                         THEN [file[g] EXCEPT !.status = "archived"]
                                         ELSE file[g]]
          BY <3>1 DEF ArchivePreviousCovers
        <4> HIDE DEF old
        <4>3. QED BY <4>1, <4>2
      <3>2. CASE ArchiveFails(c)
        <4>1. outbox' = Enqueued({})
          BY <1>0, <3>2 DEF ArchiveFails, Enqueued, TypeOK
        <4>2. QED BY <3>2, <4>1 DEF ArchiveFails
      <3>3. QED BY <1>1, <3>1, <3>2
    <2>2. \A g \in fs : file'[g].status # "live"
      <3>1. ASSUME NEW g \in fs
            PROVE  file'[g].status # "live"
        <4>1. file[g] \in FileRow
          BY <1>0, <2>1, RowsOfFiles
        <4>2. QED BY <2>1, <4>1 DEF FileRow
      <3>2. QED BY <3>1
    <2>3. acked' = acked \cup {task[c].file} /\ task[c].file \in Files
      BY <1>0, <1>1, TaskShape DEF ArchivePreviousCovers, ArchiveFails
    <2>4. \A g \in acked' : g \in acked \/ Archiving(g)
      BY <1>0, <1>1, <2>3 DEF ArchivePreviousCovers, ArchiveFails, Archiving
    <2>5. UNCHANGED <<stamp, objects, removed>>
      BY <1>1 DEF ArchivePreviousCovers, ArchiveFails
    <2>6. \A t \in Tasks : task'[t] = task[t] \/ task'[t] = Idle
      BY <1>0, <1>1, TaskReturns DEF ArchivePreviousCovers, ArchiveFails
    <2>7. QED BY <2>1, <2>2, <2>3, <2>4, <2>5, <2>6, RowsRemoved
  <1>2. CASE DeleteFile(c) /\ Live(task[c].file)
    <2>1. PICK f \in Files : f = task[c].file
      BY <1>0, <1>2, TaskShape DEF DeleteFile
    <2>2. /\ file' = [file EXCEPT ![f].status = "archived"] /\ outbox' = Enqueued({f})
          /\ removed' = removed \cup {f} /\ UNCHANGED <<stamp, objects, acked>>
      BY <1>2, <2>1 DEF DeleteFile
    <2>3. file[f] \in FileRow /\ HasRow(f)
      BY <1>0, <1>2, <2>1, RowsOfFiles
    <2>4. file'[f].status # "live" /\ \A g \in Files \ {f} : file'[g] = file[g]
      BY <1>0, <2>2, <2>3 DEF TypeOK, FileRow
    <2> DEFINE state == [pc |-> "journal", file |-> f]
    <2>5. state.pc = "journal" /\ state.file = f /\ Goto(c, state)
      BY <1>2, <2>1 DEF DeleteFile
    <2> HIDE DEF state
    <2>6. /\ task'[c].pc = "journal" /\ task'[c].file = f
          /\ \A t \in Tasks : t # c => task'[t] = task[t]
      BY <1>0, <2>5, TaskMoves
    <2>7. PICK fs \in SUBSET Files : fs = {f}
      OBVIOUS
    <2>8. outbox' = Enqueued(fs) /\ removed' = removed \cup fs
      BY <2>2, <2>7
    <2>9. /\ \A g \in fs : HasRow(g) /\ file'[g].status # "live"
          /\ \A g \in Files \ fs : file'[g] = file[g]
      BY <2>3, <2>4, <2>7
    <2>10. \A t \in Tasks : \/ task'[t] = task[t]
                            \/ task'[t] = Idle
                            \/ task'[t].pc = "journal" /\ task'[t].file \in fs
      <3>1. ASSUME NEW t \in Tasks, task'[t] # task[t]
            PROVE  task'[t].pc = "journal" /\ task'[t].file \in fs
        <4>1. t = c
          BY <2>6, <3>1
        <4>2. QED BY <2>6, <2>7, <4>1
      <3>2. QED BY <3>1
    <2>11. QED BY <2>2, <2>8, <2>9, <2>10, RowsRemoved
  <1>3. CASE CommitAccountDeletion(c)
    <2>1. PICK fs \in SUBSET Files : fs = FilesOf(task[c].user)
      BY DEF FilesOf
    <2>2. \A g \in fs : HasRow(g)
      BY <2>1 DEF FilesOf
    <2>3. /\ outbox' = Enqueued(fs) /\ removed' = removed \cup fs
          /\ file' = [g \in Files |-> IF g \in fs THEN NoRow ELSE file[g]]
          /\ UNCHANGED <<stamp, objects, acked>>
      BY <1>3, <2>1 DEF CommitAccountDeletion
    <2>4. /\ \A g \in fs : file'[g].status # "live"
          /\ \A g \in Files \ fs : file'[g] = file[g]
      BY <2>3 DEF NoRow
    <2>5. \A t \in Tasks : task'[t] = task[t] \/ task'[t] = Idle
      BY <1>0, <1>3, TaskReturns DEF CommitAccountDeletion
    <2>6. QED BY <2>2, <2>3, <2>4, <2>5, RowsRemoved
  <1>4. QED BY <1>1, <1>2, <1>3

\* The invariant holds at first, and every step keeps it.
LEMMA FilesFirst ==
  Init => FileInv /\ GoneQueued
  <1>1. SUFFICES ASSUME Init PROVE FileInv /\ GoneQueued
    OBVIOUS
  <1> USE <1>1 DEF Init, Idle
  <1>2. \A t \in Tasks : task[t].pc = "idle"
    OBVIOUS
  <1>3. \A f \in Files : ~HasRow(f) /\ ~Live(f) /\ ~Condemned(f)
    BY <1>2 DEF HasRow, Live, NoRow, Condemned, Removing, RemovalSteps
  <1>4. FreshUnknown /\ LiveKept /\ ArchivedQueued /\ GoneQueued
    BY <1>2, <1>3 DEF FreshUnknown, LiveKept, ArchivedQueued, GoneQueued
  <1>5. PutsFresh /\ InsertsNew /\ ErasedGone
    BY <1>2 DEF PutsFresh, InsertsNew, Inserting, ErasedGone
  <1>6. QED BY <1>4, <1>5, TypesFirst DEF FileInv

LEMMA FilesKept ==
  ASSUME FileInv, [Next]_vars
  PROVE  FileInv' /\ (GoneQueued => GoneQueued')
  <1>0. TypeOK /\ TypeOK'
    BY TypesKept DEF FileInv
  <1>1. ASSUME NEW c \in Calls, Request(c)
        PROVE  FileInv' /\ (GoneQueued => GoneQueued')
    <2>1. CASE \E f \in Files, u \in Users, p \in Projects, cover \in BOOLEAN :
                 BeginUpload(c, f, u, p, cover)
      BY <1>0, <2>1, UploadStarts
    <2>2. CASE PutObject(c) \/ PutFails(c)
      BY <1>0, <2>2, ObjectPut
    <2>3. CASE InsertFile(c) \/ InsertFails(c)
      BY <1>0, <2>3, RowInserted
    <2>4. CASE \/ ArchivePreviousCovers(c) \/ ArchiveFails(c)
               \/ DeleteFile(c) /\ Live(task[c].file)
               \/ CommitAccountDeletion(c)
      BY <1>0, <2>4, RemovingActions
    <2>5. CASE \/ \E f \in Files : BeginDelete(c, f)
               \/ DeleteFile(c) /\ ~Live(task[c].file)
               \/ \E i \in Items, f \in Files : CheckReceipt(c, i, f)
               \/ AttachReceipt(c)
               \/ \E u \in Users : BeginDeleteAccount(c, u)
               \/ RecordAccountDeletion(c)
      BY <1>0, <2>5, QuietActions, BackgroundKeeps
    <2>6. CASE Unqueue(c) \/ QueueStorageDeletion(c)
      BY <1>0, <2>6, RemovalActions, BackgroundKeeps
    <2>7. QED BY <1>1, <2>1, <2>2, <2>3, <2>4, <2>5, <2>6 DEF Request
  <1>2. CASE \E w \in Workers : DeletionWorker(w)
    BY <1>0, <1>2, RemovalActions, BackgroundKeeps
  <1>3. CASE \E t \in Tasks : RecordObjectDeletion(t) \/ EraseObject(t) \/ RemovalFails(t)
    BY <1>0, <1>3, RemovalActions, BackgroundKeeps
  <1>4. CASE \E t \in Tasks : Abort(t)
    BY <1>0, <1>4, QuietActions, BackgroundKeeps
  <1>5. CASE \/ \E f \in Files : LeaseLapses(f) \/ RetryDue(f)
             \/ \E i \in Items : DeleteCostItem(i)
             \/ UNCHANGED vars
    BY <1>0, <1>5, TimeActions, BackgroundKeeps
  <1>6. QED BY <1>1, <1>2, <1>3, <1>4, <1>5 DEF Next

\* The object of an archived or deleted file stays in the outbox until it has
\* left the bucket, wherever requests and workers race or stop (files.go,
\* worker.go).
THEOREM RemovedFilesAreQueued == Spec => []RemovedObjectsAreQueued
  <1>1. FileInv /\ GoneQueued => RemovedObjectsAreQueued
    BY DEF FileInv, ArchivedQueued, GoneQueued, RemovedObjectsAreQueued
  <1>2. QED BY <1>1, FilesFirst, FilesKept, PTL DEF Spec

\* A file whose upload was answered with 201 keeps its object while its row is
\* live: no cleanup, worker or retry removes it (file_upload.go).
THEOREM UploadsAreKept == Spec => []AcknowledgedUploadsKept
  <1>1. FileInv => AcknowledgedUploadsKept
    BY DEF FileInv, TypeOK, LiveKept, AcknowledgedUploadsKept
  <1>2. QED BY <1>1, FilesFirst, FilesKept, PTL DEF Spec

-----------------------------------------------------------------------------
(* Covers: the youngest cover of a project is live until a user deletes one. *)

\* An upload of a cover compares its own cover with those of its project.
ArchivesOwn ==
  \A t \in Tasks : task[t].pc = "archive" /\ HasRow(task[t].file) =>
    task[t].file \in Covers(task[t].project)

Youngest(f, p) ==
  f \in Covers(p) /\ Live(f) /\ \A g \in Covers(p) : stamp[g] <= stamp[f]

YoungestLives ==
  left = {} =>
    \A p \in Projects :
      Covers(p) # {} /\ Covers(p) \cap removed = {} => \E f \in Files : Youngest(f, p)

CoverInv == ArchivesOwn /\ YoungestLives

\* A step that stores no row, and ends no row: it archives only files that it
\* removes and covers with a younger one beside them.
LEMMA CoversStay ==
  ASSUME FileInv, TypeOK', CoverInv,
         \A f \in Files : \/ file'[f] = file[f]
                          \/ /\ HasRow(f) /\ HasRow(f)'
                             /\ file'[f].cover = file[f].cover
                             /\ file'[f].project = file[f].project,
         \A f \in Files : HasRow(f) => stamp'[f] = stamp[f],
         removed \subseteq removed', left \subseteq left',
         \A t \in Tasks : task'[t].pc = "archive" => task'[t] = task[t],
         \A f \in Files : Live(f) /\ ~Live(f)' =>
           \/ f \in removed'
           \/ \E p : f \in Covers(p) /\ \E g \in Covers(p) : stamp[f] < stamp[g]
  PROVE  CoverInv'
  <1>1. \A p : Covers(p)' = Covers(p)
    BY DEF Covers, HasRow
  <1>2. \A f \in Files : HasRow(f)' <=> HasRow(f)
    BY DEF HasRow
  <1>3. ArchivesOwn'
    <2>1. ASSUME NEW t \in Tasks, task'[t].pc = "archive", HasRow(task[t].file)'
          PROVE  task'[t].file \in Covers(task[t].project) /\ task'[t] = task[t]
      <3>1. task'[t] = task[t] /\ task[t].file \in Files
        BY <2>1, TaskShape DEF FileInv
      <3>2. HasRow(task[t].file)
        BY <2>1, <3>1 DEF HasRow
      <3>3. QED BY <2>1, <3>1, <3>2 DEF CoverInv, ArchivesOwn
    <2>2. ASSUME NEW t \in Tasks, task'[t].pc = "archive", HasRow(task[t].file)'
          PROVE  (task[t].file \in Covers(task[t].project))'
      BY <1>1, <2>1, <2>2 DEF Covers, HasRow
    <2>3. QED BY <2>2 DEF ArchivesOwn
  <1>4. YoungestLives'
    <2>1. ASSUME left' = {}, NEW p \in Projects, Covers(p)' # {},
                 Covers(p)' \cap removed' = {}
          PROVE  \E f \in Files : Youngest(f, p)'
      <3>1. PICK f \in Files : Youngest(f, p)
        BY <1>1, <2>1 DEF CoverInv, YoungestLives
      <3>2. f \notin removed' /\ HasRow(f) /\ f \in Covers(p)
        BY <1>1, <2>1, <3>1 DEF Youngest, Covers
      <3>3. \A q : f \in Covers(q) => Covers(q) = Covers(p)
        BY <3>2 DEF Covers
      <3>4. \A g \in Covers(p) : ~(stamp[f] < stamp[g])
        BY <3>1 DEF Youngest, Covers, FileInv, TypeOK
      <3>5. Live(f)'
        BY <3>1, <3>2, <3>3, <3>4 DEF Youngest
      <3>6. \A g \in Covers(p) : stamp'[g] = stamp[g]
        BY DEF Covers
      <3>7. QED BY <1>1, <3>1, <3>2, <3>5, <3>6 DEF Youngest
    <2>2. QED BY <2>1 DEF YoungestLives
  <1>5. QED BY <1>3, <1>4 DEF CoverInv

\* A cover that is stored is the youngest, or an older one was.
LEMMA CoverStored ==
  ASSUME FileInv, TypeOK', CoverInv, NEW c \in Calls, InsertFile(c) \/ InsertFails(c),
         file' = Inserted(task[c])
  PROVE  CoverInv'
  <1> USE DEF FileInv, database, bucket, history
  <1>1. PICK f \in Files : f = task[c].file
    BY TaskShape DEF InsertFile, InsertFails, Tasks
  <1>2. c \in Tasks /\ task[c].pc = "insert" /\ ~HasRow(f) /\ ~Archiving(f)
    BY <1>1 DEF InsertFile, InsertFails, Tasks, InsertsNew, Inserting
  <1>3. /\ file'[f].status = "live" /\ file'[f].cover = task[c].cover
        /\ file'[f].project = task[c].project
        /\ \A g \in Files : g # f => file'[g] = file[g]
    BY <1>1, <1>2, RowStored
  <1>4. UNCHANGED <<stamp, removed, left>>
    BY DEF InsertFile, InsertFails
  <1>5. /\ \A d \in Tasks : d # c => task'[d] = task[d]
        /\ task'[c].pc = "archive" => /\ task[c].cover /\ task'[c].file = f
                                      /\ task'[c].project = task[c].project
    <2>1. CASE InsertFile(c) /\ task[c].cover
      <3> DEFINE state == [pc |-> "archive", file |-> task[c].file,
                           project |-> task[c].project]
      <3>1. state.file = f /\ state.project = task[c].project /\ Goto(c, state)
        BY <1>1, <2>1 DEF InsertFile
      <3> HIDE DEF state
      <3>2. QED BY <1>2, <2>1, <3>1, TaskMoves
    <2>2. CASE InsertFile(c) /\ ~task[c].cover
      <3>1. Return(c)
        BY <2>2 DEF InsertFile
      <3>2. QED BY <1>2, <3>1, TaskReturns DEF Idle
    <2>3. CASE InsertFails(c)
      <3> DEFINE state == [pc |-> "journal", file |-> task[c].file]
      <3>1. state.pc = "journal" /\ Goto(c, state)
        BY <2>3 DEF InsertFails
      <3> HIDE DEF state
      <3>2. QED BY <1>2, <3>1, TaskMoves
    <2>4. QED BY <2>1, <2>2, <2>3
  <1>6. \A p : /\ Covers(p) \subseteq Covers(p)' /\ Covers(p)' \subseteq Covers(p) \cup {f}
               /\ f \notin Covers(p)
    BY <1>2, <1>3 DEF Covers, HasRow
  <1>7. Live(f)' /\ \A g \in Files : g # f => (Live(g)' <=> Live(g))
    BY <1>3 DEF Live
  <1>8. ArchivesOwn'
    <2>1. ASSUME NEW t \in Tasks, task'[t].pc = "archive", HasRow(task[t].file)'
          PROVE  (task[t].file \in Covers(task[t].project))'
      <3>1. CASE t = c
        BY <1>3, <1>5, <2>1, <3>1 DEF Covers
      <3>2. CASE t # c
        <4>1. task'[t] = task[t] /\ task[t].file \in Files
          BY <1>5, <2>1, <3>2, TaskShape
        <4>2. task[t].file # f
          BY <1>2, <2>1, <4>1 DEF Archiving
        <4>3. task[t].file \in Covers(task[t].project)
          BY <1>3, <2>1, <4>1, <4>2 DEF CoverInv, ArchivesOwn, HasRow
        <4>4. QED BY <1>3, <4>1, <4>2, <4>3 DEF Covers, HasRow
      <3>3. QED BY <3>1, <3>2
    <2>2. QED BY <2>1 DEF ArchivesOwn
  <1>9. YoungestLives'
    <2>1. ASSUME left' = {}, NEW p \in Projects, Covers(p)' # {},
                 Covers(p)' \cap removed' = {}
          PROVE  \E y \in Files : Youngest(y, p)'
      <3>1. CASE Covers(p) = {}
        <4>1. f \in Covers(p)' /\ \A g \in Covers(p)' : g = f
          BY <1>6, <2>1, <3>1
        <4>2. stamp'[f] <= stamp'[f]
          BY DEF TypeOK
        <4>3. QED BY <1>7, <4>1, <4>2 DEF Youngest
      <3>2. CASE Covers(p) # {}
        <4>1. left = {} /\ Covers(p) \cap removed = {}
          BY <1>4, <1>6, <2>1
        <4>2. PICK y \in Files : Youngest(y, p)
          BY <3>2, <4>1 DEF CoverInv, YoungestLives
        <4>3. y # f /\ y \in Covers(p)' /\ Live(y)'
          BY <1>6, <1>7, <4>2 DEF Youngest
        <4>4. CASE stamp[f] <= stamp[y] \/ f \notin Covers(p)'
          BY <1>4, <1>6, <4>2, <4>3, <4>4 DEF Youngest
        <4>5. CASE ~(stamp[f] <= stamp[y]) /\ f \in Covers(p)'
          <5>1. \A g \in Covers(p) : stamp[g] <= stamp[f]
            BY <4>2, <4>5 DEF Youngest, Covers, TypeOK
          <5>2. \A g \in Covers(p)' : stamp[g] <= stamp[f]
            BY <1>6, <5>1 DEF TypeOK
          <5>3. QED BY <1>4, <1>7, <4>5, <5>2 DEF Youngest
        <4>6. QED BY <4>4, <4>5
      <3>3. QED BY <3>1, <3>2
    <2>2. QED BY <2>1 DEF YoungestLives
  <1>10. QED BY <1>8, <1>9 DEF CoverInv

\* Steps of uploads that store no row.
LEMMA CoversAwaited ==
  ASSUME FileInv, TypeOK', CoverInv, NEW c \in Calls,
         \/ \E f \in Files, u \in Users, p \in Projects, cover \in BOOLEAN :
              BeginUpload(c, f, u, p, cover)
         \/ PutObject(c) \/ PutFails(c)
         \/ InsertFails(c) /\ UNCHANGED file
  PROVE  CoverInv'
  <1> USE DEF FileInv, database, bucket, history
  <1>1. c \in Tasks /\ UNCHANGED <<file, removed, left>>
    BY DEF BeginUpload, PutObject, PutFails, InsertFails, Tasks
  <1>2. \A f \in Files : HasRow(f) => stamp'[f] = stamp[f]
    <2>1. CASE PutObject(c) \/ PutFails(c)
      <3>1. PICK f \in Files : f = task[c].file
        BY <2>1, TaskShape DEF PutObject, PutFails, Tasks
      <3>2. stamp' = Stamped(f) /\ ~HasRow(f)
        BY <1>1, <2>1, <3>1 DEF PutObject, PutFails, PutsFresh, FreshUnknown
      <3>3. QED BY <3>2, StampsSet
    <2>2. CASE UNCHANGED stamp
      BY <2>2
    <2>3. QED BY <2>1, <2>2 DEF BeginUpload, InsertFails
  <1>3. \A t \in Tasks : task'[t].pc = "archive" => task'[t] = task[t]
    <2>1. ASSUME NEW state, Goto(c, state), state.pc # "archive"
          PROVE  \A t \in Tasks : task'[t].pc = "archive" => task'[t] = task[t]
      BY <1>1, <2>1, TaskMoves
    <2>2. ASSUME NEW f \in Files, NEW u \in Users, NEW p \in Projects, NEW cover \in BOOLEAN,
                 BeginUpload(c, f, u, p, cover)
          PROVE  \A t \in Tasks : task'[t].pc = "archive" => task'[t] = task[t]
      <3> DEFINE state == [pc |-> "put", file |-> f, user |-> u, project |-> p,
                           cover |-> cover]
      <3>1. state.pc # "archive" /\ Goto(c, state)
        BY <2>2 DEF BeginUpload
      <3> HIDE DEF state
      <3>2. QED BY <2>1, <3>1
    <2>3. CASE PutObject(c)
      <3> DEFINE state == [task[c] EXCEPT !.pc = "insert"]
      <3>1. state.pc # "archive"
        BY <1>1, <2>3, TaskShape DEF PutObject
      <3>2. Goto(c, state)
        BY <2>3 DEF PutObject, GotoPc, Goto
      <3> HIDE DEF state
      <3>3. QED BY <2>1, <3>1, <3>2
    <2>4. CASE PutFails(c) \/ InsertFails(c)
      <3> DEFINE state == [pc |-> "journal", file |-> task[c].file]
      <3>1. state.pc # "archive" /\ Goto(c, state)
        BY <2>4 DEF PutFails, InsertFails
      <3> HIDE DEF state
      <3>2. QED BY <2>1, <3>1
    <2>5. QED BY <2>2, <2>3, <2>4
  <1>4. QED BY <1>1, <1>2, <1>3, CoversStay DEF Live

\* Covers that are archived by a younger one, or deleted by a user.
LEMMA CoversRemoved ==
  ASSUME FileInv, TypeOK', CoverInv, NEW c \in Calls,
         \/ ArchivePreviousCovers(c) \/ ArchiveFails(c)
         \/ DeleteFile(c) /\ Live(task[c].file)
         \/ CommitAccountDeletion(c)
  PROVE  CoverInv'
  <1> USE DEF FileInv, database, bucket, history
  <1>0. c \in Tasks
    BY DEF Tasks
  <1>1. CASE ArchivePreviousCovers(c) \/ ArchiveFails(c)
    <2>1. UNCHANGED <<stamp, removed, left>>
      BY <1>1 DEF ArchivePreviousCovers, ArchiveFails
    <2>2. \A t \in Tasks : task'[t] = task[t] \/ task'[t] = Idle
      BY <1>0, <1>1, TaskReturns DEF ArchivePreviousCovers, ArchiveFails
    <2>3. PICK f \in Files : f = task[c].file
      BY <1>0, <1>1, TaskShape DEF ArchivePreviousCovers, ArchiveFails
    <2>4. HasRow(f) => f \in Covers(task[c].project)
      BY <1>0, <1>1, <2>3 DEF ArchivePreviousCovers, ArchiveFails, CoverInv, ArchivesOwn
    <2>5. ASSUME NEW g \in Files, file'[g] # file[g]
          PROVE  /\ HasRow(g) /\ file'[g] = [file[g] EXCEPT !.status = "archived"]
                 /\ g \in Covers(task[c].project) /\ f \in Covers(task[c].project)
                 /\ stamp[g] < stamp[f]
      <3>1. g \in OlderCovers(f, task[c].project)
            /\ file'[g] = [file[g] EXCEPT !.status = "archived"]
        BY <1>1, <2>3, <2>5 DEF ArchivePreviousCovers, ArchiveFails
      <3>2. QED BY <2>4, <3>1 DEF OlderCovers, Covers
    <2>6. ASSUME NEW g \in Files, file'[g] # file[g]
          PROVE  /\ HasRow(g) /\ HasRow(g)'
                 /\ file'[g].cover = file[g].cover /\ file'[g].project = file[g].project
      <3>1. file[g] \in FileRow
        BY <2>5, <2>6, RowsOfFiles
      <3>2. QED BY <2>5, <2>6, <3>1 DEF FileRow, HasRow
    <2>7. \A g \in Files : Live(g) /\ ~Live(g)' =>
            \E p : g \in Covers(p) /\ \E y \in Covers(p) : stamp[g] < stamp[y]
      BY <2>5 DEF Live
    <2>8. QED BY <2>1, <2>2, <2>6, <2>7, CoversStay DEF Idle
  <1>2. CASE DeleteFile(c) /\ Live(task[c].file)
    <2>1. PICK f \in Files : f = task[c].file
      BY <1>0, <1>2, TaskShape DEF DeleteFile
    <2>2. /\ file' = [file EXCEPT ![f].status = "archived"]
          /\ removed' = removed \cup {f} /\ UNCHANGED <<stamp, left>>
      BY <1>2, <2>1 DEF DeleteFile
    <2>3. file[f] \in FileRow /\ HasRow(f)
      BY <1>2, <2>1, RowsOfFiles
    <2>4. /\ \A g \in Files : g # f => file'[g] = file[g]
          /\ file'[f].cover = file[f].cover /\ file'[f].project = file[f].project
          /\ HasRow(f)'
      BY <2>2, <2>3 DEF TypeOK, FileRow, HasRow
    <2>5. \A g \in Files : Live(g) /\ ~Live(g)' => g \in removed'
      BY <2>2, <2>4 DEF Live
    <2> DEFINE state == [pc |-> "journal", file |-> f]
    <2>6. state.pc # "archive" /\ Goto(c, state)
      BY <1>2, <2>1 DEF DeleteFile
    <2> HIDE DEF state
    <2>7. \A t \in Tasks : task'[t].pc = "archive" => task'[t] = task[t]
      BY <1>0, <2>6, TaskMoves
    <2>8. QED BY <2>2, <2>3, <2>4, <2>5, <2>7, CoversStay
  <1>3. CASE CommitAccountDeletion(c)
    <2>1. left' # {}
      BY <1>3 DEF CommitAccountDeletion
    <2>2. \A f \in Files : file'[f] = file[f] \/ file'[f] = NoRow
      BY <1>3 DEF CommitAccountDeletion
    <2>3. \A t \in Tasks : task'[t] = task[t] \/ task'[t] = Idle
      BY <1>0, <1>3, TaskReturns DEF CommitAccountDeletion
    <2>4. ASSUME NEW t \in Tasks, task'[t].pc = "archive", HasRow(task[t].file)'
          PROVE  (task[t].file \in Covers(task[t].project))'
      <3>1. task'[t] = task[t] /\ task[t].file \in Files
        BY <2>3, <2>4, TaskShape DEF Idle
      <3>2. file'[task[t].file] = file[task[t].file] /\ HasRow(task[t].file)
        BY <2>2, <2>4, <3>1 DEF HasRow, NoRow
      <3>3. task[t].file \in Covers(task[t].project)
        BY <2>4, <3>1, <3>2 DEF CoverInv, ArchivesOwn
      <3>4. QED BY <3>1, <3>2, <3>3 DEF Covers, HasRow
    <2>5. QED BY <2>1, <2>4 DEF CoverInv, ArchivesOwn, YoungestLives
  <1>4. QED BY <1>1, <1>2, <1>3

LEMMA CoversKept ==
  ASSUME FileInv, CoverInv, [Next]_vars
  PROVE  CoverInv'
  <1> USE DEF database, bucket, history
  <1>0. TypeOK /\ TypeOK'
    BY TypesKept DEF FileInv
  <1>1. ASSUME Background, UNCHANGED left
        PROVE  CoverInv'
    <2>1. /\ UNCHANGED <<file, stamp, removed>>
          /\ \A t \in Tasks : task'[t].pc = "archive" => task'[t] = task[t]
      BY <1>1 DEF Background, UploadSteps
    <2>2. QED BY <1>0, <1>1, <2>1, CoversStay DEF Live
  <1>2. ASSUME NEW c \in Calls, Request(c)
        PROVE  CoverInv'
    <2>1. CASE \/ \E f \in Files, u \in Users, p \in Projects, cover \in BOOLEAN :
                    BeginUpload(c, f, u, p, cover)
               \/ PutObject(c) \/ PutFails(c)
      BY <1>0, <2>1, CoversAwaited
    <2>2. CASE InsertFile(c) \/ InsertFails(c)
      <3>1. (file' = file /\ InsertFails(c)) \/ file' = Inserted(task[c])
        BY <2>2 DEF InsertFile, InsertFails
      <3>2. QED BY <1>0, <2>2, <3>1, CoversAwaited, CoverStored
    <2>3. CASE \/ ArchivePreviousCovers(c) \/ ArchiveFails(c)
               \/ DeleteFile(c) /\ Live(task[c].file)
               \/ CommitAccountDeletion(c)
      BY <1>0, <2>3, CoversRemoved
    <2>4. CASE \/ \E f \in Files : BeginDelete(c, f)
               \/ DeleteFile(c) /\ ~Live(task[c].file)
               \/ \E i \in Items, f \in Files : CheckReceipt(c, i, f)
               \/ AttachReceipt(c)
               \/ \E u \in Users : BeginDeleteAccount(c, u)
               \/ RecordAccountDeletion(c)
      <3>1. UNCHANGED left
        BY <2>4 DEF BeginDelete, DeleteFile, CheckReceipt, AttachReceipt,
                    BeginDeleteAccount, RecordAccountDeletion
      <3>2. QED BY <1>1, <2>4, <3>1, QuietActions
    <2>5. CASE Unqueue(c) \/ QueueStorageDeletion(c)
      <3>1. UNCHANGED left
        BY <2>5 DEF Unqueue, QueueStorageDeletion
      <3>2. QED BY <1>1, <2>5, <3>1, RemovalActions
    <2>6. QED BY <1>2, <2>1, <2>2, <2>3, <2>4, <2>5 DEF Request
  <1>3. CASE \/ \E w \in Workers : DeletionWorker(w)
             \/ \E t \in Tasks : RecordObjectDeletion(t) \/ EraseObject(t) \/ RemovalFails(t)
    <2>1. UNCHANGED left
      BY <1>3 DEF DeletionWorker, ClaimDeletion, MarkDeletionComplete, RescheduleDeletion,
                  ReleaseDeletionClaim, RecordObjectDeletion, EraseObject, RemovalFails
    <2>2. QED BY <1>1, <1>3, <2>1, RemovalActions
  <1>4. CASE \E t \in Tasks : Abort(t)
    <2>1. UNCHANGED left
      BY <1>4 DEF Abort
    <2>2. QED BY <1>1, <1>4, <2>1, QuietActions
  <1>5. CASE \/ \E f \in Files : LeaseLapses(f) \/ RetryDue(f)
             \/ \E i \in Items : DeleteCostItem(i)
             \/ UNCHANGED vars
    <2>1. UNCHANGED left
      BY <1>5 DEF LeaseLapses, RetryDue, DeleteCostItem, vars
    <2>2. QED BY <1>1, <1>5, <2>1, TimeActions
  <1>6. QED BY <1>2, <1>3, <1>4, <1>5 DEF Next

\* Concurrent uploads of covers never archive one another: a project keeps a
\* live cover unless a user deleted one (archivePreviousProjectCovers).
THEOREM AProjectKeepsACover == Spec => []CoverSurvives
  <1>1. Init => CoverInv
    <2>1. SUFFICES ASSUME Init PROVE CoverInv
      OBVIOUS
    <2>2. \A p : Covers(p) = {}
      BY <2>1 DEF Init, Covers, HasRow, NoRow
    <2>3. QED BY <2>1, <2>2 DEF Init, Idle, CoverInv, ArchivesOwn, YoungestLives
  <1>2. CoverInv => CoverSurvives
    BY DEF CoverInv, YoungestLives, Youngest, CoverSurvives, Covers
  <1>3. FileInv /\ CoverInv /\ [Next]_vars => FileInv' /\ CoverInv'
    BY FilesKept, CoversKept
  <1>4. QED BY <1>1, <1>2, <1>3, FilesFirst, PTL DEF Spec

-----------------------------------------------------------------------------
(* Backup and restore. *)

\* The rows that ReplayTombstones deletes.
AccountRows == UNION {FilesOf(u) : u \in accTombs}
TombstoneRows == {f \in tombs : HasRow(f)}

LEMMA RowsReplayed ==
  ASSUME TypeOK
  PROVE  AccountRows \subseteq Files /\ TombstoneRows \subseteq Files
  <1>1. \A u : FilesOf(u) \subseteq Files
    BY DEF FilesOf
  <1>2. AccountRows \subseteq Files
    BY <1>1 DEF AccountRows
  <1>3. TombstoneRows \subseteq Files
    BY DEF TombstoneRows, TypeOK
  <1>4. QED BY <1>2, <1>3

LEMMA RestoreTypesKept ==
  ASSUME RestoreTypeOK, [RestoreNext]_restoreVars
  PROVE  RestoreTypeOK'
  <1> USE DEF database, bucket, history
  <1>0. TypeOK /\ backup \in {NoBackup} \cup Archive
    BY DEF RestoreTypeOK
  <1>1. CASE Serving /\ Next /\ UNCHANGED <<backup, phase>>
    BY <1>0, <1>1, TypesKept DEF RestoreTypeOK
  <1>2. CASE DumpDatabase
    <2>1. backup' \in Archive /\ backup'.stage = "copying"
      BY <1>0, <1>2 DEF DumpDatabase, Archive, TypeOK
    <2>2. TypeOK'
      BY <1>0, <1>2 DEF DumpDatabase, vars, TypeOK
    <2>3. QED BY <1>2, <2>1, <2>2 DEF DumpDatabase, RestoreTypeOK
  <1>3. CASE (\E f \in Files : CopyObject(f)) \/ UploadArchive \/ BackupFails
    <2>1. UNCHANGED <<vars, phase>> /\ phase = "serving" /\ backup.stage = "copying"
      BY <1>3 DEF CopyObject, UploadArchive, BackupFails
    <2>2. backup' \in {NoBackup} \cup Archive
      <3>1. backup \in Archive
        BY <1>0, <2>1 DEF NoBackup
      <3>2. ASSUME NEW f \in Files, CopyObject(f)
            PROVE  backup' \in Archive
        BY <3>1, <3>2 DEF CopyObject, Archive
      <3>3. CASE UploadArchive
        BY <3>1, <3>3 DEF UploadArchive, Archive
      <3>4. CASE BackupFails
        BY <3>4 DEF BackupFails
      <3>5. QED BY <1>3, <3>2, <3>3, <3>4
    <2>3. TypeOK'
      BY <1>0, <2>1 DEF vars, TypeOK
    <2>4. QED BY <2>1, <2>2, <2>3 DEF RestoreTypeOK
  <1>4. CASE Disaster
    <2>1. task' \in [Tasks -> CallState \cup WorkerState]
          /\ (\A c \in Calls : task'[c] \in CallState)
          /\ \A w \in Workers : task'[w] \in WorkerState
      BY <1>4, IdleState DEF Disaster, Tasks
    <2>2. QED BY <1>4, <2>1 DEF Disaster, RestoreTypeOK, TypeOK
  <1>5. CASE RestoreDatabase \/ RestoreObjects
    <2>1. backup \in Archive
      BY <1>5 DEF RestoreTypeOK, RestoreDatabase, RestoreObjects, NoBackup
    <2>2. QED
      BY <1>5, <2>1 DEF RestoreDatabase, RestoreObjects, RestoreTypeOK, TypeOK, Archive
  <1>6. CASE ReplayTombstones
    <2>1. PICK fs \in SUBSET Files :
            /\ file' = [f \in Files |-> IF f \in fs THEN NoRow ELSE file[f]]
            /\ outbox' = Enqueued(fs)
            /\ receipt' = WithoutReceipts(fs)
      <3> DEFINE rows == AccountRows \cup TombstoneRows
      <3>1. rows \subseteq Files
        BY <1>0, RowsReplayed
      <3>2. /\ file' = [f \in Files |-> IF f \in rows THEN NoRow ELSE file[f]]
            /\ outbox' = Enqueued(rows)
            /\ receipt' = WithoutReceipts(rows)
        BY <1>6 DEF ReplayTombstones, Replay, AccountRows, TombstoneRows
      <3> HIDE DEF rows
      <3>3. QED BY <3>1, <3>2
    <2>2. outbox' \in [Files -> Entry]
      BY <1>0, <2>1, EntriesQueued
    <2>3. file' \in [Files -> {NoRow} \cup FileRow]
          /\ receipt' \in [Items -> Files \cup {NoFile}]
      BY <1>0, <2>1 DEF TypeOK, WithoutReceipts
    <2>4. users' \subseteq Users
      BY <1>0, <1>6 DEF ReplayTombstones, Replay, TypeOK
    <2>5. QED BY <1>6, <2>2, <2>3, <2>4 DEF ReplayTombstones, RestoreTypeOK, TypeOK
  <1>7. CASE JournalOutbox \/ EraseTombstoned
    BY <1>7 DEF JournalOutbox, EraseTombstoned, Queued, RestoreTypeOK, TypeOK
  <1>8. CASE CompleteOutbox
    <2>1. outbox' \in [Files -> Entry]
      BY <1>0, <1>8 DEF CompleteOutbox, TypeOK, Entry
    <2>2. QED BY <1>8, <2>1 DEF CompleteOutbox, RestoreTypeOK, TypeOK
  <1>9. CASE RestoreFails
    BY <1>9 DEF RestoreFails, vars, RestoreTypeOK, TypeOK
  <1>10. CASE UNCHANGED restoreVars
    BY <1>10 DEF restoreVars, vars, RestoreTypeOK, TypeOK
  <1>11. QED
    BY <1>1, <1>2, <1>3, <1>4, <1>5, <1>6, <1>7, <1>8, <1>9, <1>10
       DEF RestoreNext, Backup, Restore

\* The types of the tables survive a restore, and an archive holds rows and keys
\* of the same kinds (backup.sh, restore.sh).
THEOREM RestoreTypeCorrect == RestoreSpec => []RestoreTypeOK
  <1>1. RestoreInit => RestoreTypeOK
    BY TypesFirst DEF RestoreInit, RestoreTypeOK
  <1>2. RestoreTypeOK /\ [RestoreNext]_restoreVars => RestoreTypeOK'
    BY RestoreTypesKept
  <1>3. QED BY <1>1, <1>2, PTL DEF RestoreSpec

\* The tombstone of an account is in the journal before its deletion commits,
\* and the journal is replayed before the API answers again.
Journaled ==
  /\ left \subseteq accTombs
  /\ \A t \in Tasks : task[t].pc = "commit" => task[t].user \in accTombs

AccountInv ==
  /\ Journaled
  /\ phase \notin {"stopped", "database", "objects"} => LeftGone

LEMMA JournalKept ==
  ASSUME TypeOK, Journaled, Next
  PROVE  Journaled' /\ (LeftGone => LeftGone')
  <1> USE DEF database, bucket, history
  <1>1. ASSUME UNCHANGED <<users, left, accTombs>>,
               \A t \in Tasks : task'[t].pc = "commit" => task'[t] = task[t]
        PROVE  Journaled' /\ (LeftGone => LeftGone')
    BY <1>1 DEF Journaled, LeftGone
  <1>2. ASSUME NEW t \in Tasks, NEW state, Goto(t, state), state.pc # "commit",
               UNCHANGED <<users, left, accTombs>>
        PROVE  Journaled' /\ (LeftGone => LeftGone')
    BY <1>1, <1>2, TaskMoves
  <1>3. ASSUME NEW t \in Tasks, Return(t), UNCHANGED <<users, left, accTombs>>
        PROVE  Journaled' /\ (LeftGone => LeftGone')
    BY <1>1, <1>3, TaskReturns DEF Idle
  <1>4. ASSUME NEW c \in Calls, RecordAccountDeletion(c)
        PROVE  Journaled' /\ (LeftGone => LeftGone')
    <2> DEFINE state == [task[c] EXCEPT !.pc = "commit"]
    <2>1. c \in Tasks /\ state.user = task[c].user /\ Goto(c, state)
      BY <1>4, TaskShape DEF RecordAccountDeletion, GotoPc, Goto, Tasks
    <2> HIDE DEF state
    <2>2. task'[c].user = task[c].user /\ \A t \in Tasks : t # c => task'[t] = task[t]
      BY <2>1, TaskMoves
    <2>3. accTombs' = accTombs \cup {task[c].user} /\ UNCHANGED <<users, left>>
      BY <1>4 DEF RecordAccountDeletion
    <2>4. QED BY <2>2, <2>3 DEF Journaled, LeftGone
  <1>5. ASSUME NEW c \in Calls, CommitAccountDeletion(c)
        PROVE  Journaled' /\ (LeftGone => LeftGone')
    <2> DEFINE u == task[c].user
    <2>1. c \in Tasks /\ u \in accTombs
      BY <1>5 DEF CommitAccountDeletion, Journaled, Tasks
    <2>2. users' = users \ {u} /\ left' = left \cup {u} /\ accTombs' = accTombs
      BY <1>5 DEF CommitAccountDeletion
    <2>3. \A t \in Tasks : task'[t] = task[t] \/ task'[t] = Idle
      BY <1>5, <2>1, TaskReturns DEF CommitAccountDeletion
    <2> HIDE DEF u
    <2>4. QED BY <2>1, <2>2, <2>3 DEF Journaled, LeftGone, Idle
  <1>6. ASSUME NEW t \in Tasks, NEW pc \in {"insert", "erase", "erased", "failed"},
               GotoPc(t, pc), task[t].pc \in {"put", "journal", "erase"},
               UNCHANGED <<users, left, accTombs>>
        PROVE  Journaled' /\ (LeftGone => LeftGone')
    <2> DEFINE state == [task[t] EXCEPT !.pc = pc]
    <2>1. state.pc # "commit"
      BY <1>6, TaskShape DEF Tasks
    <2>2. Goto(t, state)
      BY <1>6 DEF GotoPc, Goto
    <2> HIDE DEF state
    <2>3. QED BY <1>2, <1>6, <2>1, <2>2
  <1>7. ASSUME NEW c \in Calls, Request(c)
        PROVE  Journaled' /\ (LeftGone => LeftGone')
    <2>1. c \in Tasks
      BY DEF Tasks
    <2>2. CASE \/ \E f \in Files, u \in Users, p \in Projects, cover \in BOOLEAN :
                    BeginUpload(c, f, u, p, cover)
               \/ PutFails(c) \/ InsertFile(c) \/ InsertFails(c)
               \/ \E f \in Files : BeginDelete(c, f)
               \/ DeleteFile(c)
               \/ \E i \in Items, f \in Files : CheckReceipt(c, i, f)
               \/ \E u \in Users : BeginDeleteAccount(c, u)
      <3>1. UNCHANGED <<users, left, accTombs>>
        BY <2>2 DEF BeginUpload, PutFails, InsertFile, InsertFails, BeginDelete, DeleteFile,
                    CheckReceipt, BeginDeleteAccount
      <3>2. CASE \/ \E f \in Files, u \in Users, p \in Projects, cover \in BOOLEAN :
                      BeginUpload(c, f, u, p, cover)
                 \/ \E f \in Files : BeginDelete(c, f)
                 \/ \E i \in Items, f \in Files : CheckReceipt(c, i, f)
                 \/ \E u \in Users : BeginDeleteAccount(c, u)
        BY <1>1, <2>1, <3>1, <3>2
           DEF BeginUpload, BeginDelete, CheckReceipt, BeginDeleteAccount, Goto, TypeOK
      <3>3. CASE PutFails(c) \/ InsertFails(c)
        BY <1>1, <2>1, <3>1, <3>3 DEF PutFails, InsertFails, Goto, TypeOK
      <3>4. CASE InsertFile(c) \/ DeleteFile(c)
        BY <1>1, <2>1, <3>1, <3>4 DEF InsertFile, DeleteFile, Goto, Return, Idle, TypeOK
      <3>5. QED BY <2>2, <3>2, <3>3, <3>4
    <2>3. CASE PutObject(c)
      BY <1>6, <2>1, <2>3 DEF PutObject
    <2>4. CASE ArchivePreviousCovers(c) \/ ArchiveFails(c) \/ AttachReceipt(c)
               \/ Unqueue(c) \/ QueueStorageDeletion(c)
      BY <1>3, <2>1, <2>4 DEF ArchivePreviousCovers, ArchiveFails, AttachReceipt, Unqueue,
                              QueueStorageDeletion
    <2>5. QED BY <1>4, <1>5, <1>7, <2>2, <2>3, <2>4 DEF Request
  <1>8. ASSUME NEW w \in Workers, DeletionWorker(w)
        PROVE  Journaled' /\ (LeftGone => LeftGone')
    <2>1. w \in Tasks
      BY DEF Tasks
    <2>2. ASSUME NEW f \in Files, ClaimDeletion(w, f)
          PROVE  Journaled' /\ (LeftGone => LeftGone')
      <3> DEFINE state == [pc |-> "journal", file |-> f, id |-> outbox[f].id]
      <3>1. Goto(w, state) /\ state.pc # "commit" /\ UNCHANGED <<users, left, accTombs>>
        BY <2>2 DEF ClaimDeletion
      <3> HIDE DEF state
      <3>2. QED BY <1>2, <2>1, <3>1
    <2>3. CASE MarkDeletionComplete(w) \/ RescheduleDeletion(w) \/ ReleaseDeletionClaim(w)
      BY <1>3, <2>1, <2>3 DEF MarkDeletionComplete, RescheduleDeletion, ReleaseDeletionClaim
    <2>4. QED BY <1>8, <2>2, <2>3 DEF DeletionWorker
  <1>9. ASSUME NEW t \in Tasks,
               RecordObjectDeletion(t) \/ EraseObject(t) \/ RemovalFails(t)
        PROVE  Journaled' /\ (LeftGone => LeftGone')
    BY <1>6, <1>9 DEF RecordObjectDeletion, EraseObject, RemovalFails
  <1>10. ASSUME NEW t \in Tasks, Abort(t)
         PROVE  Journaled' /\ (LeftGone => LeftGone')
    BY <1>3, <1>10 DEF Abort
  <1>11. CASE \/ \E f \in Files : LeaseLapses(f) \/ RetryDue(f)
              \/ \E i \in Items : DeleteCostItem(i)
    BY <1>1, <1>11 DEF LeaseLapses, RetryDue, DeleteCostItem
  <1>12. QED BY <1>7, <1>8, <1>9, <1>10, <1>11 DEF Next

\* An account whose deletion was committed stays deleted when an older snapshot
\* is restored (account.go, apply-deletion-tombstones.py).
THEOREM RestoreKeepsAccountsDeleted == RestoreSpec => []AccountsStayDeleted
  <1>1. RestoreInit => AccountInv
    BY DEF RestoreInit, Init, Idle, AccountInv, Journaled, LeftGone
  <1>2. RestoreTypeOK /\ AccountInv /\ [RestoreNext]_restoreVars => AccountInv'
    <2> SUFFICES ASSUME RestoreTypeOK, AccountInv, [RestoreNext]_restoreVars
                 PROVE  AccountInv'
      OBVIOUS
    <2> USE DEF database, bucket, history, AccountInv
    <2>1. CASE Serving /\ Next /\ UNCHANGED <<backup, phase>>
      BY <2>1, JournalKept DEF RestoreTypeOK
    <2>2. CASE UNCHANGED vars /\ (phase' = phase \/ phase' = "stopped" \/ phase \in {"journaled"})
      BY <2>2 DEF vars, Journaled, LeftGone
    <2>3. CASE Disaster
      BY <2>3 DEF Disaster, Journaled, Idle
    <2>4. CASE RestoreDatabase \/ RestoreObjects
      BY <2>4 DEF RestoreDatabase, RestoreObjects, Journaled
    <2>5. CASE ReplayTombstones
      BY <2>5 DEF ReplayTombstones, Replay, Journaled, LeftGone
    <2>6. CASE JournalOutbox \/ EraseTombstoned \/ CompleteOutbox
      BY <2>6 DEF JournalOutbox, EraseTombstoned, CompleteOutbox, Journaled, LeftGone
    <2>7. QED
      BY <2>1, <2>2, <2>3, <2>4, <2>5, <2>6
         DEF RestoreNext, Backup, Restore, DumpDatabase, CopyObject, UploadArchive,
             BackupFails, RestoreFails, restoreVars
  <1>3. AccountInv => AccountsStayDeleted
    BY DEF AccountInv, AccountsStayDeleted, Serving, LeftGone
  <1>4. QED BY <1>1, <1>2, <1>3, RestoreTypeCorrect, PTL DEF RestoreSpec

-----------------------------------------------------------------------------
(* Rows, objects and the journal after a restore.                          *)

\* A file whose object was stored, and whose INSERT is not pending any more,
\* gets no row, no object and no answer that it did not have.
Stored(f) == stamp[f] # 0 /\ \A t \in Tasks : ~Inserting(t, f)

\* The upload of a file was, or will be, answered with success.
Answered(f) == f \in acked \/ Archiving(f)

\* The tombstone of a file is written before its object is erased, and never
\* for a live file of an answered upload.
TombInv ==
  /\ \A f \in tombs : Stored(f) /\ ~(Live(f) /\ Answered(f))
  /\ \A t \in Tasks : task[t].pc \in {"erase", "erased"} => task[t].file \in tombs

\* What the dump and the copy of the bucket, which go on while the system
\* runs, say of a file.
BackupRow(f) == backup.file[f].status
BackupQueued(f) == backup.outbox[f].status # "none"
Kept(f) == f \in backup.objects \/ f \in backup.pending \cap objects

BackupInv ==
  backup # NoBackup =>
    /\ backup.stage = "done" => backup.pending = {}
    /\ \A f \in Files :
         /\ BackupRow(f) # "none" \/ BackupQueued(f) => Stored(f)
         /\ Kept(f) => stamp[f] # 0
         /\ BackupRow(f) = "archived" /\ ~BackupQueued(f) => ~Kept(f)
         /\ BackupRow(f) = "live" /\ Answered(f) =>
              ~BackupQueued(f) /\ (Kept(f) \/ f \in tombs)

\* The steps of the restore command.
Resting ==
  /\ \A t \in Tasks : task[t] = Idle
  /\ \A f \in Files : stamp[f] = 0 => f \notin acked \cup removed \cup tombs

RowsFromDump ==
  \A f \in Files :
    /\ HasRow(f) => file[f] = backup.file[f] /\ outbox[f] = backup.outbox[f]
    /\ f \in Queued => stamp[f] # 0

RestoreInv ==
  /\ RestoreTypeOK
  /\ BackupInv
  /\ Serving => FileInv /\ TombInv
  /\ ~Serving => Resting
  /\ phase \in {"database", "objects", "replayed", "journaled", "erased"} => RowsFromDump
  /\ phase \in {"objects", "replayed", "journaled"} => objects = backup.objects
  /\ phase = "replayed" => \A f \in tombs : ~HasRow(f)
  /\ phase \in {"journaled", "erased"} =>
       Queued \subseteq tombs /\ \A f \in tombs : HasRow(f) => f \in Queued
  /\ phase = "erased" => objects = backup.objects \ tombs

\* What a step may do to a stored file.
StoredMoves(f) ==
  /\ Stored(f)'
  /\ Live(f)' => Live(f)
  /\ Answered(f)' => Answered(f)
  /\ f \in objects' => f \in objects
  /\ f \in objects \ objects' => f \in tombs

\* A step that uploads nothing.
LEMMA StoredRests ==
  ASSUME NEW f \in Files, Stored(f), stamp'[f] = stamp[f],
         Live(f)' => Live(f), f \in acked' => Answered(f),
         f \in objects' => f \in objects, f \in objects \ objects' => f \in tombs,
         \A t \in Tasks : \/ task'[t] = task[t]
                          \/ task'[t].pc \notin {"insert", "archive"}
  PROVE  StoredMoves(f)
  BY DEF Stored, StoredMoves, Answered, Archiving, Inserting

LEMMA UploadsSpareStored ==
  ASSUME FileInv, NEW f \in Files, Stored(f), NEW c \in Calls,
         \/ \E g \in Files, u \in Users, p \in Projects, cover \in BOOLEAN :
              BeginUpload(c, g, u, p, cover)
         \/ PutObject(c) \/ PutFails(c)
         \/ InsertFile(c) \/ InsertFails(c)
  PROVE  StoredMoves(f)
  <1> USE DEF database, bucket, history
  <1>0. TypeOK /\ c \in Tasks
    BY DEF FileInv, Tasks
  <1>1. ASSUME NEW g \in Files, NEW state, Goto(c, state), state.file = g, f # g,
               UNCHANGED <<stamp, file, acked, objects>>
               \/ /\ stamp'[f] = stamp[f] /\ file'[f] = file[f]
                  /\ f \in acked' => f \in acked
                  /\ f \in objects' <=> f \in objects
        PROVE  StoredMoves(f)
    <2>1. \A t \in Tasks : task'[t] = task[t] \/ task'[t].file = g
      BY <1>0, <1>1, TaskMoves
    <2>2. QED BY <1>1, <2>1 DEF Stored, StoredMoves, Answered, Archiving, Inserting, Live
  <1>2. CASE \E g \in Files, u \in Users, p \in Projects, cover \in BOOLEAN :
               BeginUpload(c, g, u, p, cover)
    <2>1. PICK g \in Files, u \in Users, p \in Projects, cover \in BOOLEAN :
            BeginUpload(c, g, u, p, cover)
      BY <1>2
    <2>2. f # g
      BY <2>1 DEF BeginUpload, Unused, Stored
    <2> DEFINE state == [pc |-> "put", file |-> g, user |-> u, project |-> p,
                         cover |-> cover]
    <2>3. Goto(c, state) /\ state.file = g /\ UNCHANGED <<stamp, file, acked, objects>>
      BY <2>1 DEF BeginUpload
    <2> HIDE DEF state
    <2>4. QED BY <1>1, <2>2, <2>3
  <1>3. CASE PutObject(c) \/ PutFails(c)
    <2>1. PICK g \in Files : g = task[c].file
      BY <1>0, <1>3, TaskShape DEF PutObject, PutFails
    <2>2. f # g
      BY <1>0, <1>3, <2>1 DEF FileInv, PutsFresh, PutObject, PutFails, Stored
    <2>3. stamp'[f] = stamp[f] /\ UNCHANGED <<file, acked>>
          /\ (f \in objects' <=> f \in objects)
      BY <1>0, <1>3, <2>1, <2>2, StampsSet DEF PutObject, PutFails
    <2>4. PICK state : Goto(c, state) /\ state.file = g
      <3>1. CASE PutObject(c)
        <4> DEFINE state == [task[c] EXCEPT !.pc = "insert"]
        <4>1. state.file = g
          BY <1>0, <2>1, <3>1, TaskShape DEF PutObject
        <4>2. Goto(c, state)
          BY <3>1 DEF PutObject, GotoPc, Goto
        <4>3. QED BY <4>1, <4>2
      <3>2. CASE PutFails(c)
        <4>1. Goto(c, [pc |-> "journal", file |-> g])
          BY <2>1, <3>2 DEF PutFails
        <4>2. QED BY <4>1
      <3>3. QED BY <1>3, <3>1, <3>2
    <2>5. QED BY <1>1, <2>2, <2>3, <2>4
  <1>4. CASE InsertFile(c) \/ InsertFails(c)
    <2>1. PICK g \in Files : g = task[c].file
      BY <1>0, <1>4, TaskShape DEF InsertFile, InsertFails
    <2>2. f # g
      BY <1>0, <1>4, <2>1 DEF InsertFile, InsertFails, Stored, Inserting
    <2>3. file'[f] = file[f] /\ UNCHANGED <<stamp, objects>>
          /\ (f \in acked' => f \in acked)
      BY <1>0, <1>4, <2>1, <2>2, RowStored DEF InsertFile, InsertFails
    <2>4. \A t \in Tasks : task'[t] = task[t] \/ task'[t] = Idle \/ task'[t].file = g
      <3>1. CASE InsertFile(c) /\ task[c].cover
        <4> DEFINE state == [pc |-> "archive", file |-> g, project |-> task[c].project]
        <4>1. Goto(c, state) /\ state.file = g
          BY <2>1, <3>1 DEF InsertFile
        <4> HIDE DEF state
        <4>2. QED BY <1>0, <4>1, TaskMoves
      <3>2. CASE InsertFile(c) /\ ~task[c].cover
        <4>1. Return(c)
          BY <3>2 DEF InsertFile
        <4>2. QED BY <1>0, <4>1, TaskReturns
      <3>3. CASE InsertFails(c)
        <4> DEFINE state == [pc |-> "journal", file |-> g]
        <4>1. Goto(c, state) /\ state.file = g
          BY <2>1, <3>3 DEF InsertFails
        <4> HIDE DEF state
        <4>2. QED BY <1>0, <4>1, TaskMoves
      <3>4. QED BY <1>4, <3>1, <3>2, <3>3
    <2>5. QED
      BY <2>2, <2>3, <2>4
         DEF Stored, StoredMoves, Answered, Archiving, Inserting, Live, Idle
  <1>5. QED BY <1>2, <1>3, <1>4

LEMMA RemovalsSpareStored ==
  ASSUME FileInv, TombInv, NEW f \in Files, Stored(f), NEW t \in Tasks,
         RecordObjectDeletion(t) \/ EraseObject(t) \/ RemovalFails(t)
  PROVE  StoredMoves(f)
  <1> USE DEF database, bucket, history
  <1>1. UNCHANGED <<stamp, file, acked>>
        /\ (\/ UNCHANGED objects
            \/ task[t].file \in tombs /\ objects' \in {objects, objects \ {task[t].file}})
    BY DEF RecordObjectDeletion, EraseObject, RemovalFails, TombInv
  <1>2. \A d \in Tasks : task'[d] = task[d] \/ task'[d].pc \in RemovalSteps
    BY RemovalMoves DEF RecordObjectDeletion, EraseObject, RemovalFails, FileInv, RemovalSteps
  <1>3. QED BY <1>1, <1>2, StoredRests DEF RemovalSteps, Live, Answered

LEMMA StoredKept ==
  ASSUME FileInv, TombInv, NEW f \in Files, Stored(f), [Next]_vars
  PROVE  StoredMoves(f)
  <1> USE DEF database, bucket, history
  <1>0. TypeOK
    BY DEF FileInv
  <1>1. ASSUME NEW t \in Tasks, UNCHANGED <<stamp, file, acked, objects>>,
               NEW state, Goto(t, state), state.pc \notin {"insert", "archive"}
        PROVE  StoredMoves(f)
    BY <1>0, <1>1, TaskMoves, StoredRests DEF Live, Answered
  <1>2. ASSUME NEW t \in Tasks, Return(t), UNCHANGED <<stamp, objects>>,
               Live(f)' => Live(f), f \in acked' => Answered(f)
        PROVE  StoredMoves(f)
    BY <1>0, <1>2, TaskReturns, StoredRests DEF Idle
  <1>3. ASSUME NEW c \in Calls, DeleteFile(c)
        PROVE  StoredMoves(f)
    <2>1. c \in Tasks /\ task[c].file \in Files
      BY <1>0, <1>3, TaskShape DEF DeleteFile, Tasks
    <2>2. Live(f)' => Live(f)
      BY <1>0, <1>3, <2>1 DEF DeleteFile, Live, TypeOK
    <2>3. UNCHANGED <<stamp, acked, objects>>
      BY <1>3 DEF DeleteFile
    <2>4. CASE Live(task[c].file)
      <3> DEFINE state == [pc |-> "journal", file |-> task[c].file]
      <3>1. Goto(c, state) /\ state.pc = "journal"
        BY <1>3, <2>4 DEF DeleteFile
      <3> HIDE DEF state
      <3>2. QED BY <1>0, <2>1, <2>2, <2>3, <3>1, TaskMoves, StoredRests DEF Answered
    <2>5. CASE ~Live(task[c].file)
      BY <1>2, <1>3, <2>1, <2>2, <2>3, <2>5 DEF DeleteFile, Answered
    <2>6. QED BY <2>4, <2>5
  <1>4. ASSUME NEW c \in Calls, ArchivePreviousCovers(c) \/ ArchiveFails(c)
        PROVE  StoredMoves(f)
    <2>1. c \in Tasks /\ Return(c) /\ UNCHANGED <<stamp, objects>>
          /\ acked' = acked \cup {task[c].file}
      BY <1>4 DEF ArchivePreviousCovers, ArchiveFails, Tasks
    <2>2. f \in acked' => Answered(f)
      BY <1>4, <2>1 DEF ArchivePreviousCovers, ArchiveFails, Answered, Archiving
    <2>3. Live(f)' => Live(f)
      BY <1>4 DEF ArchivePreviousCovers, ArchiveFails, OlderCovers, Covers, Live
    <2>4. QED BY <1>2, <2>1, <2>2, <2>3
  <1>5. ASSUME NEW c \in Calls, CommitAccountDeletion(c)
        PROVE  StoredMoves(f)
    <2>1. Live(f)' => Live(f)
      BY <1>5 DEF CommitAccountDeletion, Live, NoRow
    <2>2. c \in Tasks /\ Return(c) /\ UNCHANGED <<stamp, objects, acked>>
      BY <1>5 DEF CommitAccountDeletion, Tasks
    <2>3. QED BY <1>2, <2>1, <2>2 DEF Answered
  <1>6. ASSUME NEW c \in Calls, Request(c)
        PROVE  StoredMoves(f)
    <2>1. c \in Tasks
      BY DEF Tasks
    <2>2. CASE \/ \E g \in Files : BeginDelete(c, g)
               \/ \E i \in Items, g \in Files : CheckReceipt(c, i, g)
               \/ \E u \in Users : BeginDeleteAccount(c, u)
      <3>1. UNCHANGED <<stamp, file, acked, objects>>
        BY <2>2 DEF BeginDelete, CheckReceipt, BeginDeleteAccount
      <3>2. PICK state : Goto(c, state) /\ state.pc \in {"delete", "attach", "account"}
        <4>1. ASSUME NEW g \in Files, BeginDelete(c, g)
              PROVE  \E state : Goto(c, state) /\ state.pc \in {"delete", "attach", "account"}
          <5>1. Goto(c, [pc |-> "delete", file |-> g])
            BY <4>1 DEF BeginDelete
          <5>2. QED BY <5>1
        <4>2. ASSUME NEW i \in Items, NEW g \in Files, CheckReceipt(c, i, g)
              PROVE  \E state : Goto(c, state) /\ state.pc \in {"delete", "attach", "account"}
          <5>1. Goto(c, [pc |-> "attach", item |-> i, file |-> g])
            BY <4>2 DEF CheckReceipt
          <5>2. QED BY <5>1
        <4>3. ASSUME NEW u \in Users, BeginDeleteAccount(c, u)
              PROVE  \E state : Goto(c, state) /\ state.pc \in {"delete", "attach", "account"}
          <5>1. Goto(c, [pc |-> "account", user |-> u])
            BY <4>3 DEF BeginDeleteAccount
          <5>2. QED BY <5>1
        <4>4. QED BY <2>2, <4>1, <4>2, <4>3
      <3>3. QED BY <1>1, <2>1, <3>1, <3>2
    <2>3. CASE RecordAccountDeletion(c)
      <3> DEFINE state == [task[c] EXCEPT !.pc = "commit"]
      <3>1. state.pc = "commit"
        BY <1>0, <2>1, <2>3, TaskShape DEF RecordAccountDeletion
      <3>2. Goto(c, state) /\ UNCHANGED <<stamp, file, acked, objects>>
        BY <2>3 DEF RecordAccountDeletion, GotoPc, Goto
      <3> HIDE DEF state
      <3>3. QED BY <1>1, <2>1, <3>1, <3>2
    <2>4. CASE AttachReceipt(c) \/ Unqueue(c) \/ QueueStorageDeletion(c)
      BY <1>2, <2>1, <2>4 DEF AttachReceipt, Unqueue, QueueStorageDeletion, Live, Answered
    <2>5. QED
      BY <1>3, <1>4, <1>5, <1>6, <2>2, <2>3, <2>4, UploadsSpareStored DEF Request
  <1>7. ASSUME NEW w \in Workers, DeletionWorker(w)
        PROVE  StoredMoves(f)
    <2>1. w \in Tasks
      BY DEF Tasks
    <2>2. ASSUME NEW g \in Files, ClaimDeletion(w, g)
          PROVE  StoredMoves(f)
      <3> DEFINE state == [pc |-> "journal", file |-> g, id |-> outbox[g].id]
      <3>1. Goto(w, state) /\ state.pc = "journal"
            /\ UNCHANGED <<stamp, file, acked, objects>>
        BY <2>2 DEF ClaimDeletion
      <3> HIDE DEF state
      <3>2. QED BY <1>1, <2>1, <3>1
    <2>3. CASE MarkDeletionComplete(w) \/ RescheduleDeletion(w) \/ ReleaseDeletionClaim(w)
      BY <1>2, <2>1, <2>3
         DEF MarkDeletionComplete, RescheduleDeletion, ReleaseDeletionClaim, Live, Answered
    <2>4. QED BY <1>7, <2>2, <2>3 DEF DeletionWorker
  <1>8. ASSUME NEW t \in Tasks, Abort(t)
        PROVE  StoredMoves(f)
    BY <1>2, <1>8 DEF Abort, Live, Answered
  <1>9. CASE \/ \E g \in Files : LeaseLapses(g) \/ RetryDue(g)
             \/ \E i \in Items : DeleteCostItem(i)
             \/ UNCHANGED vars
    <2>1. UNCHANGED <<stamp, file, acked, objects, task>>
      BY <1>9 DEF LeaseLapses, RetryDue, DeleteCostItem, vars
    <2>2. QED BY <2>1, StoredRests DEF Live, Answered
  <1>10. QED BY <1>6, <1>7, <1>8, <1>9, RemovalsSpareStored DEF Next

\* A file without an object yet has none of the rest either.
LEMMA CondemnedSettled ==
  ASSUME FileInv, NEW f \in Files
  PROVE  /\ Condemned(f) => Stored(f) /\ ~(Live(f) /\ Answered(f))
         /\ HasRow(f) => Stored(f)
         /\ Live(f) /\ Answered(f) => f \in objects
  BY DEF FileInv, FreshUnknown, InsertsNew, LiveKept, Stored, Answered

LEMMA TombsSettled ==
  ASSUME FileInv, TombInv, [Next]_vars,
         tombs' \subseteq Files, \A f \in tombs' \ tombs : Condemned(f)
  PROVE  \A f \in tombs' : Stored(f)' /\ ~(Live(f)' /\ Answered(f)')
  <1>1. ASSUME NEW f \in tombs'
        PROVE  Stored(f)' /\ ~(Live(f)' /\ Answered(f)')
    <2>1. f \in Files /\ Stored(f) /\ ~(Live(f) /\ Answered(f))
      BY <1>1, CondemnedSettled DEF TombInv
    <2>2. QED BY <2>1, StoredKept DEF StoredMoves
  <1>2. QED BY <1>1

\* A file that was stored once has been for good.
LEMMA StampsStay ==
  ASSUME FileInv, NEW f \in Files, stamp[f] # 0, [Next]_vars
  PROVE  stamp'[f] # 0
  <1> USE DEF database, bucket, history
  <1>1. ASSUME NEW c \in Calls, PutObject(c) \/ PutFails(c)
        PROVE  stamp'[f] # 0
    <2>1. TypeOK /\ task[c].file \in Files
      BY <1>1, TaskShape DEF FileInv, PutObject, PutFails, Tasks
    <2>2. QED BY <1>1, <2>1, StampsSet DEF PutObject, PutFails
  <1>2. CASE UNCHANGED stamp
    BY <1>2
  <1>3. QED
    BY <1>1, <1>2
       DEF Next, Request, DeletionWorker, BeginUpload, InsertFile, InsertFails,
           ArchivePreviousCovers, ArchiveFails, BeginDelete, DeleteFile, CheckReceipt,
           AttachReceipt, BeginDeleteAccount, RecordAccountDeletion, CommitAccountDeletion,
           Unqueue, QueueStorageDeletion, ClaimDeletion, MarkDeletionComplete,
           RescheduleDeletion, ReleaseDeletionClaim, RecordObjectDeletion, EraseObject,
           RemovalFails, Abort, LeaseLapses, RetryDue, DeleteCostItem, vars

LEMMA TombsKept ==
  ASSUME FileInv, TombInv, [Next]_vars
  PROVE  TombInv' /\ tombs \subseteq tombs'
  <1> USE DEF database, bucket, history
  <1>0. TypeOK /\ TypeOK'
    BY TypesKept DEF FileInv
  <1> DEFINE Erasing == {"erase", "erased"}
             Recorded == \A t \in Tasks : task'[t].pc \in Erasing => task'[t].file \in tombs'
  <1>1. ASSUME UNCHANGED tombs,
               \A t \in Tasks : task'[t] = task[t] \/ task'[t].pc \notin Erasing
        PROVE  TombInv' /\ tombs \subseteq tombs'
    <2>1. \A f \in tombs' : Stored(f)' /\ ~(Live(f)' /\ Answered(f)')
      BY <1>0, <1>1, TombsSettled DEF TypeOK
    <2>2. Recorded
      BY <1>1 DEF TombInv
    <2>3. QED BY <1>1, <2>1, <2>2 DEF TombInv
  <1>2. ASSUME NEW t \in Tasks, NEW state, Goto(t, state), state.pc \notin Erasing,
               UNCHANGED tombs
        PROVE  TombInv' /\ tombs \subseteq tombs'
    BY <1>0, <1>1, <1>2, TaskMoves
  <1>3. ASSUME NEW t \in Tasks, Return(t), UNCHANGED tombs
        PROVE  TombInv' /\ tombs \subseteq tombs'
    BY <1>0, <1>1, <1>3, TaskReturns DEF Idle
  <1>4. ASSUME NEW t \in Tasks, RecordObjectDeletion(t) \/ EraseObject(t) \/ RemovalFails(t)
        PROVE  TombInv' /\ tombs \subseteq tombs'
    <2>1. PICK f \in Files : f = task[t].file
      BY <1>0, <1>4, TaskShape DEF RecordObjectDeletion, EraseObject, RemovalFails
    <2>2. /\ Removing(t, f)
          /\ tombs' \in {tombs, tombs \cup {f}}
      BY <1>4, <2>1
         DEF RecordObjectDeletion, EraseObject, RemovalFails, Removing, RemovalSteps
    <2>3. \A g \in tombs' \ tombs : Condemned(g)
      BY <2>2 DEF Condemned
    <2>4. PICK pc \in {"erase", "erased", "failed"} :
            GotoPc(t, pc) /\ (pc # "failed" => f \in tombs')
      BY <1>4, <2>1
         DEF RecordObjectDeletion, EraseObject, RemovalFails, TombInv
    <2>5. /\ task'[t].pc = pc /\ task'[t].file = f
          /\ \A d \in Tasks : d # t => task'[d] = task[d]
      BY <1>0, <2>1, <2>2, <2>4, RemovalMoves DEF Removing, RemovalSteps
    <2>6. Recorded
      <3>1. ASSUME NEW d \in Tasks, task'[d].pc \in Erasing
            PROVE  task'[d].file \in tombs'
        <4>1. CASE d = t
          BY <2>4, <2>5, <3>1, <4>1
        <4>2. CASE d # t
          BY <2>2, <2>5, <3>1, <4>2 DEF TombInv
        <4>3. QED BY <4>1, <4>2
      <3>2. QED BY <3>1
    <2>7. \A g \in tombs' : Stored(g)' /\ ~(Live(g)' /\ Answered(g)')
      BY <1>0, <2>3, TombsSettled DEF TypeOK
    <2>8. QED BY <2>2, <2>6, <2>7 DEF TombInv
  <1>5. ASSUME NEW c \in Calls, Request(c)
        PROVE  TombInv' /\ tombs \subseteq tombs'
    <2>1. c \in Tasks
      BY DEF Tasks
    <2>2. CASE \/ \E f \in Files, u \in Users, p \in Projects, cover \in BOOLEAN :
                    BeginUpload(c, f, u, p, cover)
               \/ \E f \in Files : BeginDelete(c, f)
               \/ \E i \in Items, f \in Files : CheckReceipt(c, i, f)
               \/ \E u \in Users : BeginDeleteAccount(c, u)
               \/ PutFails(c) \/ InsertFails(c)
      <3>1. UNCHANGED tombs
        BY <2>2 DEF BeginUpload, BeginDelete, CheckReceipt, BeginDeleteAccount, PutFails,
                    InsertFails
      <3>2. \A t \in Tasks : task'[t] = task[t] \/ task'[t].pc \notin Erasing
        BY <1>0, <2>1, <2>2
           DEF BeginUpload, BeginDelete, CheckReceipt, BeginDeleteAccount, PutFails,
               InsertFails, Goto, TypeOK
      <3>3. QED BY <1>1, <3>1, <3>2
    <2>3. CASE InsertFile(c) \/ DeleteFile(c)
      <3>1. UNCHANGED tombs
        BY <2>3 DEF InsertFile, DeleteFile
      <3>2. \A t \in Tasks : task'[t] = task[t] \/ task'[t].pc \notin Erasing
        BY <1>0, <2>1, <2>3 DEF InsertFile, DeleteFile, Goto, Return, Idle, TypeOK
      <3>3. QED BY <1>1, <3>1, <3>2
    <2>4. CASE PutObject(c) \/ RecordAccountDeletion(c)
      <3>1. PICK pc \in {"insert", "commit"} : GotoPc(c, pc)
        BY <2>4 DEF PutObject, RecordAccountDeletion
      <3> DEFINE state == [task[c] EXCEPT !.pc = pc]
      <3>2. state.pc = pc
        BY <1>0, <2>1, <2>4, TaskShape DEF PutObject, RecordAccountDeletion
      <3>3. Goto(c, state) /\ UNCHANGED tombs
        BY <2>4, <3>1 DEF GotoPc, Goto, PutObject, RecordAccountDeletion
      <3> HIDE DEF state
      <3>4. QED BY <1>2, <2>1, <3>2, <3>3
    <2>5. CASE ArchivePreviousCovers(c) \/ ArchiveFails(c) \/ AttachReceipt(c)
               \/ CommitAccountDeletion(c) \/ Unqueue(c) \/ QueueStorageDeletion(c)
      BY <1>3, <2>1, <2>5
         DEF ArchivePreviousCovers, ArchiveFails, AttachReceipt, CommitAccountDeletion,
             Unqueue, QueueStorageDeletion
    <2>6. QED BY <1>5, <2>2, <2>3, <2>4, <2>5 DEF Request
  <1>6. ASSUME NEW w \in Workers, DeletionWorker(w)
        PROVE  TombInv' /\ tombs \subseteq tombs'
    <2>1. w \in Tasks
      BY DEF Tasks
    <2>2. ASSUME NEW f \in Files, ClaimDeletion(w, f)
          PROVE  TombInv' /\ tombs \subseteq tombs'
      <3> DEFINE state == [pc |-> "journal", file |-> f, id |-> outbox[f].id]
      <3>1. Goto(w, state) /\ state.pc = "journal" /\ UNCHANGED tombs
        BY <2>2 DEF ClaimDeletion
      <3> HIDE DEF state
      <3>2. QED BY <1>2, <2>1, <3>1
    <2>3. CASE MarkDeletionComplete(w) \/ RescheduleDeletion(w) \/ ReleaseDeletionClaim(w)
      BY <1>3, <2>1, <2>3
         DEF MarkDeletionComplete, RescheduleDeletion, ReleaseDeletionClaim
    <2>4. QED BY <1>6, <2>2, <2>3 DEF DeletionWorker
  <1>7. ASSUME NEW t \in Tasks, Abort(t)
        PROVE  TombInv' /\ tombs \subseteq tombs'
    BY <1>3, <1>7 DEF Abort
  <1>8. CASE \/ \E f \in Files : LeaseLapses(f) \/ RetryDue(f)
             \/ \E i \in Items : DeleteCostItem(i)
             \/ UNCHANGED vars
    BY <1>1, <1>8 DEF LeaseLapses, RetryDue, DeleteCostItem, vars
  <1>9. QED BY <1>4, <1>5, <1>6, <1>7, <1>8 DEF Next

\* The backup goes on beside the requests and the workers.
LEMMA BackupKeptBeside ==
  ASSUME RestoreTypeOK, BackupInv, FileInv, TombInv, [Next]_vars, UNCHANGED backup
  PROVE  BackupInv'
  <1>0. FileInv' /\ TombInv' /\ tombs \subseteq tombs'
    BY FilesKept, TombsKept
  <1> SUFFICES ASSUME backup # NoBackup
               PROVE  BackupInv'
    BY DEF BackupInv
  <1>1. backup.stage = "done" => backup.pending = {}
    BY DEF BackupInv
  <1>2. ASSUME NEW f \in Files
        PROVE  /\ BackupRow(f) # "none" \/ BackupQueued(f) => Stored(f)'
               /\ Kept(f)' => stamp'[f] # 0
               /\ BackupRow(f) = "archived" /\ ~BackupQueued(f) => ~Kept(f)'
               /\ BackupRow(f) = "live" /\ Answered(f)' =>
                    ~BackupQueued(f) /\ (Kept(f)' \/ f \in tombs')
    <2>1. Stored(f) => StoredMoves(f)
      BY StoredKept
    <2>2. f \in objects' => stamp'[f] # 0
      BY <1>0 DEF FileInv, FreshUnknown
    <2>3. f \in backup.objects => stamp'[f] # 0
      <3>1. stamp[f] # 0 => stamp'[f] # 0
        BY StampsStay
      <3>2. QED BY <3>1 DEF BackupInv, Kept
    <2>4. Kept(f)' => stamp'[f] # 0
      BY <2>2, <2>3 DEF Kept
    <2>5. BackupRow(f) # "none" \/ BackupQueued(f) => Stored(f)
      BY DEF BackupInv
    <2>6. Stored(f) => (Kept(f)' => Kept(f)) /\ (Kept(f) => Kept(f)' \/ f \in tombs')
      BY <1>0, <2>1 DEF StoredMoves, Kept
    <2>7. Stored(f) => Stored(f)' /\ (Answered(f)' => Answered(f))
      BY <2>1 DEF StoredMoves
    <2>8. BackupRow(f) = "archived" /\ ~BackupQueued(f) => ~Kept(f)
      BY DEF BackupInv
    <2>9. BackupRow(f) = "live" /\ Answered(f) =>
            ~BackupQueued(f) /\ (Kept(f) \/ f \in tombs)
      BY DEF BackupInv
    <2>10. QED BY <1>0, <2>4, <2>5, <2>6, <2>7, <2>8, <2>9
  <1>3. QED BY <1>1, <1>2 DEF BackupInv, BackupRow, BackupQueued

\* The steps of backup.sh.
LEMMA BackupTaken ==
  ASSUME RestoreInv, Backup
  PROVE  BackupInv'
  <1>1. UNCHANGED vars /\ phase = "serving" /\ FileInv /\ RestoreTypeOK /\ BackupInv
    BY DEF Backup, DumpDatabase, CopyObject, UploadArchive, BackupFails, RestoreInv, Serving
  <1>2. \A f \in Files : /\ Stored(f)' <=> Stored(f)
                         /\ Answered(f)' <=> Answered(f)
                         /\ (f \in tombs' <=> f \in tombs)
                         /\ (f \in objects' <=> f \in objects)
                         /\ stamp'[f] = stamp[f]
    BY <1>1 DEF vars, Stored, Answered, Archiving, Inserting
  <1>3. CASE DumpDatabase
    <2>1. /\ backup'.stage = "copying" /\ backup'.file = file /\ backup'.outbox = outbox
          /\ backup'.pending = Files /\ backup'.objects = {}
      BY <1>3 DEF DumpDatabase
    <2>2. ASSUME NEW f \in Files
          PROVE  /\ HasRow(f) \/ Condemned(f) => Stored(f)
                 /\ f \in objects => stamp[f] # 0
                 /\ file[f].status = "archived" /\ outbox[f].status = "none" =>
                      f \notin objects
                 /\ Live(f) /\ Answered(f) => outbox[f].status = "none" /\ f \in objects
      <3>1. Live(f) /\ Answered(f) => ~Condemned(f) /\ f \in objects
        BY <1>1 DEF FileInv, LiveKept, Answered
      <3>2. QED
        BY <1>1, <3>1, CondemnedSettled
           DEF FileInv, FreshUnknown, ArchivedQueued, Condemned
    <2>3. ASSUME NEW f \in Files
          PROVE  /\ BackupRow(f)' = file[f].status
                 /\ BackupQueued(f)' <=> outbox[f].status # "none"
                 /\ Kept(f)' <=> f \in objects
      BY <1>2, <2>1 DEF BackupRow, BackupQueued, Kept
    <2>4. ASSUME NEW f \in Files
          PROVE  /\ BackupRow(f)' # "none" \/ BackupQueued(f)' => Stored(f)'
                 /\ Kept(f)' => stamp'[f] # 0
                 /\ BackupRow(f)' = "archived" /\ ~BackupQueued(f)' => ~Kept(f)'
                 /\ BackupRow(f)' = "live" /\ Answered(f)' =>
                      ~BackupQueued(f)' /\ (Kept(f)' \/ f \in tombs')
      <3>1. outbox[f].status # "none" => Condemned(f)
        BY DEF Condemned
      <3>2. QED BY <1>2, <2>2, <2>3, <3>1 DEF HasRow, Live
    <2>5. backup'.stage # "done"
      BY <2>1
    <2>6. QED BY <2>4, <2>5 DEF BackupInv
  <1>4. CASE (\E f \in Files : CopyObject(f)) \/ UploadArchive
    <2>1. backup # NoBackup /\ backup \in Archive
      <3>1. backup.stage = "copying"
        BY <1>4 DEF CopyObject, UploadArchive
      <3>2. backup # NoBackup
        BY <3>1 DEF NoBackup
      <3>3. QED BY <1>1, <3>2 DEF RestoreTypeOK
    <2>2. /\ backup'.file = backup.file /\ backup'.outbox = backup.outbox
          /\ backup'.stage = "done" => backup'.pending = {}
          /\ \A f \in Files : Kept(f)' <=> Kept(f)
      <3>1. ASSUME NEW g \in Files, CopyObject(g)
            PROVE  <2>2
        <4>1. /\ backup'.file = backup.file /\ backup'.outbox = backup.outbox
              /\ backup'.stage = "copying"
              /\ backup'.pending = backup.pending \ {g}
              /\ backup'.objects = backup.objects \cup ({g} \cap objects)
              /\ g \in backup.pending
          BY <2>1, <3>1 DEF CopyObject, Archive
        <4>2. QED BY <1>2, <4>1 DEF Kept
      <3>2. CASE UploadArchive
        <4>1. /\ backup'.file = backup.file /\ backup'.outbox = backup.outbox
              /\ backup'.pending = backup.pending /\ backup'.objects = backup.objects
              /\ backup.pending = {}
          BY <2>1, <3>2 DEF UploadArchive, Archive
        <4>2. QED BY <1>2, <4>1 DEF Kept
      <3>3. QED BY <1>4, <3>1, <3>2
    <2>3. \A f \in Files : /\ BackupRow(f)' = BackupRow(f)
                           /\ BackupQueued(f)' <=> BackupQueued(f)
      BY <2>2 DEF BackupRow, BackupQueued
    <2>4. QED BY <1>1, <1>2, <2>1, <2>2, <2>3 DEF BackupInv
  <1>5. CASE BackupFails
    BY <1>5 DEF BackupFails, BackupInv
  <1>6. QED BY <1>3, <1>4, <1>5 DEF Backup

\* The archive stays what it is while the system is stopped: no task runs, and
\* the journal only grows.
LEMMA ArchiveRests ==
  ASSUME RestoreTypeOK, BackupInv, phase # "serving", Resting,
         \A t \in Tasks : task'[t] = Idle,
         tombs \subseteq tombs', UNCHANGED <<backup, stamp, acked>>
  PROVE  BackupInv'
  <1>1. backup \in Archive /\ backup.pending = {} /\ backup # NoBackup
    BY DEF RestoreTypeOK, NoBackup, BackupInv
  <1>2. \A f \in Files : /\ Stored(f)' <=> Stored(f)
                         /\ Answered(f)' <=> Answered(f)
                         /\ Kept(f)' <=> Kept(f)
                         /\ BackupRow(f)' = BackupRow(f)
                         /\ BackupQueued(f)' <=> BackupQueued(f)
    BY <1>1 DEF Stored, Answered, Archiving, Inserting, Kept, BackupRow, BackupQueued,
                Resting, Idle
  <1>3. QED BY <1>1, <1>2 DEF BackupInv

\* What the restore command starts from, and returns to when it fails.
LEMMA SystemStops ==
  ASSUME RestoreInv, RestoreTypeOK', Disaster \/ RestoreFails
  PROVE  RestoreInv'
  <1> USE DEF database, bucket, history
  <1>1. CASE Disaster
    <2>1. FileInv /\ TombInv /\ phase = "serving" /\ backup.stage = "done"
      BY <1>1 DEF Disaster, RestoreInv, Serving
    <2>2. (\A t \in Tasks : task'[t] = Idle) /\ phase' = "stopped"
          /\ UNCHANGED <<objects, tombs, stamp, acked, removed, backup>>
      BY <1>1 DEF Disaster
    <2>3. Resting'
      BY <2>1, <2>2 DEF Resting, FileInv, FreshUnknown, TombInv, Stored
    <2>4. BackupInv'
      <3>1. \A f \in Files : /\ Stored(f) => Stored(f)'
                             /\ Answered(f)' => Answered(f)
                             /\ Kept(f)' <=> Kept(f)
                             /\ BackupRow(f)' = BackupRow(f)
                             /\ BackupQueued(f)' <=> BackupQueued(f)
        BY <2>2 DEF Stored, Answered, Archiving, Inserting, Kept, BackupRow, BackupQueued,
                    Idle
      <3>2. QED BY <2>2, <3>1 DEF RestoreInv, BackupInv
    <2>5. QED BY <2>2, <2>3, <2>4 DEF RestoreInv, Serving
  <1>2. CASE RestoreFails
    <2>1. phase # "serving" /\ ~Serving /\ phase' = "stopped" /\ UNCHANGED <<vars, backup>>
      BY <1>2 DEF RestoreFails, Serving
    <2>2. Resting /\ RestoreTypeOK /\ BackupInv
      BY <2>1 DEF RestoreInv
    <2>3. Resting'
      BY <2>1, <2>2 DEF vars, Resting
    <2>4. BackupInv'
      BY <2>1, <2>2, <2>3, ArchiveRests DEF vars, Resting
    <2>5. QED BY <2>1, <2>3, <2>4 DEF RestoreInv, Serving
  <1>3. QED BY <1>1, <1>2

\* The dump and the copy of the bucket are put back.
LEMMA DumpRestored ==
  ASSUME RestoreInv, RestoreTypeOK', RestoreDatabase \/ RestoreObjects
  PROVE  RestoreInv'
  <1> USE DEF database, bucket, history
  <1>1. /\ phase \in {"stopped", "database"} /\ phase' \in {"database", "objects"}
        /\ UNCHANGED <<stamp, tombs, task, acked, removed, backup>>
    BY DEF RestoreDatabase, RestoreObjects
  <1>2. Resting /\ RestoreTypeOK /\ BackupInv
    BY <1>1 DEF RestoreInv, Serving
  <1>3. Resting'
    BY <1>1, <1>2 DEF Resting
  <1>4. BackupInv'
    BY <1>1, <1>2, <1>3, ArchiveRests DEF Resting
  <1>5. RowsFromDump'
    <2>1. CASE RestoreDatabase
      <3>1. file' = backup.file /\ outbox' = backup.outbox /\ backup' = backup
        BY <2>1 DEF RestoreDatabase
      <3>2. \A f \in Files : outbox'[f].status # "none" => stamp'[f] # 0
        BY <1>1, <1>2, <3>1 DEF BackupInv, RestoreTypeOK, NoBackup, BackupQueued, Stored
      <3>3. QED BY <3>1, <3>2 DEF RowsFromDump, Queued
    <2>2. CASE RestoreObjects
      <3>1. phase = "database" /\ UNCHANGED <<file, outbox, stamp, backup>>
        BY <2>2 DEF RestoreObjects
      <3>2. RowsFromDump
        BY <3>1 DEF RestoreInv
      <3>3. QED BY <3>1, <3>2 DEF RowsFromDump, HasRow, Queued
    <2>3. QED BY <2>1, <2>2
  <1>6. phase' = "objects" => objects' = backup'.objects
    BY DEF RestoreDatabase, RestoreObjects
  <1>7. QED BY <1>1, <1>3, <1>4, <1>5, <1>6 DEF RestoreInv, Serving

\* apply.sql deletes the rows of the journal, and the trigger queues them.
LEMMA JournalReplayed ==
  ASSUME RestoreInv, RestoreTypeOK', ReplayTombstones
  PROVE  RestoreInv'
  <1> USE DEF database, bucket, history
  <1>1. /\ phase = "objects" /\ phase' = "replayed"
        /\ UNCHANGED <<stamp, objects, tombs, task, acked, removed, backup>>
    BY DEF ReplayTombstones
  <1>2. /\ Resting /\ RestoreTypeOK /\ BackupInv /\ RowsFromDump
        /\ objects = backup.objects
    BY <1>1 DEF RestoreInv, Serving
  <1>3. PICK rows \in SUBSET Files :
          /\ TombstoneRows \subseteq rows /\ \A f \in rows : HasRow(f)
          /\ file' = [f \in Files |-> IF f \in rows THEN NoRow ELSE file[f]]
          /\ outbox' = Enqueued(rows)
    <2> DEFINE rows == AccountRows \cup TombstoneRows
    <2>1. rows \subseteq Files /\ TombstoneRows \subseteq rows
      BY <1>2, RowsReplayed DEF RestoreTypeOK
    <2>2. \A f \in rows : HasRow(f)
      BY DEF AccountRows, TombstoneRows, FilesOf
    <2>3. /\ file' = [f \in Files |-> IF f \in rows THEN NoRow ELSE file[f]]
          /\ outbox' = Enqueued(rows)
      BY DEF ReplayTombstones, Replay, AccountRows, TombstoneRows
    <2> HIDE DEF rows
    <2>4. QED BY <2>1, <2>2, <2>3
  <1>4. Resting' /\ BackupInv'
    BY <1>1, <1>2, ArchiveRests DEF Resting
  <1>5. \A f \in Files : HasRow(f) => stamp[f] # 0
    <2>1. backup # NoBackup
      BY <1>1, <1>2 DEF RestoreTypeOK, NoBackup
    <2>2. QED BY <1>2, <2>1 DEF RowsFromDump, HasRow, BackupInv, BackupRow, Stored
  <1>6. \A f \in Files : /\ f \notin rows => file'[f] = file[f] /\ outbox'[f] = outbox[f]
                         /\ f \in rows => ~HasRow(f)' /\ stamp[f] # 0
    BY <1>2, <1>3, <1>5, EntriesQueued DEF RestoreTypeOK, HasRow, NoRow
  <1>7. RowsFromDump'
    BY <1>1, <1>2, <1>6 DEF RowsFromDump, HasRow, Queued
  <1>8. \A f \in tombs' : ~HasRow(f)'
    <2>1. \A f \in tombs : f \in Files /\ (HasRow(f) => f \in rows)
      BY <1>2, <1>3 DEF TombstoneRows, RestoreTypeOK, TypeOK
    <2>2. QED BY <1>1, <1>6, <2>1 DEF HasRow
  <1>9. QED BY <1>1, <1>2, <1>4, <1>7, <1>8 DEF RestoreInv, Serving

\* What the outbox names goes into the journal, and then out of the bucket.
LEMMA OutboxJournaled ==
  ASSUME RestoreInv, RestoreTypeOK', JournalOutbox \/ EraseTombstoned
  PROVE  RestoreInv'
  <1> USE DEF database, bucket, history
  <1>1. /\ phase \in {"replayed", "journaled"} /\ phase' \in {"journaled", "erased"}
        /\ UNCHANGED <<file, outbox, stamp, task, acked, removed, backup>>
        /\ tombs' \in {tombs, tombs \cup Queued}
    BY DEF JournalOutbox, EraseTombstoned
  <1>2. /\ Resting /\ RestoreTypeOK /\ BackupInv /\ RowsFromDump
        /\ objects = backup.objects
    BY <1>1 DEF RestoreInv, Serving
  <1>3. Resting'
    BY <1>1, <1>2 DEF Resting, RowsFromDump, Queued
  <1>4. BackupInv'
    BY <1>1, <1>2, <1>3, ArchiveRests DEF Resting
  <1>5. RowsFromDump'
    BY <1>1, <1>2 DEF RowsFromDump, HasRow, Queued
  <1>6. Queued' \subseteq tombs' /\ \A f \in tombs' : HasRow(f)' => f \in Queued'
    <2>1. CASE JournalOutbox
      BY <1>1, <2>1 DEF JournalOutbox, RestoreInv, Queued, HasRow
    <2>2. CASE EraseTombstoned
      BY <1>1, <2>2 DEF EraseTombstoned, RestoreInv, Queued, HasRow
    <2>3. QED BY <2>1, <2>2
  <1>7. /\ phase' = "journaled" => objects' = backup'.objects
        /\ phase' = "erased" => objects' = backup'.objects \ tombs'
    BY <1>1, <1>2 DEF JournalOutbox, EraseTombstoned
  <1>8. QED BY <1>1, <1>3, <1>4, <1>5, <1>6, <1>7 DEF RestoreInv, Serving

\* Traffic resumes: rows, objects and the journal are as the system left them.
LEMMA OutboxCompleted ==
  ASSUME RestoreInv, RestoreTypeOK', CompleteOutbox
  PROVE  RestoreInv'
  <1> USE DEF database, bucket, history
  <1>1. /\ phase = "erased" /\ phase' = "restored"
        /\ UNCHANGED <<file, stamp, objects, tombs, task, acked, removed, backup>>
    BY DEF CompleteOutbox
  <1>2. /\ Resting /\ RestoreTypeOK /\ BackupInv /\ RowsFromDump
        /\ objects = backup.objects \ tombs
        /\ Queued \subseteq tombs /\ \A f \in tombs : HasRow(f) => f \in Queued
    BY <1>1 DEF RestoreInv, Serving
  <1>3. \A f \in Files : outbox'[f].status = "none"
    BY <1>2 DEF CompleteOutbox, RestoreTypeOK, TypeOK, Entry
  <1>4. Resting' /\ BackupInv'
    BY <1>1, <1>2, ArchiveRests DEF Resting
  <1>5. \A t \in Tasks : task'[t].pc = "idle"
    BY <1>1, <1>2 DEF Resting, Idle
  <1>6. \A f \in Files : /\ HasRow(f)' <=> HasRow(f)
                         /\ Live(f)' <=> Live(f)
                         /\ ~Condemned(f)' /\ ~Archiving(f)'
                         /\ \A t \in Tasks : ~Inserting(t, f)'
    BY <1>1, <1>3, <1>5
       DEF HasRow, Live, Condemned, Removing, RemovalSteps, Archiving, Inserting
  <1>7. ASSUME NEW f \in Files
        PROVE  /\ HasRow(f) \/ f \in objects => stamp[f] # 0
               /\ Live(f) /\ f \in acked => f \in objects /\ f \notin tombs
               /\ file[f].status = "archived" => f \notin objects
    <2>1. backup # NoBackup /\ backup.pending = {}
      BY <1>1, <1>2 DEF RestoreTypeOK, NoBackup, BackupInv
    <2>2. Kept(f) <=> f \in backup.objects
      BY <2>1 DEF Kept
    <2>3. HasRow(f) => /\ BackupRow(f) = file[f].status
                       /\ BackupQueued(f) <=> f \in Queued
      BY <1>2 DEF RowsFromDump, BackupRow, BackupQueued, Queued
    <2>4. /\ BackupRow(f) # "none" => stamp[f] # 0
          /\ f \in backup.objects => stamp[f] # 0
          /\ BackupRow(f) = "archived" /\ ~BackupQueued(f) => f \notin backup.objects
          /\ BackupRow(f) = "live" /\ f \in acked =>
               ~BackupQueued(f) /\ (f \in backup.objects \/ f \in tombs)
      BY <1>2, <2>1, <2>2 DEF BackupInv, Stored, Answered
    <2>5. HasRow(f) => (f \in tombs <=> f \in Queued)
      BY <1>2
    <2>6. Live(f) \/ file[f].status = "archived" => HasRow(f)
      BY DEF Live, HasRow
    <2>7. QED BY <1>2, <2>3, <2>4, <2>5, <2>6 DEF HasRow, Live
  <1>8. FreshUnknown'
    <2>1. \A f \in Files : stamp[f] = 0 => f \notin acked /\ f \notin removed
      BY <1>2 DEF Resting
    <2>2. QED BY <1>1, <1>5, <1>6, <1>7, <2>1 DEF FreshUnknown
  <1>9. PutsFresh' /\ InsertsNew' /\ ErasedGone'
    BY <1>5, <1>6 DEF PutsFresh, InsertsNew, ErasedGone
  <1>10. LiveKept'
    BY <1>1, <1>6, <1>7 DEF LiveKept
  <1>11. ArchivedQueued'
    BY <1>1, <1>2, <1>7 DEF ArchivedQueued, RestoreTypeOK, TypeOK
  <1>12. TombInv'
    <2>1. ASSUME NEW f \in tombs
          PROVE  f \in Files /\ stamp[f] # 0 /\ ~(Live(f) /\ f \in acked)
      BY <1>2, <1>7 DEF Resting, RestoreTypeOK, TypeOK
    <2>2. \A f \in tombs' : Stored(f)' /\ ~(Live(f)' /\ Answered(f)')
      BY <1>1, <1>6, <2>1 DEF Stored, Answered
    <2>3. QED BY <1>5, <2>2 DEF TombInv
  <1>13. FileInv'
    BY <1>8, <1>9, <1>10, <1>11 DEF FileInv, RestoreTypeOK
  <1>14. QED BY <1>1, <1>4, <1>12, <1>13 DEF RestoreInv, Serving

LEMMA RestoreInvFirst == RestoreInit => RestoreInv
  <1>1. SUFFICES ASSUME RestoreInit PROVE RestoreInv
    OBVIOUS
  <1>2. Init /\ backup = NoBackup /\ phase = "serving"
    BY <1>1 DEF RestoreInit
  <1>3. FileInv /\ RestoreTypeOK
    BY <1>2, FilesFirst, TypesFirst DEF RestoreTypeOK
  <1>4. TombInv
    BY <1>2 DEF Init, Idle, TombInv
  <1>5. QED BY <1>2, <1>3, <1>4 DEF RestoreInv, BackupInv, Serving

LEMMA RestoreInvNext ==
  ASSUME RestoreInv, [RestoreNext]_restoreVars
  PROVE  RestoreInv'
  <1>0. RestoreTypeOK /\ RestoreTypeOK'
    BY RestoreTypesKept DEF RestoreInv
  <1>1. CASE Serving /\ Next /\ UNCHANGED <<backup, phase>>
    <2>1. FileInv /\ TombInv /\ BackupInv
      BY <1>1 DEF RestoreInv
    <2>2. FileInv' /\ TombInv' /\ BackupInv'
      BY <1>0, <1>1, <2>1, FilesKept, TombsKept, BackupKeptBeside
    <2>3. QED BY <1>0, <1>1, <2>2 DEF RestoreInv, Serving
  <1>2. CASE Backup
    <2>1. UNCHANGED <<vars, phase>> /\ phase = "serving"
      BY <1>2 DEF Backup, DumpDatabase, CopyObject, UploadArchive, BackupFails
    <2>2. FileInv /\ TombInv
      BY <2>1 DEF RestoreInv, Serving
    <2>3. UNCHANGED vars
      BY <2>1
    <2>4. FileInv' /\ TombInv'
      <3>1. [Next]_vars
        BY <2>3
      <3>2. QED BY <2>2, <3>1, FilesKept, TombsKept
    <2>5. BackupInv'
      BY <1>2, BackupTaken
    <2>6. QED BY <1>0, <2>1, <2>4, <2>5 DEF RestoreInv, Serving
  <1>3. CASE Restore
    BY <1>0, <1>3, SystemStops, DumpRestored, JournalReplayed, OutboxJournaled,
       OutboxCompleted DEF Restore
  <1>4. CASE UNCHANGED restoreVars
    <2>1. UNCHANGED vars /\ UNCHANGED <<backup, phase>>
      BY <1>4 DEF restoreVars
    <2>2. CASE Serving
      <3>1. FileInv /\ TombInv /\ BackupInv /\ [Next]_vars
        BY <2>1, <2>2 DEF RestoreInv
      <3>2. FileInv' /\ TombInv' /\ BackupInv'
        BY <1>0, <2>1, <3>1, FilesKept, TombsKept, BackupKeptBeside
      <3>3. QED BY <1>0, <2>1, <2>2, <3>2 DEF RestoreInv, Serving
    <2>3. CASE ~Serving
      <3>1. Resting /\ BackupInv /\ phase # "serving"
        BY <2>3 DEF RestoreInv, Serving
      <3>2. Resting' /\ BackupInv'
        BY <1>0, <2>1, <3>1, ArchiveRests DEF vars, Resting
      <3>3. RowsFromDump => RowsFromDump'
        BY <2>1 DEF vars, RowsFromDump, HasRow, Queued
      <3>4. QED
        BY <1>0, <2>1, <2>3, <3>2, <3>3 DEF vars, RestoreInv, Serving, HasRow, Queued
    <2>4. QED BY <2>2, <2>3
  <1>5. QED BY <1>1, <1>2, <1>3, <1>4 DEF RestoreNext

\* After a restore, and at any other time, the object of a live file whose
\* upload was answered is there, and that of an archived file is queued, however
\* the dump, the copy of the bucket and the requests overlapped (backup.sh,
\* restore.sh).
THEOREM RestoreLeavesBucketAgreed == RestoreSpec => []RestoredBucketAgrees
  <1>1. RestoreInv => RestoredBucketAgrees
    BY DEF RestoreInv, RestoredBucketAgrees, AcknowledgedUploadsKept, FileInv, TypeOK,
           LiveKept, ArchivedQueued, Queued
  <1>2. QED BY <1>1, RestoreInvFirst, RestoreInvNext, PTL DEF RestoreSpec

\* What the journal says was deleted is not live again after a restore
\* (apply-deletion-tombstones.py), unless its upload never succeeded.
THEOREM RestoreKeepsFilesDeleted == RestoreSpec => []JournaledFilesStayDeleted
  <1>1. RestoreInv => JournaledFilesStayDeleted
    BY DEF RestoreInv, JournaledFilesStayDeleted, TombInv, Answered
  <1>2. QED BY <1>1, RestoreInvFirst, RestoreInvNext, PTL DEF RestoreSpec

-----------------------------------------------------------------------------
(* The life of an object: the storage implements ObjectLife.               *)

\* Without a restore a deletion is final: what was deleted is not inserted again.
RemovedGone == \A f \in removed : Stored(f) /\ ~Live(f)

LifeInv == FileInv /\ TombInv /\ RemovedGone

Uploaded == objects \ (ServedFiles \cup RetiredFiles)
Gone == {f \in Files : stamp[f] # 0} \ objects

LEMMA RemovedGoneKept ==
  ASSUME LifeInv, [Next]_vars
  PROVE  RemovedGone'
  <1> USE DEF database, bucket, history
  <1>0. FileInv /\ TombInv /\ TypeOK /\ removed \subseteq Files
    BY DEF LifeInv, FileInv, TypeOK
  <1>1. \A f \in removed : Stored(f)' /\ ~Live(f)'
    BY <1>0, StoredKept DEF LifeInv, RemovedGone, StoredMoves
  <1>2. ASSUME NEW c \in Calls, DeleteFile(c), Live(task[c].file)
        PROVE  RemovedGone'
    <2>1. PICK f \in Files : f = task[c].file
      BY <1>0, <1>2, TaskShape DEF DeleteFile, Tasks
    <2>2. file' = [file EXCEPT ![f].status = "archived"] /\ removed' = removed \cup {f}
      BY <1>2, <2>1 DEF DeleteFile
    <2>3. file[f] \in FileRow /\ HasRow(f)
      BY <1>0, <1>2, <2>1, RowsOfFiles
    <2>4. ~Live(f)'
      BY <1>0, <2>2, <2>3 DEF TypeOK, FileRow, Live
    <2>5. Stored(f)'
      BY <1>0, <2>3, CondemnedSettled, StoredKept DEF StoredMoves
    <2>6. QED BY <1>1, <2>2, <2>4, <2>5 DEF RemovedGone
  <1>3. ASSUME NEW c \in Calls, CommitAccountDeletion(c)
        PROVE  RemovedGone'
    <2>1. PICK fs \in SUBSET Files : fs = FilesOf(task[c].user)
      BY DEF FilesOf
    <2>2. removed' = removed \cup fs
          /\ file' = [f \in Files |-> IF f \in fs THEN NoRow ELSE file[f]]
      BY <1>3, <2>1 DEF CommitAccountDeletion
    <2>3. \A f \in fs : HasRow(f)
      BY <2>1 DEF FilesOf
    <2>4. \A f \in fs : ~Live(f)'
      BY <2>2 DEF Live, NoRow
    <2>5. \A f \in fs : Stored(f)'
      BY <1>0, <2>3, CondemnedSettled, StoredKept DEF StoredMoves
    <2>6. QED BY <1>1, <2>2, <2>4, <2>5 DEF RemovedGone
  <1>4. CASE UNCHANGED removed
    BY <1>1, <1>4 DEF RemovedGone
  <1>5. QED
    BY <1>2, <1>3, <1>4
       DEF Next, Request, DeletionWorker, BeginUpload, PutObject, PutFails, InsertFile,
           InsertFails, ArchivePreviousCovers, ArchiveFails, BeginDelete, DeleteFile,
           CheckReceipt, AttachReceipt, BeginDeleteAccount, RecordAccountDeletion,
           Unqueue, QueueStorageDeletion, ClaimDeletion, MarkDeletionComplete,
           RescheduleDeletion, ReleaseDeletionClaim, RecordObjectDeletion, EraseObject,
           RemovalFails, Abort, LeaseLapses, RetryDue, DeleteCostItem, vars

LEMMA LifeInvKept ==
  ASSUME LifeInv, [Next]_vars
  PROVE  LifeInv'
  BY FilesKept, TombsKept, RemovedGoneKept DEF LifeInv

LEMMA LifeInvFirst ==
  ASSUME Init
  PROVE  LifeInv
  BY FilesFirst DEF Init, Idle, LifeInv, TombInv, RemovedGone

\* A file that was deleted is not live again, whatever uploads, deletions and
\* account deletions overlap (deleteFileMetadata, DeleteAccount); a restore is
\* the only way back for it.
RemovedStayRemoved == \A f \in removed : ~Live(f)

THEOREM DeletionsAreFinal == Spec => []RemovedStayRemoved
  <1>1. LifeInv => RemovedStayRemoved
    BY DEF LifeInv, RemovedGone, RemovedStayRemoved
  <1>2. QED BY <1>1, LifeInvFirst, LifeInvKept, PTL DEF Spec

\* The steps of ObjectLife.
LEMMA LifeRests ==
  ASSUME UNCHANGED <<objects, stamp, ServedFiles, RetiredFiles>>
  PROVE  UNCHANGED ObjectsLife!vars
  BY DEF ObjectsLife!vars

LEMMA LifePuts ==
  ASSUME NEW f \in Files, f \notin Uploaded \cup ServedFiles \cup RetiredFiles \cup Gone,
         \/ Uploaded' = Uploaded \cup {f} /\ Gone' = Gone
         \/ Gone' = Gone \cup {f} /\ Uploaded' = Uploaded,
         UNCHANGED <<ServedFiles, RetiredFiles>>
  PROVE  ObjectsLife!Next
  <1>1. ObjectsLife!Put(f)
    BY DEF ObjectsLife!Put, Uploaded, Gone
  <1>2. QED BY <1>1 DEF ObjectsLife!Next

LEMMA LifeServes ==
  ASSUME NEW f \in Files, NEW old \in SUBSET (Uploaded \cup ServedFiles),
         f \in Uploaded, f \notin old,
         Uploaded' = Uploaded \ ({f} \cup old), ServedFiles' = (ServedFiles \ old) \cup {f},
         RetiredFiles' = RetiredFiles \cup old, Gone' = Gone
  PROVE  ObjectsLife!Next
  <1>1. ObjectsLife!Serve(f, old)
    BY DEF ObjectsLife!Serve, Uploaded, Gone
  <1>2. QED BY <1>1 DEF ObjectsLife!Next, Uploaded

LEMMA LifeRetires ==
  ASSUME NEW old \in SUBSET (Uploaded \cup ServedFiles),
         Uploaded' = Uploaded \ old, ServedFiles' = ServedFiles \ old,
         RetiredFiles' = RetiredFiles \cup old, Gone' = Gone
  PROVE  ObjectsLife!Next
  <1>1. ObjectsLife!Retire(old)
    BY DEF ObjectsLife!Retire, Uploaded, Gone
  <1>2. QED BY <1>1 DEF ObjectsLife!Next, Uploaded

LEMMA LifeRemoves ==
  ASSUME NEW f \in Files, f \in Uploaded \cup RetiredFiles,
         Uploaded' = Uploaded \ {f}, RetiredFiles' = RetiredFiles \ {f},
         Gone' = Gone \cup {f}, UNCHANGED ServedFiles
  PROVE  ObjectsLife!Next
  <1>1. ObjectsLife!Remove(f)
    BY DEF ObjectsLife!Remove, Uploaded, Gone
  <1>2. QED BY <1>1 DEF ObjectsLife!Next

LifeStep == ObjectsLife!Next \/ UNCHANGED ObjectsLife!vars

LEMMA QuietLife ==
  ASSUME UNCHANGED <<objects, stamp, file, acked, removed>>
  PROVE  LifeStep
  BY LifeRests DEF LifeStep, ServedFiles, RetiredFiles, Live

\* A Put stores its object or leaves nothing; its path is not used again.
LEMMA PutsLive ==
  ASSUME LifeInv, NEW c \in Calls, PutObject(c) \/ PutFails(c)
  PROVE  LifeStep
  <1> USE DEF database, bucket, history
  <1>0. FileInv /\ TypeOK /\ c \in Tasks
    BY DEF LifeInv, FileInv, Tasks
  <1>1. PICK f \in Files : f = task[c].file
    BY <1>0, TaskShape DEF PutObject, PutFails
  <1>2. stamp[f] = 0 /\ f \notin objects /\ ~HasRow(f) /\ f \notin removed
    BY <1>0, <1>1 DEF FileInv, PutsFresh, FreshUnknown, PutObject, PutFails
  <1>3. UNCHANGED <<file, acked, removed>> /\ objects' \in {objects, objects \cup {f}}
        /\ stamp'[f] # 0 /\ \A g \in Files \ {f} : stamp'[g] = stamp[g]
    BY <1>0, <1>1, StampsSet DEF PutObject, PutFails
  <1>4. ~Live(f) /\ file[f].status # "archived"
    BY <1>2 DEF HasRow, Live
  <1>5. UNCHANGED <<ServedFiles, RetiredFiles>>
    BY <1>2, <1>3, <1>4 DEF ServedFiles, RetiredFiles, Live
  <1>6. f \notin Uploaded \cup ServedFiles \cup RetiredFiles \cup Gone
    BY <1>2 DEF Uploaded, ServedFiles, RetiredFiles, Gone
  <1>7. CASE objects' = objects
    <2>1. Uploaded' = Uploaded
      BY <1>5, <1>7 DEF Uploaded
    <2>2. Gone' = Gone \cup {f}
      BY <1>2, <1>3, <1>7 DEF Gone
    <2>3. QED BY <1>5, <1>6, <2>1, <2>2, LifePuts DEF LifeStep
  <1>8. CASE objects' = objects \cup {f}
    <2>1. Uploaded' = Uploaded \cup {f}
      BY <1>2, <1>5, <1>6, <1>8 DEF Uploaded
    <2>2. Gone' = Gone
      BY <1>2, <1>3, <1>8 DEF Gone
    <2>3. QED BY <1>5, <1>6, <2>1, <2>2, LifePuts DEF LifeStep
  <1>9. QED BY <1>3, <1>7, <1>8

\* A row that is stored: the file is served as soon as its upload is answered.
LEMMA InsertsLive ==
  ASSUME LifeInv, NEW c \in Calls, InsertFile(c) \/ InsertFails(c)
  PROVE  LifeStep
  <1> USE DEF database, bucket, history
  <1>0. FileInv /\ TypeOK /\ c \in Tasks
    BY DEF LifeInv, FileInv, Tasks
  <1>1. PICK f \in Files : f = task[c].file
    BY <1>0, TaskShape DEF InsertFile, InsertFails
  <1>2. task[c].pc = "insert" /\ Inserting(c, f)
    BY <1>1 DEF InsertFile, InsertFails, Inserting
  <1>3. ~HasRow(f) /\ f \in objects /\ f \notin acked /\ f \notin removed
    BY <1>0, <1>2 DEF LifeInv, FileInv, InsertsNew, RemovedGone, Stored
  <1>4. f \in Uploaded
    BY <1>3 DEF Uploaded, ServedFiles, RetiredFiles, HasRow
  <1>5. \A g \in Files : g # f => file'[g] = file[g]
    BY <1>0, <1>1, <1>2, RowStored DEF InsertFile, InsertFails
  <1>6. file'[f] = file[f] \/ file'[f].status = "live"
    BY <1>0, <1>1, <1>2, RowStored DEF InsertFile, InsertFails
  <1>7. UNCHANGED <<stamp, objects, removed>> /\ objects \subseteq Files
    BY <1>0 DEF InsertFile, InsertFails, TypeOK
  <1>8. RetiredFiles' = RetiredFiles
    <2>1. f \notin RetiredFiles /\ f \notin RetiredFiles'
      BY <1>3, <1>6, <1>7 DEF RetiredFiles, HasRow
    <2>2. acked' \in {acked, acked \cup {f}}
      BY <1>1 DEF InsertFile, InsertFails
    <2>3. \A g \in Files : g # f => (g \in ServedFiles' <=> g \in ServedFiles)
      BY <1>5, <1>7, <2>2 DEF ServedFiles, Live
    <2>4. \A g \in Files : g # f => (g \in RetiredFiles' <=> g \in RetiredFiles)
      BY <1>5, <1>7, <2>3 DEF RetiredFiles
    <2>5. RetiredFiles \subseteq Files /\ RetiredFiles' \subseteq Files
      BY <1>7 DEF RetiredFiles
    <2>6. QED BY <2>1, <2>4, <2>5
  <1>9. Gone' = Gone
    BY <1>7 DEF Gone
  <1>10. CASE acked' = acked
    <2>1. ServedFiles' = ServedFiles
      BY <1>3, <1>5, <1>7, <1>10 DEF ServedFiles, Live
    <2>2. QED BY <1>7, <1>8, <2>1, LifeRests DEF LifeStep
  <1>11. CASE acked' # acked
    <2>1. acked' = acked \cup {f} /\ file'[f].status = "live"
      BY <1>0, <1>1, <1>2, <1>11, RowStored DEF InsertFile, InsertFails
    <2>2. ServedFiles' = ServedFiles \cup {f}
      BY <1>3, <1>5, <1>7, <2>1 DEF ServedFiles, Live
    <2>3. Uploaded' = Uploaded \ {f}
      BY <1>4, <1>7, <1>8, <2>2 DEF Uploaded
    <2>4. PICK old \in SUBSET (Uploaded \cup ServedFiles) : old = {}
      OBVIOUS
    <2>5. /\ Uploaded' = Uploaded \ ({f} \cup old)
          /\ ServedFiles' = (ServedFiles \ old) \cup {f}
          /\ RetiredFiles' = RetiredFiles \cup old
      BY <1>8, <2>2, <2>3, <2>4
    <2>6. QED BY <1>4, <1>9, <2>4, <2>5, LifeServes DEF LifeStep
  <1>12. QED BY <1>10, <1>11

\* Rows that are archived or deleted, beside the answer of an upload.
LEMMA RowsRetired ==
  ASSUME LifeInv, TypeOK', NEW fs \in SUBSET Files, NEW A \in SUBSET Files,
         UNCHANGED <<stamp, objects>>, acked' = acked \cup A,
         removed \subseteq removed', removed' \subseteq removed \cup fs,
         \A g \in fs : ~Live(g)' /\ (file'[g].status = "archived" \/ g \in removed'),
         \A g \in Files \ fs : file'[g] = file[g],
         A = {} \/ \E f \in Files \ fs : A = {f}
  PROVE  LifeStep
  <1>0. TypeOK /\ objects \subseteq Files
    BY DEF LifeInv, FileInv, TypeOK
  <1>1. PICK old : old = fs \cap (Uploaded \cup ServedFiles)
    OBVIOUS
  <1>2. Gone' = Gone
    BY DEF Gone
  <1>3. RetiredFiles' = RetiredFiles \cup old
    <2>1. \A g \in fs \cap objects : g \in RetiredFiles' /\ g \in RetiredFiles \cup old
      BY <1>1 DEF RetiredFiles, ServedFiles, Uploaded
    <2>2. \A g \in objects \ fs : g \in RetiredFiles' <=> g \in RetiredFiles
      <3>1. ASSUME NEW g \in objects \ fs
            PROVE  g \in RetiredFiles' <=> g \in RetiredFiles
        <4>1. file'[g] = file[g] /\ (g \in removed' <=> g \in removed)
              /\ g \in objects' /\ g \in objects
          BY <1>0
        <4>2. g \in removed \/ file[g].status = "archived" => ~Live(g)
          BY DEF LifeInv, RemovedGone, Live
        <4>3. g \in ServedFiles => Live(g)
          BY DEF ServedFiles
        <4>4. g \in ServedFiles' => Live(g)
          BY <4>1 DEF ServedFiles, Live
        <4>5. g \in RetiredFiles <=> g \in removed \/ file[g].status = "archived"
          BY <4>1, <4>2, <4>3 DEF RetiredFiles
        <4>6. g \in RetiredFiles' <=> g \in removed' \/ file'[g].status = "archived"
          BY <4>1, <4>2, <4>4 DEF RetiredFiles
        <4>7. QED BY <4>1, <4>5, <4>6
      <3>2. QED BY <3>1
    <2>3. RetiredFiles' \subseteq objects /\ RetiredFiles \subseteq objects
          /\ old \subseteq fs \cap objects
      BY <1>1 DEF RetiredFiles, Uploaded, ServedFiles
    <2>4. QED BY <2>1, <2>2, <2>3
  <1>4. \A g \in fs : g \notin ServedFiles'
    BY DEF ServedFiles
  <1>5. \A g \in objects \ fs : g \in ServedFiles' <=> Live(g) /\ g \in acked \cup A
    BY <1>0 DEF ServedFiles, Live
  <1>6. ServedFiles' \subseteq objects /\ ServedFiles \subseteq objects
    BY DEF ServedFiles
  <1>7. CASE \E f \in A : f \in Uploaded /\ Live(f)
    <2>1. PICK f \in Files : A = {f} /\ f \in Uploaded /\ Live(f) /\ f \notin fs
      BY <1>7
    <2>2. f \notin old /\ old \in SUBSET (Uploaded \cup ServedFiles)
      BY <1>1, <2>1
    <2>3. ServedFiles' = (ServedFiles \ old) \cup {f}
      BY <1>1, <1>4, <1>5, <1>6, <2>1 DEF ServedFiles, Uploaded
    <2>4. Uploaded' = Uploaded \ ({f} \cup old)
      BY <1>1, <1>3, <1>6, <2>1, <2>3 DEF Uploaded
    <2>5. QED BY <1>2, <1>3, <2>1, <2>2, <2>3, <2>4, LifeServes DEF LifeStep
  <1>8. CASE \A f \in A : ~(f \in Uploaded /\ Live(f))
    <2>1. \A g \in objects \ fs : g \in A /\ Live(g) => g \in ServedFiles
      BY <1>8 DEF Uploaded, RetiredFiles, LifeInv, RemovedGone, Live
    <2>2. ServedFiles' = ServedFiles \ old
      BY <1>1, <1>4, <1>5, <1>6, <2>1 DEF ServedFiles
    <2>3. Uploaded' = Uploaded \ old
      BY <1>1, <1>3, <1>6, <2>2 DEF Uploaded
    <2>4. QED BY <1>1, <1>2, <1>3, <2>2, <2>3, LifeRetires DEF LifeStep
  <1>9. QED BY <1>7, <1>8

LEMMA RemovingLives ==
  ASSUME LifeInv, TypeOK', NEW c \in Calls,
         \/ ArchivePreviousCovers(c) \/ ArchiveFails(c)
         \/ DeleteFile(c) /\ Live(task[c].file)
         \/ CommitAccountDeletion(c)
  PROVE  LifeStep
  <1> USE DEF database, bucket, history
  <1>0. TypeOK /\ c \in Tasks
    BY DEF LifeInv, FileInv, Tasks
  <1>1. CASE ArchivePreviousCovers(c)
    <2>1. PICK fs \in SUBSET Files : fs = OlderCovers(task[c].file, task[c].project)
      BY DEF OlderCovers, Covers
    <2>2. PICK A \in SUBSET Files : A = {task[c].file}
      BY <1>0, <1>1, TaskShape DEF ArchivePreviousCovers
    <2>3. \A g \in fs : file[g] \in FileRow
      BY <1>0, <2>1, RowsOfFiles DEF OlderCovers, Covers
    <2>4. /\ file' = [g \in Files |-> IF g \in fs THEN [file[g] EXCEPT !.status = "archived"]
                                                  ELSE file[g]]
          /\ acked' = acked \cup A /\ UNCHANGED <<stamp, objects, removed>>
      BY <1>1, <2>1, <2>2 DEF ArchivePreviousCovers
    <2>5. \A g \in fs : file'[g].status = "archived"
      BY <2>3, <2>4 DEF FileRow
    <2>6. \A g \in Files \ fs : file'[g] = file[g]
      BY <2>4
    <2>7. task[c].file \notin fs
      BY <1>0, <2>1 DEF OlderCovers, TypeOK
    <2>8. PICK f \in Files \ fs : A = {f}
      BY <2>2, <2>7
    <2>9. \A g \in fs : ~Live(g)' /\ (file'[g].status = "archived" \/ g \in removed')
      BY <2>5 DEF Live
    <2>10. QED BY <2>4, <2>6, <2>8, <2>9, RowsRetired
  <1>2. CASE ArchiveFails(c)
    <2>1. PICK fs \in SUBSET Files : fs = {}
      OBVIOUS
    <2>2. PICK f \in Files \ fs : f = task[c].file
      BY <1>0, <1>2, <2>1, TaskShape DEF ArchiveFails
    <2>3. PICK A \in SUBSET Files : A = {f}
      OBVIOUS
    <2>4. acked' = acked \cup A /\ UNCHANGED <<file, stamp, objects, removed>>
      BY <1>2, <2>2, <2>3 DEF ArchiveFails
    <2>5. QED BY <2>1, <2>3, <2>4, RowsRetired
  <1>3. CASE DeleteFile(c) /\ Live(task[c].file)
    <2>1. PICK f \in Files : f = task[c].file
      BY <1>0, <1>3, TaskShape DEF DeleteFile
    <2>2. PICK fs \in SUBSET Files : fs = {f}
      OBVIOUS
    <2>3. /\ file' = [file EXCEPT ![f].status = "archived"] /\ removed' = removed \cup {f}
          /\ UNCHANGED <<stamp, objects, acked>>
      BY <1>3, <2>1 DEF DeleteFile
    <2>4. file[f] \in FileRow
      BY <1>0, <1>3, <2>1, RowsOfFiles
    <2>5. file'[f].status = "archived" /\ \A g \in Files \ {f} : file'[g] = file[g]
      BY <1>0, <2>3, <2>4 DEF TypeOK, FileRow
    <2>6. \A g \in fs : ~Live(g)' /\ (file'[g].status = "archived" \/ g \in removed')
      BY <2>2, <2>5 DEF Live
    <2>7. PICK A \in SUBSET Files : A = {}
      OBVIOUS
    <2>8. QED BY <2>2, <2>3, <2>5, <2>6, <2>7, RowsRetired
  <1>4. CASE CommitAccountDeletion(c)
    <2>1. PICK fs \in SUBSET Files : fs = FilesOf(task[c].user)
      BY DEF FilesOf
    <2>2. /\ removed' = removed \cup fs
          /\ file' = [g \in Files |-> IF g \in fs THEN NoRow ELSE file[g]]
          /\ UNCHANGED <<stamp, objects, acked>>
      BY <1>4, <2>1 DEF CommitAccountDeletion
    <2>3. \A g \in fs : ~Live(g)' /\ (file'[g].status = "archived" \/ g \in removed')
      BY <2>2 DEF Live, NoRow
    <2>4. PICK A \in SUBSET Files : A = {}
      OBVIOUS
    <2>5. QED BY <2>2, <2>3, <2>4, RowsRetired
  <1>5. QED BY <1>1, <1>2, <1>3, <1>4

\* An object is erased while nobody is served with it.
LEMMA ErasuresLive ==
  ASSUME LifeInv, NEW t \in Tasks,
         RecordObjectDeletion(t) \/ EraseObject(t) \/ RemovalFails(t)
  PROVE  LifeStep
  <1> USE DEF database, bucket, history
  <1>0. FileInv /\ TypeOK
    BY DEF LifeInv, FileInv
  <1>1. PICK f \in Files : f = task[t].file
    BY <1>0, TaskShape DEF RecordObjectDeletion, EraseObject, RemovalFails
  <1>2. UNCHANGED <<file, stamp, acked, removed>> /\ objects' \in {objects, objects \ {f}}
        /\ Removing(t, f)
    BY <1>1 DEF RecordObjectDeletion, EraseObject, RemovalFails, Removing, RemovalSteps
  <1>3. CASE objects' = objects
    BY <1>2, <1>3, QuietLife
  <1>4. CASE objects' # objects
    <2>1. f \in objects /\ objects' = objects \ {f} /\ stamp[f] # 0
      BY <1>0, <1>2, <1>4 DEF FileInv, FreshUnknown
    <2>2. f \notin ServedFiles
      BY <1>0, <1>2, CondemnedSettled DEF Condemned, Answered, ServedFiles
    <2>3. ServedFiles' = ServedFiles
      BY <1>2, <2>1, <2>2 DEF ServedFiles, Live
    <2>4. RetiredFiles' = RetiredFiles \ {f}
      BY <1>2, <2>1, <2>3 DEF RetiredFiles
    <2>5. Uploaded' = Uploaded \ {f}
      BY <2>1, <2>2, <2>3, <2>4 DEF Uploaded
    <2>6. Gone' = Gone \cup {f}
      BY <1>2, <2>1 DEF Gone
    <2>7. f \in Uploaded \cup RetiredFiles
      BY <2>1, <2>2 DEF Uploaded
    <2>8. QED BY <2>3, <2>4, <2>5, <2>6, <2>7, LifeRemoves DEF LifeStep
  <1>5. QED BY <1>3, <1>4

LEMMA NextLives ==
  ASSUME LifeInv, [Next]_vars
  PROVE  LifeStep
  <1> USE DEF database, bucket, history
  <1>0. FileInv /\ TypeOK'
    BY TypesKept DEF LifeInv, FileInv
  <1>1. ASSUME NEW c \in Calls, Request(c)
        PROVE  LifeStep
    <2>1. CASE PutObject(c) \/ PutFails(c)
      BY <2>1, PutsLive
    <2>2. CASE InsertFile(c) \/ InsertFails(c)
      BY <2>2, InsertsLive
    <2>3. CASE \/ ArchivePreviousCovers(c) \/ ArchiveFails(c)
               \/ DeleteFile(c) /\ Live(task[c].file)
               \/ CommitAccountDeletion(c)
      BY <1>0, <2>3, RemovingLives
    <2>4. CASE DeleteFile(c) /\ ~Live(task[c].file)
      BY <2>4, QuietLife DEF DeleteFile
    <2>5. CASE \/ \E f \in Files, u \in Users, p \in Projects, cover \in BOOLEAN :
                    BeginUpload(c, f, u, p, cover)
               \/ \E f \in Files : BeginDelete(c, f)
               \/ \E i \in Items, f \in Files : CheckReceipt(c, i, f)
               \/ AttachReceipt(c)
               \/ \E u \in Users : BeginDeleteAccount(c, u)
               \/ RecordAccountDeletion(c)
               \/ Unqueue(c) \/ QueueStorageDeletion(c)
      BY <2>5, QuietLife
         DEF BeginUpload, BeginDelete, CheckReceipt, AttachReceipt, BeginDeleteAccount,
             RecordAccountDeletion, Unqueue, QueueStorageDeletion
    <2>6. QED BY <1>1, <2>1, <2>2, <2>3, <2>4, <2>5 DEF Request
  <1>2. CASE \/ \E w \in Workers : DeletionWorker(w)
             \/ \E t \in Tasks : Abort(t)
             \/ \E f \in Files : LeaseLapses(f) \/ RetryDue(f)
             \/ \E i \in Items : DeleteCostItem(i)
             \/ UNCHANGED vars
    BY <1>2, QuietLife
       DEF DeletionWorker, ClaimDeletion, MarkDeletionComplete, RescheduleDeletion,
           ReleaseDeletionClaim, Abort, LeaseLapses, RetryDue, DeleteCostItem, vars
  <1>3. CASE \E t \in Tasks : RecordObjectDeletion(t) \/ EraseObject(t) \/ RemovalFails(t)
    BY <1>3, ErasuresLive
  <1>4. QED BY <1>1, <1>2, <1>3 DEF Next

\* FileStorage implements ObjectLife: an object is stored once, served only after
\* its upload succeeded, erased only while nobody is served with it, and never
\* served again once it was retired (files.go, file_upload.go, worker.go).
THEOREM StorageImplementsObjectLife == Spec => LifeSpec
  <1>1. Init => ObjectsLife!Init
    BY DEF Init, ObjectsLife!Init, ServedFiles, RetiredFiles
  <1>2. LifeInv /\ [Next]_vars => [ObjectsLife!Next]_(ObjectsLife!vars)
    BY NextLives DEF LifeStep
  <1>3. QED BY <1>1, <1>2, LifeInvFirst, LifeInvKept, PTL DEF Spec, LifeSpec, ObjectsLife!Spec
=============================================================================
