--------------------------- MODULE ObjectTransfer ---------------------------
(***************************************************************************)
(* Moving the uploaded files between the local volume and the bucket:      *)
(* storage-migrate copies every active file while the API is stopped, and  *)
(* the operator then starts the API on the other store.  A copy is a       *)
(* single PUT, a multipart upload or a file that is renamed into place,    *)
(* and the tool may fail or stop at any step of it and be run again.       *)
(*                                                                         *)
(* Sizes are scaled: a mebibyte, the limits of S3 and of the code are      *)
(* constants.  An object is its length and whether its bytes are those of  *)
(* the file; the parts of an upload are its counters.  FileStorage has the *)
(* API's own uploads and deletions step by step, here each is one step.    *)
(***************************************************************************)
EXTENDS Integers

CONSTANTS Keys,
          Sizes,        \* the sizes files may have
          MiB,
          SinglePut,    \* s3SinglePutMaximumBytes
          MinPart,      \* s3MultipartMinimumPartBytes
          DefaultPart,  \* s3MultipartDefaultPartBytes
          MaxPart,      \* s3MultipartMaximumPartBytes
          MaxParts,     \* s3MultipartMaximumParts
          NoObject

Object == [len : Nat, same : BOOLEAN]

ASSUME TransferAssumption ==
  /\ Sizes \subseteq Nat
  /\ {MiB, MinPart, DefaultPart, MaxPart, MaxParts} \subseteq Nat \ {0}
  /\ SinglePut \in Nat
  /\ MinPart <= DefaultPart /\ DefaultPart <= MaxPart
  /\ DefaultPart % MiB = 0 /\ MaxPart % MiB = 0
  /\ NoObject \notin Object

VARIABLES size,         \* size_bytes of each file, fixed
          activeFiles,  \* files with deleted_at IS NULL
          driver,       \* STORAGE_DRIVER of the API: the store it reads and writes
          store,        \* external: the objects of each store
          job           \* the API or the tool

transferVars == <<size, activeFiles, driver, store, job>>

Stores == {"local", "s3"}
Target == IF driver = "local" THEN "s3" ELSE "local"

-----------------------------------------------------------------------------
(* multipartUploadPlanWithThreshold. *)

\* Variant: the remainder of the division is lost.
FloorDiv(n, d) == n \div d

CeilDiv(n, d) == n \div d + (IF n % d # 0 THEN 1 ELSE 0)
RoundUp(n, d) == IF n % d = 0 THEN n ELSE n + (d - (n % d))

PartSize(n) ==
  LET required == CeilDiv(n, MaxParts) IN
  RoundUp(IF required > DefaultPart THEN required ELSE DefaultPart, MiB)

PartCount(n) == (n - 1) \div PartSize(n) + 1

HasPlan(n) ==
  /\ SinglePut < n /\ n <= MaxPart * MaxParts
  /\ PartSize(n) \in MinPart .. MaxPart
  /\ PartCount(n) <= MaxParts

PartLength(n, sent) ==
  IF n - sent < PartSize(n) THEN n - sent ELSE PartSize(n)

-----------------------------------------------------------------------------
Whole(k) == [len |-> size[k], same |-> TRUE]

JobState ==
  [pc : {"serving", "stopped", "done"}]
  \cup [pc : {"next"}, todo : SUBSET Keys]
  \cup [pc : {"put", "temp", "publish"}, key : Keys, todo : SUBSET Keys]
  \cup [pc : {"parts"}, key : Keys, todo : SUBSET Keys, parts : Nat, sent : Nat,
        got : Nat, same : BOOLEAN]
  \cup [pc : {"verify"}, key : Keys, todo : SUBSET Keys, got : Nat]

\* Until the first migration the API has only the local volume; files that are
\* larger than today's limit for uploads are among its files.
TransferInit ==
  /\ size \in [Keys -> Sizes]
  /\ activeFiles \in SUBSET Keys
  /\ driver = "local"
  /\ store = [s \in Stores |-> [k \in Keys |->
                IF s = "local" /\ k \in activeFiles THEN Whole(k) ELSE NoObject]]
  /\ job = [pc |-> "serving"]

-----------------------------------------------------------------------------
(* The API, and the operator. *)

\* The limit of an upload, MAX_UPLOAD_MB, is far below the one of a single PUT.
UploadFile(k) ==
  /\ job.pc = "serving"
  /\ k \notin activeFiles /\ \A s \in Stores : store[s][k] = NoObject
  /\ size[k] <= SinglePut
  /\ activeFiles' = activeFiles \cup {k}
  /\ store' = [store EXCEPT ![driver][k] = Whole(k)]
  /\ UNCHANGED <<size, driver, job>>

\* The object goes at once or, when its removal fails, later.
DeleteFile(k) ==
  /\ job.pc = "serving"
  /\ k \in activeFiles
  /\ activeFiles' = activeFiles \ {k}
  /\ store' \in {store, [store EXCEPT ![driver][k] = NoObject]}
  /\ UNCHANGED <<size, driver, job>>

StopApi ==
  /\ job.pc = "serving"
  /\ job' = [pc |-> "stopped"]
  /\ UNCHANGED <<size, activeFiles, driver, store>>

\* After a failed run the API starts where it was; after a successful one it
\* may start on the other store.
StartApi ==
  /\ job.pc \in {"stopped", "done"}
  /\ job' = [pc |-> "serving"]
  /\ UNCHANGED <<size, activeFiles, driver, store>>

CutOver ==
  /\ job.pc = "done"
  /\ driver' = Target
  /\ job' = [pc |-> "serving"]
  /\ UNCHANGED <<size, activeFiles, store>>

-----------------------------------------------------------------------------
(* storage-migrate: copyAndVerify for one file after the other.  The order *)
(* of the keys does not matter and is left open.                           *)

MigrateActiveFiles ==
  /\ job.pc \in {"stopped", "done"}
  /\ job' = [pc |-> "next", todo |-> activeFiles]
  /\ UNCHANGED <<size, activeFiles, driver, store>>

\* A source object that is missing or has another size ends the run.
OpenSource(k) ==
  /\ job.pc = "next" /\ k \in job.todo
  /\ store[driver][k] # NoObject /\ store[driver][k].len = size[k]
  /\ \/ /\ Target = "local"
        /\ job' = [pc |-> "temp", key |-> k, todo |-> job.todo]
     \/ /\ Target = "s3" /\ size[k] <= SinglePut
        /\ job' = [pc |-> "put", key |-> k, todo |-> job.todo]
     \/ /\ Target = "s3" /\ HasPlan(size[k])
        /\ job' = [pc |-> "parts", key |-> k, todo |-> job.todo, parts |-> 0,
                   sent |-> 0, got |-> 0, same |-> store[driver][k].same]
  /\ UNCHANGED <<size, activeFiles, driver, store>>

\* What arrives is what was sent, or was damaged on the way: one-pass requests
\* are not signed over their payload.
Arrives(same) == {same, FALSE}

Stored(object) == store' = [store EXCEPT ![Target][job.key] = object]
Verify(n) == job' = [pc |-> "verify", key |-> job.key, todo |-> job.todo, got |-> n]
Stops == job' = [pc |-> "stopped"]

\* S3 refuses a body that ends before its Content-Length, and an answer that
\* says nothing of an object may come after it was stored.
PutStream ==
  /\ job.pc = "put"
  /\ \E same \in Arrives(store[driver][job.key].same) :
       Stored([len |-> size[job.key], same |-> same])
  /\ Verify(size[job.key]) \/ Stops
  /\ UNCHANGED <<size, activeFiles, driver>>

\* Variant: the bytes the source delivered are not counted.
UploadAnyPart ==
  /\ job.pc = "parts" /\ job.sent < size[job.key]
  /\ LET length == PartLength(size[job.key], job.sent) IN
     \E n \in {length, length - 1}, same \in Arrives(job.same) :
       job' = [job EXCEPT !.parts = @ + 1, !.sent = @ + length, !.got = @ + n,
                          !.same = same]
  /\ UNCHANGED <<size, activeFiles, driver, store>>

\* A part whose source ended early is not counted: the upload is aborted.
UploadPart ==
  /\ job.pc = "parts" /\ job.sent < size[job.key]
  /\ LET length == PartLength(size[job.key], job.sent) IN
     \E same \in Arrives(job.same) :
       job' = [job EXCEPT !.parts = @ + 1, !.sent = @ + length, !.got = @ + length,
                          !.same = same]
  /\ UNCHANGED <<size, activeFiles, driver, store>>

\* The upload may be complete although the answer says it is not; then there is
\* nothing left for abortMultipart to abort.
CompleteMultipartUpload ==
  /\ job.pc = "parts" /\ job.sent >= size[job.key]
  /\ Stored([len |-> job.got, same |-> job.same])
  /\ Verify(job.got) \/ Stops
  /\ UNCHANGED <<size, activeFiles, driver>>

\* LocalStore.PutStream: the whole body goes to a temporary file first.
CopyToTemp ==
  /\ job.pc = "temp"
  /\ job' = [job EXCEPT !.pc = "publish"]
  /\ UNCHANGED <<size, activeFiles, driver, store>>

RenameTemp ==
  /\ job.pc = "publish"
  /\ \E same \in Arrives(store[driver][job.key].same) :
       Stored([len |-> size[job.key], same |-> same])
  /\ Verify(size[job.key]) \/ Stops
  /\ UNCHANGED <<size, activeFiles, driver>>

Copied == job' = [pc |-> "next", todo |-> job.todo \ {job.key}]

\* Variant: the object is read back but its digest is not compared.
ReadBack ==
  /\ job.pc = "verify"
  /\ job.got = size[job.key]
  /\ store[Target][job.key].len = job.got
  /\ Copied
  /\ UNCHANGED <<size, activeFiles, driver, store>>

\* Both digests are of what was read: the source once, while it was copied.
VerifyCopy ==
  /\ job.pc = "verify"
  /\ job.got = size[job.key]
  /\ store[Target][job.key] = [len |-> job.got, same |-> store[driver][job.key].same]
  /\ Copied
  /\ UNCHANGED <<size, activeFiles, driver, store>>

Finish ==
  /\ job.pc = "next" /\ job.todo = {}
  /\ job' = [pc |-> "done"]
  /\ UNCHANGED <<size, activeFiles, driver, store>>

\* An error at any step ends the run, an interrupt does: what was copied stays.
MigrationFails ==
  /\ job.pc \notin {"serving", "stopped", "done"}
  /\ Stops
  /\ UNCHANGED <<size, activeFiles, driver, store>>

-----------------------------------------------------------------------------
CopyAndVerify ==
  \/ \E k \in Keys : OpenSource(k)
  \/ PutStream \/ UploadPart \/ CompleteMultipartUpload \/ CopyToTemp \/ RenameTemp
  \/ VerifyCopy

TransferNext ==
  \/ \E k \in Keys : UploadFile(k) \/ DeleteFile(k)
  \/ StopApi \/ StartApi \/ CutOver
  \/ MigrateActiveFiles \/ CopyAndVerify \/ Finish \/ MigrationFails

TransferSpec == TransferInit /\ [][TransferNext]_transferVars

-----------------------------------------------------------------------------
(* Properties. *)

\* The stores and the tool only take these values.
TransferTypeOK ==
  /\ size \in [Keys -> Sizes]
  /\ activeFiles \subseteq Keys
  /\ driver \in Stores
  /\ store \in [Stores -> [Keys -> Object \cup {NoObject}]]
  /\ job \in JobState

\* Neither store ever shows a part of a file: a source that ends early, a
\* failed upload or a tool that stops leaves the destination as it was
\* (TestCopyAndVerifyRejectsShortSourceWithoutChangingDestination).
WholeObjects ==
  \A s \in Stores, k \in Keys : store[s][k] # NoObject => store[s][k].len = size[k]

\* Every active file can be read, with its own bytes, from the store the API
\* uses: also after a change of the store that followed failed runs, damaged
\* copies and files that were uploaded and deleted in between.
ActiveFilesServed == \A k \in activeFiles : store[driver][k] = Whole(k)

\* Every file that is too large for one PUT and not too large for S3 can be
\* sent in parts that S3 accepts: not too many, none too large or empty, and
\* only the last one smaller than the minimum.
PartsAccepted ==
  /\ \A k \in Keys : SinglePut < size[k] /\ size[k] <= MaxPart * MaxParts => HasPlan(size[k])
  /\ job.pc = "parts" =>
       LET n == size[job.key]
           length == PartLength(n, job.sent)
       IN  /\ job.parts <= MaxParts
           /\ job.sent < n =>
                /\ job.parts < MaxParts
                /\ length \in 1 .. MaxPart
                /\ length < MinPart => job.sent + length = n
=============================================================================
