# Verification of OnlineProrab

TLA+ models of the backend of OnlineProrab, a service for building contractors: an API written
in Go (`src/backend`) over PostgreSQL, S3, an SMS provider and the O!Dengi bank, with a mobile
application, a website and operator scripts around it. The handlers are short; what is hard in
this code is what happens *between* their statements. A handler is a chain of SQL statements and
calls to other services, several replicas and several requests of one account run at a time,
a request may stop after any statement (deadline, lost connection, deployment), PostgreSQL works
under READ COMMITTED, and S3 and the bank share no transaction with it. The models keep every
statement that changes state, the locks held across statements, the early returns and the
failures, and leave out amounts, texts, formats and the HTTP layer.

## 1. Inventory

| Component | State | Operations | Interacts with | Hard parts |
|---|---|---|---|---|
| **Billing** `httpapi/subscription_checkout.go`, `subscription_limits.go`, `subscriptions.go`, `subscription_auth.go`, `payment/obank` | `account_subscriptions`, `subscription_payment_orders`, invoices and attempts at the bank | checkout, status poll, bank callback, lazy expiry | the bank (calls and callbacks), every handler that needs a plan | callbacks repeated, late and out of order; poll against callback; two checkouts; expiry decided on a stale read; lock order; dates at the end of a month |
| **Files** `httpapi/file_upload.go`, `files.go`, `storage/s3.go`, `storage/deletion_worker.go` | `files`, `file_storage_deletions`, objects in S3, journal of deletions in a bucket of its own | upload, cover replacement, delete; worker: claim, remove, complete or reschedule | cost items (receipts), projects (covers), account deletion | object and row in different stores; inline removal against workers; leases, retries, crashes |
| **Account deletion** `httpapi/account.go`, `account_deletion_auth.go` | `users` and all that cascades, account tombstones | DELETE /account, public form with an SMS code | files, journal, restore | uploads in flight; journal before commit |
| **Backup and restore** `scripts/backup.sh`, `restore.sh`, `apply-deletion-tombstones.py` | archive of dump and objects | nightly online backup; restore with replay of the journal and the outbox | files, account deletion | dump and copy of different times; restore that fails and is repeated; deletions newer than the dump |
| **Teams and plans** `httpapi/project_team.go`, `projects.go`, `permissions.go`, `rbac_handlers.go`, `subscription_limits.go` | `projects`, `project_members`, `project_invites` | create, archive, restore, invite, accept, change role, remove | billing (plan limits), login (pending invites) | capacity checked in one transaction and used in another; unlocked role changes |
| **SMS login** `httpapi/auth.go`, `auth_abuse.go`, `sms_rate_limit.go`, `internal/sms` | `sms_login_codes`, attempt counters | request, verify, prune | SMS provider, invites, sessions | two codes at once; delivery that fails late; attempts |
| **Sessions** `httpapi/sessions.go`, `middleware.go` | `refresh_sessions` | create, refresh (rotation), logout | mobile client | limit without a lock; lost answer of a refresh |
| **Realtime** `httpapi/realtime.go` | subscribers of one process | subscribe, publish, unsubscribe | every handler that changes a project | full buffers, limits, membership read before publication, channels closed under publishers |
| **Push** `httpapi/push_tokens.go`, `notifications/firebase.go` | device tokens | register, reassign, send | realtime | token moves between accounts; a refused token among several |
| **Cost items, tasks, reports, support, audit** | a table each | row-wise CRUD | files (receipts) | the link to a receipt |
| **Storage migration** `cmd/storage-migrate`, `storage/s3.go` (multipart), `storage/local.go` | objects in two stores, the store the API uses | copy and verify every active file, one PUT, in parts or through a temporary file; change of the store | files, the operator | damaged or failed copies, interrupted and repeated runs, uploads in between; sizes at S3's limits |
| **Migrations, start-up** | schema version, advisory lock | migrate, serve, shut down | all | two replicas starting |
| **Configuration, HTTP plumbing, website, deployment, mobile UI** | none shared | | | |

What makes them correct, component by component:

* **Billing**: an order is paid only on an attempt the bank approved for it; it is paid once and
  buys exactly its period; a paid order is final; an account has at most one payable order; a
  successful payment is applied in the end; a paid period is not cut short, and renewals add up to
  the months that were paid.
* **Files**: a removed file's object is never forgotten and goes in the end; an acknowledged
  upload keeps its object; replacing covers leaves one; deleted accounts leave no file; a deleted
  receipt is detached.
* **Backup and restore**: what was deleted stays deleted, what is restored is complete, and the
  restored outbox is empty of old work.
* **Teams**: no plan's limits are exceeded; a role is only changed by who may; an invite is used
  once.
* **Login**: a code is used once and stands five wrong guesses; what the provider accepted is only
  lost to a newer message; attempts stay within their limits. **Sessions**: ten, up to the logins
  that cross; a token is exchanged once; no session without its account. **Realtime**: no event to
  strangers, no send on a closed channel, no unbounded queue; **push** reaches every member.
* **Storage migration**: the store the API uses has every active file, whole and undamaged; no part
  of a file is ever visible; every size up to the limit can be sent.

`PROJECT.json` lists each component with its status and each hazard with the line where it bites.

## 2. Plan

| # | Module | Models | State |
|---|---|---|---|
| 1 | `Billing`, `PaymentLedger` (abstract), `BillingProofs` | billing; that it implements a payment ledger | done, proved |
| 2 | `FileStorage`, `ObjectLife` (abstract) | files, outbox, worker, account deletion, receipts; that they implement the life of an object | done, proved (row 10) but for liveness |
| 3 | `FileRestore` (extends 2) | backup and restore over the running system | done, proved (row 10) |
| 4 | `Team`, `TeamProofs` | invites, capacity, roles, creating, archiving and restoring projects, plan limits; the login's acceptance of invitations | done, proved |
| 5 | `SmsLogin`, `OneTimeCode` (abstract), `LoginProofs` | codes, delivery, attempts, rate limits, pruning; the public account-deletion form; that it implements one-time codes | done, proved |
| 6 | `Sessions`, `SessionProofs` | limit, rotation, logout, expiry, account deletion | done, proved |
| 7 | `Realtime`, `RealtimeProofs` | hub, buffers, membership, device tokens, push | done, proved |
| 8 | `ObjectTransfer`, `TransferProofs` | storage-migrate, the multipart plan and upload, the local driver's write, the change of the store | done, proved |
| 9 | `Calendar`, `CalendarProofs` | the dates of consecutive paid periods (`addSubscriptionPeriod`) | done, proved |
| 10 | `FileProofs` | every safety property of `FileStorage` and `FileRestore` that holds; the refinement of `ObjectLife` | done |
| 11 | database migrations | two replicas that start at once, the advisory lock | later |

Abstract specifications worth stating: the payment ledger, a one-time code for `SmsLogin`, the life
of one stored object for `FileStorage` (all done). Every safety property that a passing run checks
has its theorem.

## 3. The modules

### Billing

State: `sub` is `account_subscriptions`, `order` is `subscription_payment_orders`, `call` the
requests in flight, `now` a clock of ticks; `invoice`, `shown` and `payment` are the bank's
(external). A transaction that keeps a row lock while it goes on has a state of its own
(`reserve` and `insert` hold the subscription row, `activate` the order row), any other
transaction is one step taken when its rows are free. Actions follow the code: `BeginReserve`,
`ReserveByKey`, `ReserveOpen`, `ReserveNone`, `InsertOrder` (`reserveSubscriptionCheckout`),
`CreateInvoice`, `SaveInvoice`; `ReceiveCallback`, `ApplyIgnored`, `ApplyStatus`,
`ApplyApproved`, `Activate` (`applyOBankResult`); `ClaimStatusCheck`, `PollApproved`,
`PollStatus`, `UpdatePaymentStatus` (`getSubscriptionCheckout`); `ReadSubscription`,
`ExpireSubscription` (the unlocked read of `requireSubscribed` and its second statement);
`Abort` for deadlines, lost connections and deadlock victims. `PayInvoice` and `SettleAttempt`
are the customer and the bank. `ReceiveCallback` may deliver any signed answer of the past, again
and again. A plan with its period is an `Offer`.

`PaymentLedger` says what billing promises about money, without invoices, requests or locks:
settling an order, once, extends the account by its full length from the later of now and the
paid end. `Billing!Ledger` instantiates it with the tables.

### FileStorage

State: `users`, `file`, `receipt` and `outbox` are tables; `objects`, `tombs` and `accTombs` are
the uploads bucket and the journal in S3 (external); `task` holds requests and workers; `acked`,
`removed` and `left` are history (what clients were told or what was committed). A file, its row
and its storage path are one element of `Files`, because a path is random and used once.
`created_at` is a position (`stamp`), the outbox's `available_at` and `locked_until` are the
states due, claimed and later, and an entry carries its `id`, since the worker addresses entries
by id and requests by path.

* upload: `BeginUpload`, `PutObject`, `PutFails`, `InsertFile`, `InsertFails` (refused, or
  committed with the answer lost), `ArchivePreviousCovers`, `ArchiveFails`
* delete: `BeginDelete`, `DeleteFile`, then S3's removal `RecordObjectDeletion` (tombstone),
  `EraseObject`, `RemovalFails`, and `Unqueue` or `QueueStorageDeletion` (`removeStoredFile`)
* receipts: `CheckReceipt`, `AttachReceipt`, `DeleteCostItem`
* account: `BeginDeleteAccount` (locks account, projects and files), `RecordAccountDeletion`,
  `CommitAccountDeletion` (cascade and the trigger of migration 17)
* worker: `ClaimDeletion`, the removal as above, `MarkDeletionComplete`, `RescheduleDeletion`,
  `ReleaseDeletionClaim`; `LeaseLapses` and `RetryDue` are time passing
* `Abort`: any task stops where it is

`ObjectLife` says what all this promises about one object: it is stored once, served only after its
upload succeeded, leaves the bucket only while nobody is served with it, and is never served again
once it was retired. `FileStorage!ObjectsLife` instantiates it: an object in the bucket is `served`
when its row is live and its upload was answered with 201, `retired` when its row is archived or was
deleted, and otherwise merely `stored`; a path that was used and has no object is `gone`. Either
outcome of a Put is a `Put`. The answer of an upload is a `Serve`, which for a cover retires the
older covers in the same statement; deletions of files and accounts are `Retire` (of several files
at once), and both the clean-up of an upload and the removals are `Remove`. An INSERT whose answer
is lost, the journal, the outbox and the leases are invisible to it.

Failing calls may or may not have taken effect. One assumption is built in: a lease only runs out
when its holder has stopped, since a worker spends at most 25 s on an entry and a lease lasts
5 minutes.

### FileRestore

Extends `FileStorage` by `backup` (the archive, or the one being made) and `phase` (where the
operator is). `DumpDatabase`, `CopyObject`, `UploadArchive`, `BackupFails` run beside the
system; `Disaster` stops every task; `RestoreDatabase`, `RestoreObjects`, `ReplayTombstones`,
`JournalOutbox`, `EraseTombstoned`, `CompleteOutbox` are the steps of `restore.sh`, and
`RestoreFails` sends the operator back to its start. The system then serves again. One backup and
one disaster are enough for the questions asked: an older archive differs only in how much
happened since, which the model leaves open.

### Team

State: `users` (people with an account), `plan` is `account_subscriptions` of the owners as last
written, `project` and `role` are `projects` and `project_members`, `invites` is
`project_invites` in the order of `created_at`, `call` the requests in flight. The step a request
is at determines the row locks its transaction holds (`HeldProjects`, `HeldSubs`,
`HeldInvites`), so no variable repeats them.

* `CreateProjectInvite`: `BeginInvite` (the permission check and the two look-ups, statements of
  their own); for a person with an account `LockForAdd` and `CommitAdd`, one transaction; for a
  phone without one `GuardInvite`, whose transaction ends with the check, then `RevokePrevious`
  and `InsertInvite`, which waits for a locked project because of its foreign key
* `AcceptProjectInvite`: `BeginAccept`, `LockForAccept`, `CommitAccept`
* `VerifyCode` from the user's row on: `BeginLogin` locks the open invitations of the phone,
  `LoginInvite` answers one, oldest first, or skips it for lack of room, `CommitLogin`
* `ProjectMember`: `BeginMember` (unlocked checks), `SetRole`, `RemoveMember`
* projects: `BeginCreate` (holds the subscription row), `CommitCreate`; `BeginArchive`,
  `ArchiveProject`; `BeginRestore`, `LockRestore`, `CommitRestore`
* `Abort` stops any request where it is, deadlock victims included; `ExpireInvite` is time;
  `ChangePlan` is a payment or a lapse, written under the row lock: what `Billing` does to a
  plan, seen from here

The two locks of `ensureProjectMemberCapacity` are one step with its count, since nothing is read
between them. Deleting an account is `FileStorage`'s.

### SmsLogin

State: `users` (phones with an account), `code` is `sms_login_codes`, `tries` is `auth_attempts`,
`request` the requests in flight, `now` a clock. A row and its six digits are one element of
`Codes`; its `created_at` is a position (`pos`) and the tick it came at (`at`). Three histories
say what the tables do not: `held`, the codes whose message reached the phone; `sent`, those the
provider accepted; `grants`, how many tokens a code was exchanged for.

* `withSMSRequestRateLimit`, `withSMSVerifyRateLimit`: `CountAttempts` (begin, advisory locks,
  count) and `ReserveAttempt` (insert, commit, which frees the locks). PostgreSQL's `now()` is the
  begin of the transaction, before it waited; so a request counts and dates its attempt by
  `since`, while the cooldown is measured by the clock of the API
* `RequestSMSCode`: `InsertCode`, `SendLoginCode` (delivery and answer are independent),
  `CleanupSMSCode` or `InvalidateOlderSMSCodes`, whose own failure the code ignores
* `VerifySMSCode` and `VerifyAccountDeletionSMSCode`: `SelectCodes` takes the snapshot,
  `Lockable` is what FOR UPDATE leaves of it, then `RefuseGuess`, `RecordWrongGuess`, or `LogIn`
  and `ConfirmDeletion`
* `PruneAttempts`, `PruneCodes` (`pruneAuthHistory`), `AbortLogin`, `Tick`

The deadlines of a request add up to 20 s, less than the cooldown of 45 s; `Tick` waits for a
request that has used up its `RequestLife`, and `SmsLoginAssumption` states the relation. The
invitations a login accepts are `Team`'s.

`OneTimeCode` says what a code is for: it is exchanged once, stands `MaxAttempts` wrong guesses,
and is void for good once it was withdrawn. `SmsLogin!OneTime` instantiates it with `grants`, the
column `attempts`, and the rows consumed or deleted without a grant.

### Sessions

State: `accounts`, and of `refresh_sessions` the rows that are `active`, their order of use
(`newer`, what `ORDER BY COALESCE(last_used_at, created_at)` yields), `owner`, and `token`, which
counts the tokens a row has had; `handler` holds the requests. `CreateSession` is `RankSessions`
(the subselect), `RevokeOldest` (the UPDATE, which waits for the ranked rows) and `InsertSession`;
`RefreshSession` is `SelectSession` (FOR UPDATE) and `RotateToken`; `LogoutSession` is one UPDATE.
Requests may come with any token a session ever had. `DeleteAccount` cascades, `ExpireSession` is
time, `AbortSession` a rollback.

### Realtime

State: `members` is `project_members`, `device` is `push_tokens`, `stream` the hub's subscribers
with their channels, `change` what a handler and its goroutine know of a committed change;
`entitled` is history: who was a member since the change. A stream: `OpenStream` (the check of a
project filter), `Subscribe` or `RefuseStream` (429), `WriteEvent`, `Unsubscribe`. A change:
`CreateCostItem`, `AddMember`, `RemoveMember` commit it; `ReadMembers`, `StartPublish` (read
lock), `SendEvent` (queued or dropped, stream by stream), `EndPublish`; for a cost item then
`ReadTokens`, `SendPush`, `FailPush` in the goroutine. `RegisterToken` moves a token between
accounts, `DeleteToken`, `ForgetPerson` and `RestartHub` complete it. A stream can be registered
or closed only while no publisher holds the read lock.

### ObjectTransfer

State: `size` is `size_bytes` of each file, `activeFiles` the rows with `deleted_at IS NULL`,
`driver` the store the API uses, `store` the objects of the local volume and of the bucket
(external), `job` where the API or the tool is. An object is its length and whether its bytes are
those of the file. `UploadFile` and `DeleteFile` are the API while it serves (step by step in
`FileStorage`), `StopApi`, `StartApi` and `CutOver` the operator of PRODUCTION.md.
`MigrateActiveFiles` reads the list of rows; for each of them `OpenSource` compares the size and
chooses the way: `PutStream` (one PUT), `UploadPart` and `CompleteMultipartUpload`, or
`CopyToTemp` and `RenameTemp` (local). `VerifyCopy` is the read-back with both digests,
`MigrationFails` any error and any interrupt, `Finish` the end. What arrives may be damaged, and
an answer that reports a failure may come after the object was stored. `CeilDiv`, `RoundUp`,
`PartSize`, `PartCount`, `HasPlan` are `multipartUploadPlanWithThreshold`.

### Calendar

State: `begun` and `end`, the dates of the first payment and of `current_period_end`, and
`bought`, the months paid since. `Renew` applies `AddSubscriptionPeriod` to the end of the period,
which is what an activation does while the account is paid. `GoDate` and `LastDay` are `time.Date`
with its normalisation of days; they count days from March, while the property uses the usual
table of months and leap years, so that the two are independent.

### MCComponents, MCBilling

`MCComponents` puts the five components above into one run. They share no variable, so it adds a
variable `part` that says which of them moves; live updates appear twice, as streams without
devices and as pushes without streams, because the two meet only in the list of members a change
has read. A login is explored twice too: with one phone through all of its steps, and with two
phones behind one client as far as the reservation of attempts. `MCBilling` bounds its largest run
by the constraint `Small`: two keys, an offer of a year and a clock that reaches 2 do not come
together.

Definitions marked "Variant" are plausible mistakes in the code. They are not part of any
specification; they are there to show that a property notices the mistake.

## 4. Runs

| Run | Instance | Shows |
|---|---|---|
| `billing_orders` | 1 user, 2 orders, 2 keys, 2 invoices, 2 attempts, 2 requests, 2 offers, time 0..2 within `Small` | types and references, `PaidMeansApproved`, `OneOpenOrder`, `OrdersOnlyAdvance`, and that billing implements `PaymentLedger` |
| `billing_settles` | 1 order, 2 invoices, 1 attempt, fair | `MatchedPaymentSettles` |
| `billing_stale_expiry` | 1 order | violation of `PaidPeriodAvailable` |
| `billing_left_pending` | 1 order, 2 invoices, fair | violation of `SuccessfulPaymentSettles` |
| `files_safety` | 2 files, 1 user, 2 requests, 1 worker | `RemovedObjectsAreQueued`, `AcknowledgedUploadsKept`, `CoverSurvives`, and that the storage implements `ObjectLife` (`LifeSpec`) |
| `files_removed` | 1 file, 2 users, 1 cost item, 2 requests, 2 workers, fair | `AccountLeavesNothing`, `RemovedObjectsGo` |
| `files_receipt` | 1 file, 1 cost item, 2 requests | violation of `DeletedReceiptsAreDetached` |
| `restore_safety` | 1 file, 2 users, 2 requests, 1 worker, a backup and a restore | `AccountsStayDeleted`, `RestoredBucketAgrees`, `JournaledFilesStayDeleted` |
| `restore_undeletes` | 1 file, 1 request, 1 worker | violation of `DeletedFilesStayDeleted` |
| `team_safety` | 2 projects of 1 owner, 2 people to invite, 2 requests, 2 invitations, a trial (1 project, 0 participants) and a paid plan (2, 1) | `OwnerKeepsRole`, `ProjectsWithinPlan`, `MembersWithinPlan`, `InvitesFinal` |
| `components` | login: 1 phone (2 for the limits), 1 client, 2 codes, 2 requests, 3 attempts, time 0..3; sessions: 1 account, 4 rows of 3 tokens, limit 2, 2 requests; live updates: 2 people, 1 project, 2 changes, 2 streams or 2 devices, buffers of 1; transfer: 2 files of 7 sizes, parts of 4 to 10 units of size, at most 3; calendar: every first date of 3 years, 26 months | `OneTimeSpec`, `RateKept`, `DeliveredCodeWorks`; `SessionsBounded`, `TokensExchangedOnce`; `EventsStayInside`, `ChannelsOpenWhileSending`, bounded channels (`RealtimeTypeOK`); `WholeObjects`, `ActiveFilesServed`, `PartsAccepted`; `MonthsAreKept` |
| `push_blocked` | 1 cost item, 2 people, 2 devices | violation of `EveryMemberIsPushed` |

Why the bounds are enough. Every race in the code is between two parties over one row, a third one
only repeats a step; so two requests (and two workers, where workers race) on one or two rows show
each pair. Two invoices and two attempts are what "the second invoice replaces the first" and "the
second attempt is refused" need; two files are what two covers need; the second user is a member
whose uploads live in another's project. Time needs to reach the end of a trial, of an order and of
a period: with lengths of one tick, one or two ticks. In `Team` a limit of one participant is
crossed by the second person, and a limit of two projects by restoring one beside a new one;
`MaxInvites` bounds the invitations ever inserted, and two are what one person can have open twice,
or two people can race with. For a login two codes are what one request can withdraw from another,
three attempts cross a limit of two, and three ticks let a code expire, a cooldown pass and a
window slide. Requests for codes meet the limit of their phone and guesses that of the client, which
two phones share: their requests have only the client's lock in common. In `Sessions` two logins
that cross exceed a limit of two by one, and the fourth row is the one a third login adds; a third
token lets a second refresh go through that holds the token of the first, if nothing stops it. A channel of one event is full after the first change. The sizes of
`ObjectTransfer` are scaled (a mebibyte is 2, a PUT takes 7, a part 4 to 10, usually 6, and an
upload 3 parts): nothing, the largest PUT, the first size above it, sizes whose plan needs a larger
part than usual, the largest object that has a plan and the first size that has none. The years of
`Calendar` are an ordinary one, a leap year and the one before 2100, which is no leap year, and 26
months pass every end of a month twice. Symmetry is used in the runs without liveness, over sets
whose elements no definition tells apart. `CHECK_DEADLOCK FALSE` is set because the instances do
stop: identifiers, ticks and storage paths are finite.

Each property of a passing run is shown to be sensitive to a mistake in the code by a mutant
(`PROJECT.json`).

### Fairness, and why the code justifies it

* `Abort` (Billing) is weakly fair: each statement runs under a context deadline.
* Callbacks and polls are strongly fair: the bank repeats a callback that was not answered with
  success, the billing page polls while its order is open, and neither fails for ever.
  Customers need not check out again; `CheckoutsStop` is the premise of the liveness property,
  because each checkout may make a callback the victim of a deadlock.
* Workers (FileStorage): they poll every five seconds and come back with the API, so the claim
  of an entry that keeps becoming available is strongly fair; the removal's two S3 calls are
  strongly fair, as S3 does not refuse one object every time; a goroutine ends by its timeouts
  (`MarkDeletionComplete`, `RescheduleDeletion` or `Abort` is weakly fair); leases and retry
  delays run out. Requests get no fairness in `FileStorage`: deleted objects must go even when
  every request stops half way.

### What the violations say

Each is a disagreement between a document and the code, listed under "findings":

1. `PaidPeriodAvailable` (OBANK.md): a status request that read a lapsed row expires the account
   after a payment was committed in between; the UPDATE does not look again.
2. `SuccessfulPaymentSettles` (OBANK.md): when two requests create an invoice for one order, the
   second save overwrites the first invoice, and a payment of the first is refused for ever.
3. `DeletedReceiptsAreDetached` (SMOKE_TESTS.md): a receipt deleted between its check and its use
   stays attached.
4. `DeletedFilesStayDeleted` (PRODUCTION.md): a file deletion committed after the dump is undone
   by a restore as long as its tombstone has not been written. For accounts the tombstone comes
   first, and `AccountsStayDeleted` holds.
5. `EveryMemberIsPushed` (notifications.md): the sender stops at the first device token FCM
   refuses, and the devices after it in the list are not notified. No code removes such a token.

Three things the code does not promise and the models show on the way: more people may hold a
pending invitation than there are places (nobody enters beyond the limit: `MembersWithinPlan`);
an account may have more sessions than its limit (`SessionsBounded` says how many); and a code whose
delivery failed, when its row cannot be deleted either, is newer than an accepted code and hides it
from a verification (`DeliveredCodeWorks` is about codes that are withdrawn or deleted).

## 5. Proofs

TLAPS checks these for every value of the constants that satisfies the module's assumption
(`BillingAssumption`, `StorageAssumption`, `TeamAssumption`, `SmsLoginAssumption`,
`SessionsAssumption`, `RealtimeAssumption`, `TransferAssumption`, `CalendarAssumption`). They say
of what sort the constants are; `TeamAssumption` also that people and projects are finitely many,
without which their number could not be compared with a limit, `SessionsAssumption` that requests
are, as the bound on sessions counts them, `StorageAssumption` that files are (`Stamped` counts
them) and that requests and workers are different tasks, `SmsLoginAssumption` how the code's
durations compare, and `TransferAssumption` how its sizes of parts do (whole mebibytes, the minimum
below the usual size below the maximum).

| Theorem | Statement | Argument |
|---|---|---|
| `TypeCorrect`, `RowsConsistent` | `Spec => [](TypeOK /\ Consistent)`, `Spec => []Consistent` | The inductive invariant is the conjunction: types alone are not inductive, because `Activate` writes the offer of the order a request carries, and only `Consistent` says that order exists, that invoices and attempts belong to it, and that what a request is about to activate was approved. `Keeps` (no step forgets a row, an invoice or an approval) carries consistency over; each action then only accounts for the one order and request it changes. |
| `PaidIsApproved` | `Spec => []PaidMeansApproved` | By `Consistent`, an activation carries an approved attempt of its order; attempts and approvals are kept. |
| `OrdersAdvance` | `Spec => OrdersOnlyAdvance` | `NextMoves` classifies how any action moves a row (`RowMoves`); the action property follows from the classification. |
| `AtMostOneOpenOrder` | `Spec => []OneOpenOrder` | Inductive with `Serialised` (two requests never hold one subscription row) and `InsertsIntoNone` (a request about to insert still sees no fresh open order), since only holders of the row insert, and time and every other step only shrink the set of fresh open orders. |
| `BillingImplementsLedger` | `Spec => LedgerSpec` | Initial states map to initial states; an activation maps to `Settle`, an expiry to `Lapse`, a tick to `Pass`, everything else to a stutter. |
| `StorageTypeCorrect` | `Spec => []TypeOK` (`FileStorage`) | `TaskShape` says what a task carries at each step; `TaskMoves`, `EntriesQueued`, `EntriesSet`, `StampsSet` and `RowStored` what the statements do to tasks and rows. |
| `DeletedAccountsLeaveNothing` | `Spec => []AccountLeavesNothing` | Inductive with `LeftGone` (a deleted account is no account): an INSERT needs its account and its project's owner, and no other step gives a row another user or project. |
| `RemovedFilesAreQueued`, `UploadsAreKept` | `Spec => []RemovedObjectsAreQueued`, `Spec => []AcknowledgedUploadsKept` | Inductive invariant `FileInv` with `GoneQueued`. A file is condemned while the outbox or a removal in flight names it. Nothing knows a file before its object is stored (`FreshUnknown`), one upload puts it and one inserts its row (`PutsFresh`, `InsertsNew`), a live file whose upload succeeded is not condemned and has its object (`LiveKept`), and an entry is finished only when the object is gone (`ErasedGone`). Most steps are `Background`: they store nothing and touch condemned files only (`BackgroundKeeps`); what remains are an upload's steps and the statements that remove rows together with queueing their objects (`RowsRemoved`). The property has two halves, archived rows (`ArchivedQueued`, in `FileInv`) and removed ones (`GoneQueued`, beside it), since a restore keeps the first only: the row of a file that was uploaded and removed after the dump is not in it, while the copy may hold its object and the journal not yet its tombstone. |
| `AProjectKeepsACover` | `Spec => []CoverSurvives` | `CoverInv` on top of `FileInv`: an archiving upload compares its own stored cover (`ArchivesOwn`), and the youngest cover of a project is live (`YoungestLives`). A statement archives only covers that have a younger one in their project, so never the youngest; `CoverSurvives` alone is not inductive, as it does not say which cover lives. |
| `RestoreTypeCorrect`, `RestoreKeepsAccountsDeleted` | `RestoreSpec => []RestoreTypeOK`, `RestoreSpec => []AccountsStayDeleted` | `AccountInv`: deleted accounts, and those about to be, are in the journal (`Journaled`), and outside the phases between a disaster and the replay no deleted account exists. Neither a disaster nor a restore writes the account journal. |
| `RestoreLeavesBucketAgreed`, `RestoreKeepsFilesDeleted` | `RestoreSpec => []RestoredBucketAgrees`, `RestoreSpec => []JournaledFilesStayDeleted` | Inductive invariant `RestoreInv`. While the system serves it has `FileInv` and `TombInv`: a tombstone precedes the erasure of its object and never names a live file of an answered upload. `BackupInv` relates the dump and the unfinished copy to the system that goes on: what the dump says of a file concerns a stored one, which from then on only loses its row, its answer cannot come later and its object leaves only with a tombstone (`StoredMoves`), so a live row of an answered upload has its object in the copy or a tombstone. In the restore no task runs (`Resting`), the rows are those of the dump or none (`RowsFromDump`), and what each phase has done to journal, outbox and bucket is a conjunct of its own; the last one gives `FileInv` and `TombInv` back. A restore that fails and starts again needs no case of its own, since nothing but the dump, the copy and the journal is used. |
| `StorageImplementsObjectLife`, `DeletionsAreFinal` | `Spec => LifeSpec`, `Spec => []RemovedStayRemoved` | `LifeInv` adds to `FileInv` and `TombInv` that what was deleted has no insertion pending (`RemovedGone`). One lemma for each action of `ObjectLife` turns a change of the four sets into that action; `QuietLife`, `PutsLive`, `InsertsLive`, `RowsRetired` and `ErasuresLive` classify the steps of the code. That an erased object was not served is `FileInv` (a removal names condemned files only), that a Put draws a new path `FreshUnknown` and `PutsFresh`. |
| `TeamTypeCorrect`, `OneOwner` | `Spec => []TypeOK`, `Spec => []OwnerKeepsRole` | Inductive invariant `TeamInv`: besides the types and who the owner is, no invitation and no request in flight names the owner as the person to add, change or remove (`InvitesToOthers`, `RequestOK`). The handlers check this without a lock, so it must survive every step of the others: projects never disappear and invitations keep their project and phone (`Monotone`). |
| `InvitationsAnsweredOnce` | `Spec => InvitesFinal` | Inductive with `LockInv`: an invitation some request has locked is unanswered, and one request has it locked. `LockFrame` is the argument all steps share. |
| `MembersStayWithinPlan`, `ProjectsStayWithinPlan` | `Spec => MembersWithinPlan`, `Spec => ProjectsWithinPlan` | Inductive with `LimitInv`: a request about to add a member or a project holds the row of the project or the subscription (`Locked`), holds it alone (`Exclusive`), and what it counted is still true (`Counted`: there is a free place under the plan of now). `LimitFrame`: a step adds only where its own request holds the rows, so it leaves the counts of the others as they are, and a plan changes only when nobody holds its row. The counting lemmas turn "at most one more" into the limit. |
| `LoginTypeCorrect`, `LoginImplementsOneTimeCode` | `LoginSpec => []LoginTypeOK`, `LoginSpec => OneTimeSpec` | Inductive invariant `LoginInv`: types, a request past its count knows its phone and its code (`RequestsComplete`), and a code that was exchanged is no longer live (`UsedAreSpent`). A grant maps to `Accept` and a wrong guess to `Reject` because FOR UPDATE saw the row live; a withdrawal, a clean-up and pruning map to `Withdraw` (`WithdrawalRefines`), everything else to a stutter. |
| `LimitsKept` | `LoginSpec => []RateKept` | Inductive with `LocksSeparate` (requests that have counted and not yet inserted share neither phone nor client) and `CountsTrue` (what each of them counted is still below the limit). Time and pruning only shrink a window, and each insertion adds one attempt to what its own request counted. |
| `DeliveredCodesWork` | `LoginSpec => []DeliveredCodeWorks` | No lock orders two deliveries; time does. `WorkInv`: a request at work is not older than `RequestLife` (`DeadlinesHold`), its attempt is still counted (`AttemptsKept`), and as the cooldown is longer than that, no second request for a code of its phone is at work (`OneCodeRequest`). `DeliveryInv`: rows are placed behind all others (`RowsInOrder`), so a request delivers the newest code of its phone (`DeliveriesNewest`), and the codes it withdraws are older than its own. |
| `SessionsTypeCorrect`, `SessionsBelongToAccounts`, `RefreshExchangesOnce` | `SessionsSpec => []SessionsTypeOK`, `SessionsSpec => []SessionsHaveAccounts`, `SessionsSpec => TokensExchangedOnce` | Inductive invariant `SessionInv`: no two requests hold one row (`LocksExclusive`), and a session held for rotation is active and still has the token it was found by (`RotationValid`). So whoever revokes or deletes waits, and a second request with the same token finds it gone. That the active sessions keep one strict order through rotations and revocations is `OrderStays` and `OrderStaysWithLast`. |
| `CreationsKeepTheLimit` | `SessionsSpec => []SessionsBounded` | The bound itself is not inductive: an insertion needs room. `RoomForPending`: of any set of creations of one account that have ranked and not yet inserted, one keeps so few sessions that all of them still fit. A creation that ranks leaves fewer than `MaxActive` sessions (`RankingLeavesRoom`, by an injection of what it leaves into the ranks), and an insertion takes one creation from the set and adds one session. |
| `RealtimeTypeCorrect`, `OnlyMembersHear`, `NoSendOnClosedChannel` | `RealtimeSpec => []RealtimeTypeOK`, `RealtimeSpec => []EventsStayInside`, `RealtimeSpec => []ChannelsOpenWhileSending` | Inductive invariant `RealtimeInv`: present members and the people a change is about to tell are entitled to it (`MembersEntitled`, `TargetsEntitled`), and while a change is sending, the streams left to serve are open ones of those people (`TargetsAddressed`). `ChangeMoves` and `StreamMoves` are the arguments all steps of a change and of a stream share. |
| `TransferTypeCorrect`, `NoPartialObject`, `CutOverLosesNothing`, `PlansAreAccepted` | `TransferSpec => []TransferTypeOK`, `[]WholeObjects`, `[]ActiveFilesServed`, `[]PartsAccepted` | Inductive invariant `TransferInv`: besides the properties, every active file that is not in the run's list any more is whole in the target (`CopiesKept`), so that a finished run has copied everything; the parts sent are full ones in order (`PartsInOrder`), and what was read is what was sent (`ReadInFull`). `EveryLargeFileHasPlan` and `NextPart` are arithmetic: the rounded part never exceeds the maximum, because that is a whole number of mebibytes, and that many parts cover the size. |
| `MonthsKept` | `CalendarSpec => []MonthsAreKept` | `MonthLengths` derives the table of months from the count of days, `NoOverflow` that a clipped day exists in its month, so `time.Date` normalises nothing and one renewal adds exactly its months (`RenewalKeeps`). |

Model-checked only: the two liveness properties, `MatchedPaymentSettles` and `RemovedObjectsGo`;
fairness and ENABLED are beyond the proof system. Every safety property the passing runs check,
the three refinements included, is proved. `RestoreInv` was also checked by TLC on the instance of
`restore_safety`, where it holds in every reachable state.

## 6. What is not modelled, and why

* Data: amounts, currencies, signatures, file types and sizes, names, languages. The code checks
  them within one statement or before the first one.
* The merchant's sandbox switches; deletions with the local storage driver, which has no journal
  and is refused in production; `createFileMetadata`, a development helper; encryption and
  checksums of backups.
* The transaction that creates a project together with its cover: its upload part is that of
  `UploadFile`, with the project's own row taking the place of an existing one.
* A Put that takes effect after its caller has given up *and* after the cleanup removed the
  object: no code of the repository could notice it.
* Of the login: fixed codes of review and staging phones and of development, the column
  `succeeded`, which nothing reads, attempts without a phone number, and how a client's address is
  found behind proxies. Of sessions: access tokens' own expiry and what a client does when the
  answer of a refresh is lost. Of live updates: keep-alives, texts, and publishers that differ in
  the kind of event only. The mobile application treats live updates as best effort and reads the
  REST interface again, so no property asks that an event arrives.
* Of the storage migration: power failures (the directory of a renamed file is not synchronised),
  parts that an upload whose abort failed leaves in the bucket, objects that stay in a store the
  API no longer uses, and an operator who changes the store without a successful run. Of the
  calendar: the time of the day and time zones (the code works in UTC).
* The retry delay of the deletion worker as a number (`RetryDue` is its end), and the component of
  row 11 of the plan, not yet written; configuration, logging, routing,
  website, infrastructure templates and the mobile user interface, which share no state with
  the rest.
