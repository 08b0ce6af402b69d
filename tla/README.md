# Formal model of invoiceme

invoiceme is an invoicing system: a NestJS server over PostgreSQL
(`backend/`), and a Flutter application (`mobile/`) that keeps a copy of the
account on the device, works offline, and synchronises. This directory holds
TLA+ models of the parts where the order of events matters, TLC configurations
that check them on small instances, and proofs checked by TLAPS.

Paths below are relative to the repository. A module is checked with
`tlc -config X.cfg MCModule`, a module of proofs with `tlapm`.

## 1. Inventory

| Part | State | Operations | Why it is hard | What makes it correct |
|---|---|---|---|---|
| **Sync pull** (`backend/src/sync/sync.service.ts` pullByCursor, `sync-pull-cursor.ts`, triggers in `sync-schema.ts`; device: `mobile/lib/core/services/sync_service.dart`, `sync_protocol.dart`) | `change_txid` of every row, tombstones, the device's tables, its cursor | page queries over a snapshot window, apply, store cursor, full resync | transactions commit out of order, pages are separate queries, the app dies between pages, tombstones expire | every committed change reaches a device that keeps pulling |
| **Sync push** (`sync.service.ts` pushChange .. processAttachmentChange) | records with `revision`, `device_changes`, `sync_record_revisions`, `sync_tombstones` | create, update, delete with a base revision; merge, conflict, refuse | changes arrive late, repeated, from several devices and two protocol versions, next to REST writes | nothing is overwritten unseen, each change takes effect once, sent and paid invoices are protected |
| **Conflict resolution** (`sync-conflicts.service.ts`) | `sync_conflicts`, records, totals | apply the device's version, restore, dismiss | acts on a record that moved, was deleted or whose lines changed | totals follow the lines; deleted records come back whole |
| **Sync retention** (`sync-maintenance.service.ts`) | tombstones, history, conflicts | daily deletes by age | runs next to everything | what it forgets no device relies on |
| **Device queue** (`sync_service.dart` queueChange, push, rebase, held rows) | `pending_changes`, `sync_held_rows`, local tables | queue, send, rebase, hold a pulled row, settle, discard | answers lost, app killed between sending and recording, pulled rows meet queued changes | a queued change is neither lost nor applied on a version the user did not see |
| **Invoices and clients over REST** (`invoices.service.ts`, `clients.service.ts`) | clients, invoices, items, number | load, edit, save; archive; duplicate; number; import, export and archive several | load and save are separate; numbers come from a read of the newest | no lost deletes; numbers unique |
| **Payments** (`payments/payments.service.ts`, `payment-state.ts`) | payments, processed events, invoice status | checkout, provider events, refunds, disputes, reopen | webhooks repeat and come out of order, race with checkout and edits | what is recorded equals what the provider reports; an invoice is paid exactly when covered |
| **Overdue job** (`invoice-status.service.ts`) | invoice status | scheduled update | races with payments | never undoes paid |
| **Recurring invoices** (`recurring-invoices.service.ts`) | template, next run date | create the invoice, then save the date | a stop or a failed save between the two | one invoice per period |
| **Account session on the device** (`local_accounts.dart`, `auth_service.dart`, `api_client.dart`) and **tokens** (`auth/auth.service.ts`) | active account, its database, tokens in memory and in secure storage; refresh tokens on the server | sign in, out, check at start-up, renew | requests of the former account still in flight; renewals that race; secure storage is asynchronous | nothing of one account is written to another's database; the stored session is the bound one |
| **Requests around an invoice or client** (`invoices.controller.ts`, `clients.controller.ts`, `pdf.service.ts`, `s3.service.ts`, `email.service.ts`, `audit.service.ts`) | documents, attachments, mail, audit trail | create, send, generate, upload, import, bulk requests | every step takes effect alone, can fail after its effect, and nothing is one transaction | the trail says what took place; a mail links to a current document |
| **Erasure of an account** (`gdpr.service.ts`) | everything of the account | six statements in order | stops half-way, loses an answer, other requests run next to it | a closed account keeps no live row, audit entry, conflict or copy that was there before |
| **Operator tools** (`ops/scrub-payment-secrets.ts`, `ops/verify-restore.ts`) | `payments.metadata_json`, a restored backup | remove secrets in batches; compare a restore with its source | the backend keeps writing rows | no row is missed unnoticed; what is removed is in a verified backup |
| Password reset, second factor, API keys, guards, integrity report, HTTP layer, screens, migrations | | | | see section 7 |

The parts meet in the records: REST, payments, scheduled jobs, pushes and
resolutions all write the same rows; database triggers turn each write into a
revision, a history entry, a tombstone and a transaction id; pulls read those.
A device sees only pages of pulls and answers to its pushes. Payments change
the status of invoices, which decides what a push may change. Sent mail,
documents and the audit trail follow the rows without a common transaction.
`PROJECT.json` lists every part with the modules that model it, and every
hazard with its line and the properties about it.

## 2. Modules and how they fit

| Module | Models | Proofs |
|---|---|---|
| `SyncDelivery` | server transactions, retention, one device's pull, page by page | `DeliverySessionProofs` |
| `SyncServer` | push of both protocols, resolution, REST writers, retention, on the records of an account | `SyncServerProofs` |
| `SyncDevice` | the device's queue, held rows, requests and answers, against a server in outline | `SyncDeviceProofs`, `SyncConvergenceProofs` |
| `ChangeLife` | abstract: what a queued change is promised | implemented by `SyncDevice` |
| `Payments` | checkout, webhooks, refunds, disputes, the owner's edits | `PaymentsProofs` |
| `Invoicing` | numbers of new invoices, the connection pool, the job of recurring invoices | `InvoicingProofs` |
| `Overdue` | the job that marks invoices overdue and notifies owners | `JobsProofs` |
| `InvoiceRequests` | the handlers of invoices and clients, documents, mail, audit trail, erasure | `InvoiceRequestsProofs` |
| `Upkeep` | the removal of payment secrets and the verification of backups | `JobsProofs` |
| `Sessions` | sign-in, sign-out, renewal of tokens, local databases | `DeliverySessionProofs` |

Each `MC...` module gives the constants their values for the runs of the module
it is named after. `SyncDevice` composes the other two sync modules in outline:
its server gives the answers `SyncServer` works out in detail, for records that
are soft-deleted, and its pull is one page of what `SyncDelivery` reads page by
page. `InvoiceRequests` leaves the books to `Payments`, and the row saved by a
request that loaded it earlier is `SyncServer`'s and `Overdue`'s concern.
`JobsProofs` holds the proofs of `Overdue` and of `Upkeep` side by side: the two
share nothing, and the names in `Overdue` are such that both can be extended.
A definition named `Mutant...` is a plausible fault in the definition after it;
`PROJECT.json` says which property finds it.

## 3. The modules in detail

### SyncDelivery: how a committed change reaches a device

One account, one device. State and its counterpart in the code:

| Variable | Code |
|---|---|
| `row[k]` | the committed row of record k (`st`, `par`: its invoice or owner, `val`: its content), its `change_txid` or its tombstone's (`tx`), whether the tombstone is still there (`tomb`) and its `deleted_at` (`at`) |
| `nextXid`, `running` | PostgreSQL transaction ids; `pg_current_snapshot()` is `[xmax |-> nextXid, xip |-> running]` |
| `writes`, `locks` | the uncommitted rows and the row locks of each transaction |
| `local` | the device's tables |
| `cursor`, `pull` | the cursor in `SyncMeta.cursor`; the pull in progress with its window `from`/`upto`, the record type being read and the last key |
| `clock` | days, for retention |
| `forgotten` | history: tombstones pruned while the device had no cursor |

A transaction is `Begin` (it takes its id), one operation (`PutRoot`,
`DeleteRoot`, `RestoreRoot`, `PutItem`, `DeleteItem`, `PutAttachment`,
`DeleteAttachment`, `Touch`), then `Commit` or `Abort`. An operation takes the
row locks the code takes, and its effect includes that of the triggers: a
restore re-marks the children the statement sees (`Family`). A pull is
`BeginPull` (snapshot, retention check), `PullRows` and `PullTombstones` once
per page, `StoreCursor`; or, for an expired cursor, `ClearCache` and
`DropCursor`. `Interrupt` stops it anywhere.

Properties: `Delivered` (the delivery guarantee of `docs/SYNC-CONTRACT.md`
for clients, invoices and items), `EventuallyInSync` (liveness, for every
record, attachments included), and the guarantee of `Delivered` for
attachments, which the code does not give: `AttachmentsDelivered`.
`EventuallyInSync` makes one exception, for an attachment that was `Overlooked`:
it was written under a deleted owner that the writer had read as live, while
another transaction restored the owner without seeing it, which is how
`AttachmentsDelivered` fails (section 5).

Fairness (`DeliveryFairSpec`): every transaction ends (weak; the database has statement
and connection timeouts); the device goes on pulling (weak on `BeginPull`;
the application syncs on a timer, on start and on reconnect); a query that is
issued again and again, because pulls are interrupted again and again, at some
time returns its last page and the pull goes on (strong on the step that
leaves each phase). Nothing is assumed about new transactions or about
interruptions ever stopping, beyond the bound on transactions.

Not modelled: a cursor ahead of a restored database, malformed cursors, the
timestamp pull of protocol 1, rows held back for a queued change (SyncDevice).

### SyncServer: how a change made on a device meets the records as they are

| Variable | Code |
|---|---|
| `rec[k]` | the row (`rev` = `revision`, 0 without a row; `deletedAt`; `data`), its tombstone with `last_state`, its `sync_record_revisions` (`hist`); `stamp` and `changed` are history: when each column and the record last changed |
| `changes`, `conflicts` | `device_changes` (synced, outcome) and `sync_conflicts`, a set |
| `rest` | a REST request between its load and its save |
| `seen` | per record, what the devices last pulled |
| `sent` | changes devices have sent; a change stays in `sent`, so it can arrive any number of times, at any later time |
| `effects` | history: how often processing a change changed a record or added a conflict |

Data is abstracted to what the protocol tells apart: clients have two columns,
invoices a client, a status and a total, items an invoice and an amount. The
status `sent` also stands for `overdue` (both are protected and differ in
nothing else here).

`Send` is queueChange with what the device has seen; `Push` is pushChange with
processRecordChange (`PushVersioned`: `UnseenInvoice`, `PushDelete`,
`PushEdit`, `PushStale`) or processLegacy (`PushLegacy`); one step, because the
code runs it in one transaction under the advisory lock of the record and row
locks on the record and its invoices. `Dismiss`, `ApplyClient`, `RestoreRoot`,
`RestoreItem` are resolutions, also one transaction each; `RestLoad` and
`RestUpdate`/`RestArchive`/`RestReplaceItems` are REST requests, in two steps
as in the code; `SetStatus` is a payment or a reopened invoice; `Prune` is one
of the three statements of the retention job. Every write goes through
`Updated`, `Inserted` or `DeletedRow`, which are the triggers.

A failed change is rolled back to the savepoint and leaves its row in
`device_changes` unsynced (`Failed`); a transient failure rolls back
everything, so it is a step that does not happen.

The records of an instance exist from the start or are created by pushes and
REST as its constants say; clients and invoices that a device creates are in
SyncDevice.

Not modelled: attachments (in SyncDelivery); `change_id_reused`, which a device
cannot cause because it gives every queued change a fresh id; devices without
change ids; the answers a push returns (in SyncDevice), except that a stored
outcome is returned without processing.

Properties: `NoBlindOverwrite` (a push overwrites nothing its device did not
see), `OneEffectPerChange` (late and repeated changes), `ProtectedUntouched`
(a sent or paid invoice, `InvoiceUntouched`, and its lines, `LinesUntouched`,
change by a push only from a device that saw the invoice as it is),
`ResolutionKeepsTotals`, `LiveHasNoTombstone`. Two that the code does not have
are stated next to them: `DeletedStaysDeleted`, `LinesAlwaysUntouched`.

### SyncDevice and ChangeLife: what becomes of a change made offline

| Variable | Code |
|---|---|
| `queue[n]` | the row of `pending_changes`: status, operation, columns, base revision, how often it was renamed (`gen`; its `change_id` is `<<n, gen>>`), what became of its last attempt (`last`), whether it waits for the next one (`waits`) |
| `local`, `held` | the cached tables and `sync_held_rows` |
| `cursor` | `SyncMeta.cursor` |
| `sync` | the synchronisation under way: the phase, the changes of the round, the answers, how many are stored, the page |
| `server`, `requests` | the record rows with their field history; `device_changes` and `sync_conflicts` by `change_id` |
| `net` | changes the device sent and gave up, that the server may still process |
| `clock`, `horizon` | commits so far; what is older than the retention period |

`seen` and `clean` are history: the revision the user had in front of them, and
whether the change was ever answered for something else than the copy at hand,
turned down, or made while a page was applied that then replaced the copy
(`WrittenOver`).

The user acts with `Edit`, `Create`, `Delete` (queueChange), `RetryChange`,
`Discard`; `ForgetConflict` drops a conflict that is settled. A synchronisation
is `Sync`; rounds of `SendRound` (selectPushBatch: the oldest pending change of
each record), `Serve` once per change, `TakeAnswer` once per answer, in order
(`_applyPushPlan`), and `Settle` (planRebases, with the rename of a change
whose attempt failed); then `FullResync` or `Fetch`, `ApplyRow` per record, and
`StoreCursor`. `Timeout` and `Stop` give a request up, `ServeLate` processes it
after all. `OtherEdit`, `Resolve` and `Absence` are the world. On the server,
`Judge` is processRecordChange with its early returns in their order, and
`Verdicts` adds what a failing database or missing reference makes of it.

One device; records that are soft-deleted (items, protected invoices and
protocol 1 are in SyncServer); a pull is one page.

`ChangeLife` is the promise to the user: under each name a change takes effect
at most once, counts as done only after it took effect under its present name,
and what is done stays done. `Life` is the statement that SyncDevice implements
it, with `phase`, `name` and `effects` read off the queue and the requests.

Properties: `Life`; `Converges` (when nothing of a record waits and the cursor
covers it, the copy is the server's row, unless an answer stood for edits it
never had or a page was written over an edit, `Honest`); `EditsOnSeenSurvive` (a change based on what its author saw
overwrites no column somebody else changed since); `EveryChangeSettles`.

Fairness: the application synchronises again and again on its timer (weak on
`Sync`, `Push`, `Pull`: its calls return or time out); the waiting time of a
change runs out (strong on the round that leaves none out); a server that is
asked again and again at some time answers other than "retry later" (strong,
per change).

### Payments: how the provider's events reach the books

One invoice, one currency, small amounts.

| Variable | Code |
|---|---|
| `invoice` | the row in `invoices`: `total`, `status` (`sent` stands for draft and overdue, which payments treat alike) |
| `payments` | its rows in `payments`, oldest first: the intent, the amount, the status, what was refunded or disputed; `closed` is history: a checkout retired it |
| `done` | `payment_events`: the events recorded as processed |
| `handler[h]` | a webhook delivery: the event, and what the code has in its variables (`was`, `loaded`, `paid`: the payment and the invoice as loaded; `money`: the answer of the provider) |
| `checkout[r]` | a transaction of startCheckout: the amount due, the set of attempts still to examine (`queue`), the rows it has updated (`staged`) and so locked |
| `owner` | a request of the owner between its load of the invoice and its save |
| `intents`, `events` | the provider (external): the PaymentIntents with their idempotency keys, the events it sends again until they are answered |

A delivery (handleProviderEvent, updatePaymentStatus, applyRefundState,
applyDisputeState) runs in no transaction, so each statement that reads or
writes shared state is a step: `Deliver`, then `LoadPayment`, `ApplyStatus`,
`Cover`, `MarkPaid`, or `Retrieve`, `WriteMoney`, then `RecordEvent`; `Crash`
ends it anywhere, and the event comes again. A checkout is `CheckoutBegin`, one
step per attempt examined (`Reuse`, `Supersede` then `Cancel`,
`RetireCanceled`), `CreateIntent`, `SaveAttempt`. What it reads under the lock
of the invoice is read in one step; what it writes shows at its commit;
`CheckoutAbort` takes back its rows and leaves what the provider has done.
`Reopen` is reopenInvoice. `OwnerLoad`, `OwnerReads`/`OwnerRepairs` and
`OwnerUpdates` are the REST requests, which hold no lock and save the whole
row. The customer and the provider are `Submit`, `Pay`, `FailTry`, `Refund`,
`Dispute`.

Two reads are merged into one step with what follows or precedes them, where
nothing can tell: the lookup of an event in `payment_events` with the start of
its delivery, and the sum of the payments with its comparison in `Cover`.

Properties: `OnePendingAttempt`, `RetiredIsCanceled`, `PayableIsKnown`,
`CompletedStays`, `LedgerAgrees`; and three the code does not have:
`PayableOnce`, `SuccessIsCounted`, `CoveredIsPaid`.

Not modelled: amounts or currencies that differ from what was asked
(`review_required`), events of unknown payments beyond their being skipped,
disputes about a part of a charge, payments entered by hand.

### Invoicing: numbers and recurring invoices

| Variable | Code |
|---|---|
| `invoices` | the committed rows, in the order of their commits, with type, issue year, sequence number, `created_at` (`born`: the start of the transaction) and the schedule that issued it |
| `worker[w]` | a request of a process, or its job: where it is, what it has read, the list of schedules as loaded (`todo`, `on`) |
| `free[s]` | free connections of the pool of a process |
| `schedules` | rows of `recurring_invoices` |
| `ran`, `today` | the last midnight each scheduler has seen, the business date |

`orderly` and `refused` are history. A creation (`Create`, `Duplicate`,
`Convert`, and `Issue` of the job) takes a connection and begins a transaction;
`ReadNumber` looks up the newest invoice on *another* connection
(generateInvoiceNumber has no transaction manager), so it sees what is committed
and waits while the pool is empty; `Commit` or `Refuse` (the unique index)
ends it, and `Reread` is the read of the new invoice for the answer. The job is
`StartJob`, per schedule `Deactivate` or `Issue` and `Advance`, and `EndJob`.
Each of these can fail (`CreateFails`, `RereadFails`, `DeactivateFails`,
`AdvanceFails`), after its effect or without it; the job catches the error and
goes on to the next schedule. `Archive`, `NewDay`, and `Stop` of a process are
the rest. The bound `MaxStops` counts failures and stops together.

Properties: `OrderlyNumbers` (while creations do not overlap and issue years do
not go back, numbers run from 1 without gaps and none is refused),
`NeverAfterEnd`, `EveryInvoiceCounted` (for one process: invoices a schedule
issued and did not count are at most one per stop or failed read or save),
`EveryCreationEnds`. False
and stated: `OnePerDate`.

Fairness: every worker goes on (weak on `Work(w)`): a request that has begun is
not suspended. With no more connections than workers `EveryCreationEnds` is
false: creations that hold every connection wait for a second one each.

### Overdue: marks and notices

`job[s]` is the run of markOverdueInvoices in process `s`: `Mark` (one
transaction under the advisory lock: the update of lapsed invoices and the
marker of the first run in `system_state`), `Reload` (the invoices it marked,
read again by id, whatever has become of them; of a first run without its
backlog unless opted in), `Notify`
per invoice, `EndRun`. `LoadInvoice` and `SaveInvoice` are requests of owners,
which save the whole row as loaded, so an invoice can be marked more than once. A process can
stop, and the opt-in change with it. `marks`, `notices` and `backlog` are
history.

Properties: `OneNoticePerMark`, `BacklogStaysSilent`. False and stated:
`NotifiedAtMostOnce`.

### InvoiceRequests: what the handlers do around a row

| Variable | Code |
|---|---|
| `rows`, `settings`, `attachments`, `trail` | `invoices` and `clients` (with a version), `user_settings`, attachment rows, `audit_logs` (what became of the entry of each request) |
| `store` | the object store: per invoice the version of the document, and files |
| `held`, `account` | what else is kept of the account; whether it can sign in |
| `schema` | whether the tables come from the migrations or from TypeORM: `audit_logs.resource_id` is a UUID in one of them |
| `request[n]` | the requests in the order of arrival: the operation, the records left to do, the version loaded, the browser, the tries of a mail |

`Begin` starts a request of any kind (create, import, view, update, delete,
bulk archive, send, generate PDF, upload, CSV export, delete data, reopen, and
the requests about clients); every statement, rendering, upload or mail is a
step of its own that can fail, with its effect or without it: `CreateRow`,
`Load`, `Save`, `ReopenRow`, `ReadSettings`, `MakeSettings`, `Launch`, `Render`,
`Close`, `Put`, `PutFails`, `Attach`, `Mail`, `TellOwner`, `Log`, `LogFails`.
What a save tells its request is `Told`: of a row that was stored it may not
learn, of one that was not it is never told otherwise, because every save is
awaited. Clients of a file are stored by one save (`CreateClients`) and several
are archived by one statement (`ArchiveClients`); requests about one client
leave no audit entry (`Silent`). `Erase` is one statement of deleteUserData,
six in order, followed by its `Answer`; `EraseFails` is one that reports an
error, having been executed or not, the last one, which closes the account,
too. `Stop` ends every request.

Properties: `Accounted` (audit trail and answers against effects),
`LinkedDocumentCurrent` (a mail's document never gets older than what was
mailed, unless another was in the making), `ErasureLeavesNothing` (a closed
account had an erasure that executed all its statements, and has no live client
or invoice row, audit entry, conflict or copy for a restore of before that;
attachment rows, files, documents and settings stay). False and stated:
`BulkIsAnswered`, `FilesErased`.

### Upkeep: secret removal and backup verification

The backend loads a payment and writes its metadata back later (`Load`,
`Save`/`Hold`, `Commit`, `Undo`). `verify-restore` is `Restore`,
`OtherSessions` (is anybody else connected?), `SnapshotSource`, `Compare`. The
removal is `Start`, `Survey`, per batch `SelectBatch` (the first rows by id
with a secret, skipping those others have locked), `UpdateBatch`, then `Count`
and `Exit`; `StopScrub` interrupts it and undoes the batch. `last`, `removed`,
`kept` and `touched` are history.

Properties: `NothingMissed`, `WritesSurvive`, `RemovedIsRecoverable`,
`RemovalEnds`. Fairness: a started tool goes on (weak on `Scrub`); nothing is
assumed about the backend, which may keep a row for ever.

### Sessions: one device, several accounts

| Variable | Code |
|---|---|
| `mem` | in memory: the bound account, the access token, the open database |
| `store` | secure storage: both tokens, `token_user_id`; and `user_data` |
| `rows` | per local database, the accounts whose data was written to it |
| `todo`, `prog` | transitions asked for, which run one at a time, and the steps left of the first |
| `call` | calls to the server, the probe of the start-up check among them |
| `fifo` | who waits for secure storage, in order |
| `issued`, `live` | the pairs of tokens, and which have a row in `refresh_tokens` |

Transitions (`SignIn`, `SignOut`, the check after `Stop`) run through `Run`,
`Writes`, `Close`, `ForgetUser`, `Bind`, `Open`, `ReadSession`, `Probed`.
Meanwhile calls go on: `Send`, `Answered`, `Write` (a synchronisation writes
the answer to its database), `Lost`, `Denied`, and the renewal `LookUp`,
`Find`, `Exchange`, `Unanswered`, `Accept`, `Fail`, `Keep`, `Drop`. A call that
outlives its session is marked (`over`), and one of another database generation
too (`stopped`).

Properties: `OwnToken`, `OwnRows`, `StoredAgrees`, `EveryTransitionEnds`. False
and stated: `RefreshTokenKept`. Fairness: transitions go on, and calls are
answered, fail or time out (weak on `Transition` and on `Proceed(r)`).

## 4. Runs

| Run | Instance | Properties | What it shows | States, time |
|---|---|---|---|---|
| `Delivery` | two invoices, an item; 2 transactions, 1 tick, retention 0 | `DeliveryTypeOK`, `Delivered` | every cursor the device stores covers what it holds, through late commits, restores, moves, interrupted pulls and resyncs | 0.82 M, 35 s |
| `DeliveryLive` | a client and its attachment; 2 transactions, 1 tick, retention 0 | `EventuallyInSync` | a device that keeps pulling gets in sync, with the client and with the attachment, through interruptions and resyncs | 92 k, 2.5 min |
| `ServerWriters` | a client, an invoice and its line; 1 change of either sent any number of times, both protocols, 2 columns, retention | `TypeOK`, `OneEffectPerChange`, `LiveHasNoTombstone`, `ProtectedUntouched`, `NoBlindOverwrite` | every writer of an invoice and its lines | 1.14 M, 1.5 min |
| `ServerItems` | two invoices, one item; 2 changes of it, both protocols | `ResolutionKeepsTotals` | an item that moves while invoices are paid and its conflicts resolved | 1.36 M, 2.5 min |
| `Checkout` | 2 deliveries and 2 checkouts at a time; 2 totals, 2 intents, 2 events, 1 failed try, 2 edits | `TypeOK`, `OnePendingAttempt`, `RetiredIsCanceled`, `PayableIsKnown`, `CompletedStays` | checkouts next to webhooks, edits and a customer | 1.49 M, 2 min |
| `Ledger` | 1 delivery at a time, in any order; 2 intents, 4 events | `LedgerAgrees` | the books end as the provider holds them, however deliveries are cut short | 0.44 M, 25 s |
| `Device` | a record with one column of two values; 2 changes, 2 events of the world | `TypeOK`, `Converges`, `EditsOnSeenSurvive`, `Life`, `EveryChangeSettles` | the queue against a server that answers late, twice or not at all; SyncDevice implements ChangeLife | 246 k, 2.5 min |
| `Invoicing` | one process, a request and the job on 3 connections; a schedule, 2 days, 2 years, 3 creations, 1 stop or failure | `TypeOK`, `OrderlyNumbers`, `NeverAfterEnd`, `EveryInvoiceCounted`, `EveryCreationEnds` | numbers and recurring invoices over a new year, and a stop or a failed read or save | 382 k, 1.5 min |
| `Overdue` | 2 processes, 1 request at a time, 2 invoices; 3 days, 2 requests, 1 stop | `OneNoticePerMark`, `BacklogStaysSilent` | notices against marks, first run and opt-in | 1.79 M, 1 min |
| `Sessions` | 2 accounts, 1 call next to the probe; 3 pairs of tokens, 1 stop | `OwnToken`, `OwnRows`, `StoredAgrees`, `EveryTransitionEnds` | a call that outlives its session, renewed or not | 595 k, 1.7 min |
| `Upkeep` | payments 1, 2, 3 in batches of one, 1 writer; 1 write, 1 stop | `TypeOK`, `NothingMissed`, `WritesSurvive`, `RemovedIsRecoverable`, `RemovalEnds` | removal and verification next to the backend | 1.24 M, 1.3 min |
| `Requests` | 2 requests of any kind on 2 invoices and a client, 2 tries of a mail, 1 stop | `TypeOK`, `Accounted`, `LinkedDocumentCurrent`, `ErasureLeavesNothing` | effects, trail, documents and erasure when any step fails | 1.60 M, 1.5 min |

Bounds. Two transactions are enough for the commit-order hazard (one takes its
id first and commits last), and for a delete followed by a restore; a page may
end after any record, so two records of a type are enough for a page boundary
inside a type. One tick with a retention of zero lets a cursor expire and a
tombstone be pruned. The two runs share the record types: `Delivery` has what
moves between parents, `DeliveryLive` an attachment, which is re-marked with its
client; an attachment is `Overlooked` only when a delete, a restore and a write
of it meet, which takes three transactions, so in `DeliveryLive` the exception
does not arise and both records must get in sync. In SyncServer one change that arrives any number of times meets every
other writer in `ServerWriters` (two columns, for an overlap and for its
absence), and in `ServerItems` two changes can be stale with respect to each
other, with two invoices for a move. In Payments two totals make the amount due
change under an open attempt, two intents let one replace another, two
deliveries and two requests are enough for each pairwise race; `Checkout` has
two events, enough for a failed try or a cancellation to meet a success, and
`Ledger` four, enough for a payment with a refund that grows and a dispute. In
SyncDevice two changes of one record give the order of rounds and the rebase,
and two events let an edit of somebody else meet a lost answer or an absence;
whether columns overlap is decided in SyncServer with two columns. In Invoicing
three creations are two numbers and the next one, on two days and in two years;
three connections are one more than the workers can hold while they wait. In
Overdue the third day is the first on which a lapsed invoice can be historical,
next to one that is not; two requests undo a mark and meet its second notice. In Sessions three
pairs are two sign-ins and a renewal. In Upkeep batches of one with three rows
have two page boundaries, and the row skipped may be the first, the last or the
one between. In InvoiceRequests two requests are enough for every pair of
operations to overlap; several invoices are imported and archived one by one,
several clients by one step, for which one client is enough. `Requests` begins
without a settings row and with documents of an earlier version, so that both
can be made and replaced. It has the tables TypeORM makes: with those of the
migrations fewer entries of the trail can be written, and what can happen is
among what can happen here. What is bounded is named in the CONSTANTS of each
module; the proofs have none of these bounds (section 6).

Deadlock is checked for SyncDelivery and off elsewhere, where the bounded
counters let a run come to its end.

## 5. Where the code departs from its documents

Each of these is stated in its module and false for the code; add the name to
the cfg of the module to see a run that shows it.

- `AttachmentsDelivered` (SyncDelivery). processAttachmentChange
  (`sync.service.ts:1142`) checks that the owner is not deleted, without
  locking it. An attachment written while its owner is deleted and restored by
  others can end behind the cursor without having been delivered, against
  `docs/SYNC-CONTRACT.md:152-155,177`.
- `DeletedStaysDeleted` (SyncServer). A REST update of a client writes back the
  deletion mark it loaded (`clients.service.ts:136`), so it undoes a delete
  committed in between; `docs/SYNC-CONTRACT.md:220,703-704`.
- `LinesAlwaysUntouched` (SyncServer). A restored item has revision 1 again
  (`sync-conflicts.service.ts:329`), so a change based on the former revision 1
  passes for current, in an invoice sent since; `docs/SYNC-CONTRACT.md:83-90`.
  `ProtectedUntouched` names the exception, `Restarted`.
- `PayableOnce` (Payments). A failed try marks the payment FAILED, though its
  intent can still be paid; the next checkout looks at PENDING attempts only
  (`payments.service.ts:472`) and hands out a second intent;
  `docs/PAYMENTS.md:104`.
- `SuccessIsCounted` (Payments). The conditional update of a success that meets
  the failure of an earlier try matches no row (`payments.service.ts:194`); it
  is taken for a duplicate and recorded as processed; `docs/PAYMENTS.md:56`.
- `CoveredIsPaid` (Payments). A delivery that stops after completing the
  payment is repeated, and the repetition returns before it looks at the
  invoice (`payments.service.ts:200`). The next read of the invoice over REST
  repairs it.
- `OnePerDate` (Invoicing). Two processes each run the job of recurring
  invoices, and nothing keeps both from issuing the same one.
- `HeldRowReachesDevice` and `NoUnseenOverwrite` (SyncDevice). An answer
  "applied" for a change that was already there, and a merge, give the local
  row a revision whose other edits it never had: the copy then passes for
  current, a later page or held row of that revision is not written over it,
  and a later change is based on what its author did not see. And `_applyPull`
  reads which records have a queued change once (`sync_service.dart:487`): an
  edit made while the page is applied is in the queue, but the page's row
  replaces the edited copy. If the edit then merges, the revision stored with
  the answer is that of a copy that lacks it. A record with two columns and
  four changes shows it. `Converges` and `EditsOnSeenSurvive` name the cases.
- `NotifiedAtMostOnce` (Overdue). A save of a row loaded before the mark undoes
  the mark, and the next run marks and notifies again.
- `RefreshTokenKept` (Sessions). The steps of a late renewal and of a sign-in
  on secure storage interleave, and can leave a session without its refresh
  token.
- `BulkIsAnswered` (InvoiceRequests). `audit_logs.resource_id` is UUID NOT NULL
  (migration 010), but bulk requests and exports log `'bulk'` or `'all'`
  (`invoices.controller.ts:904,944,983`, `clients.controller.ts:186,248,283`):
  the work is done and the request answered with an error.
- `FilesErased` (InvoiceRequests). The erasure leaves attachment rows, objects
  in S3, settings and sessions; `ErasureLeavesNothing` does not speak of them.
- The address mailed or returned for a document (`invoices.controller.ts:365,
  628`) is the bare key of the object, although `s3.service.ts:89` says to use
  getSignedUrl.

Seen while modelling and not run:

- an item that moves to an invoice that is then deleted stays on a device that
  saw it under its former invoice;
- a restored item has revision 1 again, so a change based on a later one is
  refused;
- a first pull interrupted and resumed after the retention period keeps deleted
  records (there is no cursor whose age could be compared; the model follows
  them in `forgotten`);
- the retention job removes the last state of a deleted item while an open
  conflict offers to restore it;
- the resend of a delete that left a conflict is answered `duplicate` without
  the conflict id;
- `_pullChanges` never asks for the full pull that `docs/SYNC-CONTRACT.md:567`
  promises after a rejected change (`fullPullNeeded: false`,
  `sync_service.dart:415`);
- of two deliveries of refunds or disputes at a time, the one that asked the
  provider first can write last; `LedgerAgrees` is therefore checked for
  deliveries that do not overlap;
- markInvoicePaidIfCovered compares with the total as it was loaded before the
  payment was completed;
- reading a covered invoice saves the whole row as it was loaded, and can undo
  an edit committed in between.


## 6. Proofs

All theorems hold for every value of the constants that satisfies the named
assumptions of the module: any number of records, changes, transactions,
requests, days and stops, finite or, where no assumption says otherwise,
infinite. Every safety theorem goes the same way: an inductive invariant is
shown to hold initially and to be preserved by every action, the property
follows from it, and one step of temporal logic (PTL) concludes. What is
interesting is why the property alone is not inductive.

### SyncDelivery

`DeliverySessionProofs` proves, for every finite or infinite set of record ids and
every bound (assumptions `KeysAssumption`, `BoundsAssumption`):

- `DeliveryTypeCorrect`: `DeliverySpec => []DeliveryTypeOK`;
- `DeliveryGuarantee`: `DeliverySpec => []Delivered`.

`Delivered` alone is not inductive: it speaks of the stored cursor only, and a
pull in progress has to establish it page by page while rows change under it.
The inductive invariant `DeliveryInv` adds

- `RowsInv`: a committed row carries the id of a transaction that has ended,
  and a live item belongs to an invoice that exists;
- `SnapshotsInv`: neither the stored cursor nor the window of the pull sees a
  transaction that is running or yet to come;
- `WritesInv`: a transaction's writes carry its own id and are made under row
  locks no other transaction holds; an item stays under its invoice or goes to
  a locked one; a restore of an invoice re-marks every live item of it. This is
  what makes `Commit` safe: what a write was based on has not changed;
- `PullInv`: every record whose last change the window's `upto` sees, and which
  the cursor covers or the pull's position has passed, is on the device as the
  server has it; one whose tombstone was passed is gone from it;
- `RetentionInv`: a delete the cursor does not cover is no older than the
  cursor, so its tombstone is pruned only when the cursor has expired too.

`OperationIsStage` reduces the operations of a transaction to one form (staged
writes that are sound); then each action is shown to preserve each part, and
the temporal step is one use of PTL.

### SyncServer

`TypeCorrect`, `OneEffect`, `RestoredIsNotDeleted`, `ProtectionGuarantee` (from
`SeenInvoiceOnly` and `SeenLinesOnly`), `UnseenIsKept` and `TotalsFollowLines`
prove the five properties of `ServerWriters` and the one of `ServerItems`
(assumptions `RecordsAssumption`, `BoundsAssumption`). An action property such
as `NoBlindOverwrite` depends on what is true of the message when it arrives:

- `RowsInv`: every row is one the triggers can have left (`Row`): its history
  has an entry for each revision or a gap at its start, its time stamps are in
  step with it, a tombstone goes with a deletion;
- `SeenInv`, `SentInv`: of a version a device saw (`Since`), equal revisions mean
  that nothing changed since, and a later change is in the history or the
  history has a gap; a sent change names a version of that kind, also of the
  invoice of an item (`SawParent`). An item counts from 1 again after a
  restore, so of items only `Kept` holds: where it was, unless it changed;
- `OutcomesInv`: an effect has its outcome stored;
- `ConflictsInv`, `RestInv`: a conflict proposes columns of its record, a request
  holds a whole record.

`NewRows` says of any step that leaves rows of that kind that all of this still
holds, so that each writer is looked at once (`PushForms`, `ResolveForm`). A
total is a fold over the lines; that it stays in its type is an induction on
the least size of a set that would break it (`Least`), because an induction
theorem with an operator as parameter is out of the provers' reach.

### SyncDevice

`TypeCorrect`, `SeenEditsSurvive` and `Refinement` (`Spec => Life`: SyncDevice
implements ChangeLife); assumptions `ValuesAssumption`, `BoundsAssumption`. The
invariant `Inv` is

- `ServerInv`: every row has a history entry per revision, and every entry of
  the device's satisfies `EditsOnSeenSurvive` (`Survives`); a request has
  written once if it took effect and never before (`IsReq`);
- `DeviceInv`: queue, tables and held rows are of revisions the server had;
- `SyncInv`, `SentInv`: a round is answered in order; what was answered took
  effect under the name it was sent with, and waits under that name until the
  answer is taken;
- `NetInv`: requests given up, and what the server knows, are of queued changes
  under a name they have or had;
- `GenInv`: a change is renamed at most once for each change that is settled for
  good, which is why the names `0..MaxChanges` suffice.

`JudgeOK` goes through the early returns of processRecordChange: a verdict that
writes is allowed by what its author saw, one that is stored was not stored
before. For the refinement, QueueChange is `Queue`; TakeAnswer is `Settle`,
`Refuse` or a stutter; `Settle` (the rebase) is `Rename`; `Serve` and
`ServeLate` are `TakeEffect` or a stutter; `ForgetConflict`, `RetryChange`,
`Discard` are `Forget`, `Retry`, `Discard`; everything else leaves the three
variables of ChangeLife alone.

`SyncConvergenceProofs` proves `CopiesConverge` (`Spec => []Converges`), with
`ColumnsAssumption` (a record has a column) besides. `Converges` speaks of a
device at rest; the invariant `Kept` says what holds on the way there, when a
copy is not the server's row but will become it. Of all records:

- `Shapes`, `Orders`: rows have all columns or none; changes are used in their
  order, and a batch has one of each record;
- `Copies`, `Pages`: a held row or a row of the page of the present revision is
  the record; nothing the device has is as new as a deletion;
- `Outcomes`: what the device takes for done or in conflict, the server stored
  so.

And of each record of which nothing has happened yet that `Honest` excludes
(`Promising`, which unlike `Honest` speaks of changes that still wait):

- `SentOnes`, `Bases`: only the oldest waiting change was ever sent, with the
  base it still has; a change based on the present revision was made on a copy
  of it, so that its being applied gives the record the copy has;
- `Answers`: no answer to come is older than the copy, and none that was taken
  is newer;
- `Copied`: a copy of the present revision, or of one whose answer is on its
  way, is the record with the waiting changes laid over it, column by column,
  the newest on top;
- `Covers`: what the cursor or the page at hand covers is on the device or in
  its held rows, and what was deleted since the horizon is in neither.

The server's steps leave a record as it is or give it one revision more
(`ServerStep`, `ServerKept`); the device's steps that touch no row and no
change of the record keep all of it (`Undisturbed`, `Elsewhere`); what is left are
the steps of one record: the user's changes, a round sent, an answer taken, a
rebase, a row of the page, each with a lemma `...Kept`.

### Payments

`TypeCorrect`, `OneAttempt`, `RetirementIsFinal`, `NothingUnknownIsPayable`,
`CompletionGuarantee` and `LedgerGuarantee` prove the six properties of
`Checkout` and `Ledger` (`ConstantsAssumption`). `Inv` adds `BoundsInv` (which
events can be where in a delivery), `KeysInv` (an intent and its row name each
other, through the idempotency key), `CheckoutInv` (one checkout holds the
lock, and what it has in its variables is so: `Sound`) and `RowsInv` (completed
rows are of successful intents, an intent without a row is as it was made, and
events are about intents with a row). That a checkout that fails after it made
an intent does no harm rests on `KeysInv`: the next one makes it under the same
key.

`LedgerGuarantee` has a hypothesis, that deliveries do not overlap
(`\A g, h \in Handlers : g = h`), under which the property is claimed; section 5
says what overlapping ones do. Its invariant `LedgerInv` says for each payment
that its amounts agree or an event that tells of the difference is still to be
answered and not on its way with old news (`Told`, `Fresh`), and that a
delivery about to write old amounts is followed by another (`Stale`).

### Overdue

`NoticeGuarantee` and `SilenceGuarantee` (`OverdueAssumption`). The silence of
the backlog needs `SilentInv`, which counts the notices still to come of a
run: one that has reloaded, and of the first run also one that has not, for a
run that is not the first one never has a row of the backlog unless it was
marked again (`FirstRunInv`).

### Upkeep

`TypeCorrect`, `NothingIsMissed`, `WritesGuarantee`, `RecoveryGuarantee`
(`UpkeepAssumption`). What is removed is in a verified backup because all
secrets are, while a removal may run (`AllowedInv`); a verification establishes
that although the backend wrote since its snapshot (`VerifiedInv`), because
what the backend writes back was a secret of this row before, or was removed
(`CopiesInv`). That no row is missed rests on the locks (`HoldersInv`), on what
the removal has gone past (`PassedInv`), and on a lemma about pages by id
(`FullBatch`).

### InvoiceRequests

`TypeCorrect`, `TrailGuarantee`, `DocumentGuarantee`, `ErasureGuarantee`
(`RequestsAssumption`). `FlowInv` says for each request what it has done when
it is at a step, `RowsInv` that versions only grow and rows stay,
`DocumentsInv` which requests can still store an older document, and
`ErasureInv` what an erasure has removed after each of its statements
(`LeftBehind`) and that nothing that was there before can come back: it says so
of every erasure that got that far, answered, failed or stopped, because an
account can be closed by one that never learns of it. Steps are shown to be of two forms
(`DataStep`, `Moves`) first.

### Invoicing

`EndGuarantee`, `TypeCorrect`, `NumbersGuarantee` and `CountGuarantee` prove the
four invariants of the run (`InvoicingAssumption`), for any number of
processes, request slots, connections, schedules and days.

- `WorkersInv`, for `NeverAfterEnd`: what a job loaded agrees with the row on
  the end date, which no save changes, and what it is issuing had not ended on
  the date of the job.
- `PoolInv` and `CountInv`, for the types: the free connections of a process and
  its open creations add up to the pool; the rows and the open creations are no
  more than have begun.
- `Order`, for `OrderlyNumbers`: while creations follow each other at most one is
  open, it was begun after every row, and the rows are in the order in which
  they were begun, with years that do not go back within a type. Then the
  newest row of a type, which is all the lookup sees, is the last one and has
  the highest number of its year (`NextIsFree`), and a refusal is impossible
  (`OrderRefuse`). The theorem is about a number format with the year that ends
  in the sequence, as the default `INV-{YYYY}-{####}` is
  (`invoice-number-formatter.service.ts:10-11`): a format without the year
  starts again at 1 in a new year and is refused, and one that ends otherwise
  always gives 1.
- `GInv`, for `EveryInvoiceCounted`: the schedules a job holds are as their rows
  are and different from each other (`Tidy`), and what a row has not counted is
  what stops and failed reads and saves took away, or is about to be counted
  (`CountedInv`). The hypothesis `OneServer` is the property's: two jobs load
  the same row, and the later save takes a count of the other back.

The greatest `created_at` and the greatest index exist because a set of numbers
that is not empty has a least member (`Least`, by the library's WFMin, which
takes a relation and no operator).

### Sessions

`TypeCorrect`, `CallsCarryOwnToken`, `DatabasesHoldOwnRows` and
`StoreAgreesAtRest` prove the type invariant and the three invariants of the run
(`SessionsAssumption`: besides the bounds, 0 stands for no account, and calls
are named otherwise than the application and its probe), for any number of
accounts, calls in progress, tokens and stops. None of the three is inductive:
a property of the memory depends on what secure storage will hand over at the
next start, and that on the order of writes that are still queued.

- `ProgInv`, `TodoInv`, `FifoInv`: the steps left are the end of a transition's
  list; a check comes first, and before it has read the device knows nothing;
  the queue of secure storage lists exactly those who are at a step that needs
  it, each once (`Lists`, with `Pushed` and `Popped` for what joins and leaves).
- `BoundInv`: no session is bound while one ends or begins, a token without a
  session is the one a sign-in is storing, and an open database outlives its
  session only up to `Close`.
- `DatabaseInv`, for `OwnRows`: a call whose database generation is the present
  one works on the open database, with a token of its account.
- `DrainInv`, for `StoredAgrees`: a renewal accepted before its session ended
  still writes both its tokens behind that session's back. The transition
  removes the access token twice because of it: whoever is about to write the
  access token is in the queue before the first removal, and so in the queue with
  the refresh token before the second, after which the refresh token is removed.
- `StoreInv`: what is stored for a user is that user's, and while the tokens of
  the next one are written no user is stored; a start that finds the store half
  written therefore ends the session (`Matches`).
- `AccessInv`: the access token stored is the one in memory, or a renewal that
  writes it is the last in the queue (`LastSet`), unless a call has given up and a
  sign-out is due (`Debt`).

A step is looked at by what it does to the call it concerns, the queue and the
store, so that each conjunct is proved once for a whole group of steps.

### Only model-checked

Liveness, with its fairness: `EventuallyInSync`, `EveryChangeSettles`,
`EveryCreationEnds`, `EveryTransitionEnds`, `RemovalEnds`. TLAPS has neither
ENABLED nor the rules for fairness. Every invariant and action property the
runs check is proved, and so is the refinement.

What a recursive definition computes for every input is not proved anywhere;
no module that is proved about has one, and folds are only bounded.

## 7. Not modelled

- Sync: the timestamp pull of protocol 1, a cursor ahead of a restored database,
  malformed cursors, pushed invoices that bring their own number,
  `change_id_reused` on the server with a device that reuses ids.
- Device: several updates of the local database that follow each other without
  a call in between are one step; the migration of the store of an earlier
  release; removing an account's local data.
- Accounts: password reset, backup codes, TOTP, profile, API keys and guards.
- Invoices: month arithmetic and time zones of schedules, edits of schedules by
  the owner, attachment keys that collide within a millisecond, SMTP not
  configured outside production, templates.
- Payments: amounts or currencies other than what was asked (`review_required`).
- Tools: the integrity report and verify-files, which only read.
- HTTP layer, screens, migrations, deployment: no protocol of their own.

`PROJECT.json` gives the reason for every part under "components".
