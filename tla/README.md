# Verification of the taker admin backend

`taker-backend-admin` is the NestJS backend of the administrators of Taker, a
shoe-care marketplace (customers, shoemakers, trips, wallets). It also answers
the payment notifications of the VNPAY gateway and sends the scheduled push
notifications. It runs as a cluster of workers (`src/src/cluster.ts`) over one
MySQL master with a replica (`src/src/config/typeorm.ts`), redis and Bull
queues. This directory holds TLA+ models of its core, TLC runs and proofs.

Paths below are relative to the repository (`src/` is its root here).

## 1. Inventory

What every component shares:

- **Workers.** Several processes, each an event loop: between two `await`s
  nothing else runs in the worker, at an `await` anything may. A worker that
  dies is replaced; its requests are gone (`cluster.ts:18-22`).
- **Calls nobody awaits.** There is no handler for unhandled rejections, and
  Node 18 (`Dockerfile:2`) ends the process for one: when such a call fails,
  everything its worker was doing ends with it.
- **Replication.** With TypeORM's replication settings, reads through a
  repository or a query builder go to the *slave*; `save`, `insert`, `update`,
  `delete`, raw queries and transactions go to the *master*. Every check
  followed by a write (the pattern of almost all services, and of
  `base.abstract.repository.ts:61-105`) therefore checks a possibly stale copy.
- **Nothing is versioned or locked**, except the wallet row in `updateWallet`.

| component | state | operations | what is hard | what makes it correct |
|---|---|---|---|---|
| Payment notifications (`modules/payment`) | `transactions.status`, `trips.paymentStatus`, `wallets.balance`, `notifications` | `paymentIpn`, `updateTransaction`, `updateTrip`, `updateWallet`, `returnUrl` | repeated and overlapping notifications, lost answers, stale reads, crashes between the status and the wallet, swallowed errors, a second connection taken inside a transaction | credited at most once, credited if paid, never credited if not, no lost update of a balance, no answer before the row is written |
| Withdrawals (`modules/withdrawals`) | `transactions.status` | `updateStatus` | it does not look at the type or the status it overwrites | does not credit, does not undo a payment |
| Wallets (`modules/wallets`) | `wallets.balance` | `updateWallet` (stored procedure) | concurrent with top-ups | corrections and top-ups add up |
| Transaction log (`payment/listeners`) | append-only table | `handleLogListener` | none | - |
| System notifications (`modules/notifications`) | `system_notifications`, a Bull job per row, `notifications` | `create`, `update`, `delete`, `sendNotification` | row and job are two stores changed one after the other; delayed jobs, stalled jobs, lag | the job that runs sends what the row says; what is created is sent |
| Daily notifications (`modules/crons`) | Bull jobs, `notifications` | four cron handlers, three consumers | one cron per worker, pages by offset over a changing table, a failing page, a job that is handed out again | nobody is skipped or told twice but by those who come and go; the job ends |
| Vouchers (`modules/voucher`) | `vouchers`, `customer_vouchers` | `create`, `update`, `remove` | grants and revocations nobody awaits | a global voucher is held by all, a private one by none, once each |
| Blog, categories, products, services, options, bonus points (`modules/blog*`, `point-product`, `services`, `options`, `bonus_points`) | one row per slug, name, key or owner; `order`; `isPromotion` | `create`, `update`, `remove`, find-or-create, upsert | check-then-act over the replica, count-then-insert, moves of orders, two statements for one promotion | unique keys, orders without gaps, one promoted blog |
| Authentication (`modules/authentication`) | `admins`, a redis token set | `onModuleInit`, `create`, `login`, `updateInfo` | every worker seeds the first administrator; two stores, an add nobody awaits | one row per name; the set holds the administrators' tokens |
| Customers, shoemakers | profile, password, status | `updateInfo`, `update`, `resetPassword` | SMS errors swallowed, approval decided on a stale row | the password in the row is one the owner was sent; told once for each approval |
| Migrations and entities (`migrations`, `entities`, `config/typeorm.ts`) | the schema, the table of migrations | `up`, `down`, the runner of every worker | all workers migrate at once, MySQL commits each statement, a crash in between | recorded means applied; the schema is the one the entities declare |
| Socket client (`modules/socket`) | timers | `sendMessageToRoom` | retries for ever | - |
| Trips, dashboard, export, search, upload, sheets | none of their own | lists, sums, files | joins by position, local dates as UTC | right sums |

## 2. The modules

| part | modules | theorems |
|---|---|---|
| payments, withdrawals, wallets | `PaymentIpn`, against the abstract `WalletLedger` | `PaymentIpnProofs` |
| system notifications | `SystemNotification` | `SystemNotificationProofs`, `SystemNotificationCalmProofs` |
| vouchers | `Vouchers` | `VouchersProofs` |
| the tables found by a key | `Catalogue` | `CatalogueProofs` |
| accounts of administrators, customers, shoemakers | `Accounts` | `AccountsProofs` |
| daily notifications | `DailyCrons` | `DailyCronsProofs` |
| migrations, entities and the workers that start | `Ddl`, `Entities`, `Schema`, `Migrations`, composed by `Deployment` | `MigrationsProofs` |

The modules do not share a state: the components meet only in rows that one of
them writes and another one lists. Where two do write the same row they are in
one module (`PaymentIpn` for withdrawals and manual corrections, `Catalogue` for
blogs that go with their category, `Deployment` for the workers, the migrations
and the entities). Each `MCx` gives `x` its model values, `WorkerOf` functions and
symmetry. No module declares a RECURSIVE operator.

Every model is written at the same grain: **one action is the code between two
awaits**. A read and the decision taken on it are one step; a decision and the
write that follows an await are two. Variables marked *history* are not in the
code: they record what happened, for the properties to speak about.

## 3. Payments: `PaymentIpn` and `WalletLedger`

### State

| variable | in the code |
|---|---|
| `sent`, `acked`, `dups` | the gateway: verdicts it reached, those it was answered 00 or 02 for, deliveries too many |
| `status` / `replica` | `transactions.status` (top-ups) and `trips.paymentStatus` in the master / as a repository read returns them |
| `balance`, `lock` | `wallets.balance`; the InnoDB row lock taken by `pessimistic_write` |
| `notes` | the rows of `notifications` that `updateWallet` saves, one per order |
| `pc`, `job`, `snap`, `rsp` | where a request is, the query it handles, the balance it read under the lock, the `RspCode` it answers |
| `dropped`, `credits`, `corrected` | history: what became of each payment and wallet |

A handler in `pc`: `check` (about to read the row) - `save` (about to write the
status) - `wallet` (about to read the transaction row again) - `lock` (inside
`dataSource.transaction`, waiting for the wallet) - `notify` - `commit` -
`reply`.

| action | code |
|---|---|
| `Deliver`, `Duplicate`, `Decide`, `Reply` | VNPAY (external): it decides, repeats until answered 00 or 02, and may repeat once too often |
| `BadChecksum`, `MissingOrder` | the answers 97 and 01 before any read (`payment.controller.ts:54-63, 175-183`) |
| `CheckTrip`, `CheckTransaction` | row missing 01, wrong amount 04, settled 02 (`:66-97`, `:120-151`) |
| `UpdateTrip`, `UpdateTransaction` | the status write (`:98-118`, `:152-173`) |
| `IpnError` | the outer `catch`, 99 (`:184-194`) |
| `BeginWallet` ... `CommitWallet`, `UpdateWalletError` | `updateWallet` (`payment.service.ts:78-166`) |
| `MarkSuccess` | `WithdrawalsService.updateStatus` |
| `CorrectWallet` | `WalletsService.updateWallet`: a stored procedure, external |
| `Sync`, `Crash` | replication; a worker that dies with its requests |

Details that matter and are easy to miss:

- The test `if (!transaction && transaction.status !== SUCCESS) return;`
  (`payment.service.ts:83`) never returns: with no row it throws, with a row its
  first half is false. `BeginWallet` therefore credits whatever the (stale) row
  says. This is what makes `PaidIsCredited` hold over a lagging replica: the
  "repaired" guard is a mutant, and loses money.
- The notification row is saved through an injected repository, on a
  connection other than the transaction's: it needs a second connection of the
  same pool (`PoolFree` in `NotifyOwner`) and stays when the transaction rolls
  back.
- Retrying three times on `OptimisticLockVersionMismatchError` never happens: no
  entity has a version column. Every other error leaves the loop at once.
- Nothing connects the status write and the wallet transaction: they are two
  transactions.

`WalletLedger` is the abstract specification: wallets change by one credit of
one order in full, or by one manual correction. `PaymentIpn` implements it
(`LedgerSpec`), with the identity on the wallet variables.

### Runs

| run | instance | checks |
|---|---|---|
| `ipn_faults` | 1 order, 2 requests on 2 workers, everything on: overlap, lag, failures, wrong amounts, 1 crash, 1 correction, 1 duplicate, an administrator's SUCCESS | `TypeOK`, `LockIsSound`, `CreditedWasPaid`, `CreditAnnounced`, `AckedIsAccounted`, `LedgerSpec` |
| `ipn_serial` | 1 order, 1 trip; one notification of a reference at a time, fresh reads; failures, 1 crash | `CreditedOnce`, `PaidIsFinal` |
| `ipn_live` | 1 order, 2 requests of one worker, pool of 3, overlap and lag, no failure | `PaidIsCredited`, `RequestsAnswered` |
| `ipn_overlap` | as `ipn_serial`, with overlap | **violates** `CreditedOnce` |

Two requests are what every race here needs (two notifications of one order, or
a notification beside a correction or a withdrawal); two verdicts allow a
decline that is followed by a payment, the order that could overwrite it; one
duplicate, one crash and one correction each can fall at any point. A bound of
two on any of them repeats the same situations one after the other. The wallet
opens with 5, the order is worth 1, the correction is -3, so that no two
histories of interest have the same balance.

What the failing run says: the status check is read-then-write, so two
notifications in flight at once both pass it and credit the wallet twice,
although a settled transaction is to be answered 02, "already updated". Beside
it, a failure inside `updateWallet` is swallowed and answered as success, so the
gateway never repeats it. `AckedIsAccounted` makes this precise: payments are
lost *only* to such a failure, to a crash after the status write, to a status write whose answer is
lost, or to an administrator who sets SUCCESS before the gateway does - never to
lag, repetition or overlap.

### Fairness

`FairSpec` lets every request take its next step (strong fairness: a row lock
and a pooled connection are granted in turn, so that a request that can
proceed again and again does), lets the replica catch up (weak), and lets the
gateway repeat what is unanswered (strong). None of this holds across a crash
between the status write and the wallet, so `ipn_live` has no crash and no
failure. With a pool no larger than the requests of a worker (`PoolSize = 2`
there), `RequestsAnswered` fails: every connection is held by a transaction that
waits for a second one. The driver's default is 10 per worker, and nothing in
the code bounds the requests.

### Proofs (`PaymentIpnProofs`)

Everything is proved from `ConstantsAssumption`, for any numbers of orders,
trips, wallets, requests and workers, any pool and any bounds.

| theorem | statement |
|---|---|
| `TypeCorrect` | `[]TypeOK` |
| `LockSafe` | `[]LockIsSound`: the snapshot is the balance and the lock has one holder |
| `LedgerImplemented` | `LedgerSpec`: step refinement of `WalletLedger` |
| `CreditsArePaid`, `CreditsAreAnnounced`, `AcksAreRecorded` | `[]` of the property of that name |
| `AcksAreAccounted` | `[]AckedIsAccounted` |
| `SerialCreditsOnce`, `SerialPaidIsFinal` | under `Serial` (no overlap, no lag) |

The inductive invariants and why they are needed:

- `TypeInv` = `TypeOK` and `StageInv`: what a request holds at each stage. That a
  request in `updateWallet` carries a payment *of the right amount* was decided
  two awaits earlier and is nowhere in the state it is in.
- `LockInv`: the lock and the snapshot agree, both ways (holder to lock, lock
  to holder); one direction alone does not survive a release.
- `RecordInv`: that an answered row is not PENDING needs to know that a
  request past the write has recorded it, that a settled replica row means a
  settled master row, and that a notice precedes the commit.
- `AccountInv`: an order that is SUCCESS *anywhere* - master, replica or an
  answer not sent yet - is accounted for; the 02 is decided on the replica.
  `CreditingEnds` is the step property that makes "accounted for" stable.
- `SerialInv`: a request past the check of an order is alone on it and finds
  it uncredited, because a credited order is SUCCESS.

## 4. System notifications: `SystemNotification`

### State and actions

`row` / `replica` are `system_notifications` (receiver, `isSent`) in the master
and as read; `job` is the Bull job of id `SYSTEM-NOTIFICATION-<id>`; `inbox` the
recipients with a row in `notifications`; `req` and `run` what each admin
request and each job slot is doing; `named` (history) the receivers a
notification was saved with.

| action | code |
|---|---|
| `Create`, `Update`, `Delete` | a request begins (`notifications.service.ts:103, 176, 159`) |
| `CheckUnsent` | missing or sent: 400 (`:161-163`, `:178-180`), read on the replica |
| `Save`, `FindJob`, `RemoveJob`, `AddJob`, `Erase` | the rest of the request, one per await (`:195-209`, `:165-169`) |
| `Start`, `ReadRecord`, `ProcessBatch`, `MarkSent`, `Complete` | `NotificationConsumer.sendNotification` |
| `RequestError`, `AddError`, `RunError` | a call fails: 400 before the add, the end of the worker at the add, a failed job in the consumer |
| `Stall`, `Sync`, `Crash` | Bull hands a job out again when its lock has run out; replication; a worker dies |

From Bull (external) the model takes: `add` does nothing when the id exists,
`removeJobs` leaves a job that a slot has locked, a job whose lock runs out is
handed out again once (`MaxStalled`) and fails the next time, and a failed job
keeps its id. `save` inserts a row that is missing, which is how an update
revives a notification deleted after its check; the last save of the consumer
cannot, for want of a title.

### Runs

| run | instance | checks |
|---|---|---|
| `notif_races` | overlap, jobs running beside requests, lag, failures, 2 requests, 2 stalls, 1 crash, three kinds of receivers | `TypeOK`, `RunsAreExclusive`, `NobodyUnasked` |
| `notif_calm` | one request on a notification at a time, 4 of them, jobs start when they like, 1 stall | `QueueMatchesTable`: an unsent row has its job, a delayed job has its row |
| `notif_live` | jobs and requests apart, 4 requests, 1 stall | `QuietIsDelivered`, `SentIsKept`, `CreatedIsDelivered` |

One notification is enough: no operation touches two. Two customers, one
shoemaker and a batch of one make a job that is half done, and a receiver that
changes in the middle. Four requests are create and three changes, with which
an update can meet the job of the update before the last. The notification for
`ALL` is left out of `notif_live`: see below.

Fairness: the steps of a request and of a slot that has begun are weakly fair
(an event loop that is not blocked); handing out a waiting job is strongly fair,
because a slot may be busy for a while and requests keep the job away in that
run; the replica catches up.

What the code does, and the runs above therefore exclude:

- A notification for `ALL` is sent to the shoemakers only
  (`notification.consumer.ts:51-55`) and marked as sent: with `Receivers = {"ALL"}`
  `QuietIsDelivered` is violated at once.
- `isSent` is checked, then two or more awaits pass: with a job running beside
  the request, `SentIsKept` is violated (a delivered notification is deleted, or
  gets another receiver while its job has gone).
- A failed batch is logged, and the notification marked as sent
  (`notification.consumer.ts:113`).
- A crash or a failed `add` after `save` leaves a notification without a job; the
  add is not awaited, so the administrator is told SUCCESS (`:119`).
- The consumer asks the replica for the notification and drops the job when it
  finds none (`notification.consumer.ts:43`): sent at once over a replica that lags,
  a notification is dropped although nobody deleted it.

### Proofs (`SystemNotificationProofs`, `SystemNotificationCalmProofs`)

From `NotificationAssumption` alone, for any numbers of notifications, people,
requests, slots and workers:

- `TypeCorrect`: the type invariant is inductive as it stands.
- `RunsExclude`: `RunsAreExclusive` speaks of two slots on one notification, and
  the step that starts a job looks at the job, not at the other slots. `HolderInv`
  joins them: a slot that runs a notification holds its job, or a stall has
  happened.
- `NobodyIsUnasked`: a person is told by a run, the run took its receiver from a
  job, the job got it from a request, and the request wrote the row before.
  `AskedInv` carries it along: requests past their save, jobs and runs all have a
  receiver that is in `named`.

From `Calm` as well (one request on a notification at a time, no lag, no failure, no
crash), the setting of `notif_calm` for any numbers:

- `QueueStaysMatched`: `QueueMatchesTable` is about the time between requests, so
  `QueueInv` says what a request in the middle knows. Up to its save the row is
  there; from its save to its add the row has its receiver, and at its add no job
  is left that waits and never ran. It also says that a run that is done has left
  the row sent or gone, without which a job could complete and leave an unsent row.
  A step of a run or of the queue keeps all of that (`OthersKept`), which is why
  `RowMoves`, `JobMoves` and `RunsMove` describe such steps without naming them.

From `Apart` (`Calm`, jobs and requests of a notification apart, no receiver `ALL`),
the setting of `notif_live`:

- `QuietAreDelivered`: in `ApartInv` a run serves the receiver of the row, and those
  who have the notification and those left to tell make up its audience; an active
  job is run by the slot that holds it, so that a request, which runs beside none,
  finds no active job and really replaces what it finds.
- `SentStaysKept`: a request at its save or its deletion still has an unsent row,
  because no job ran since the check.

## 5. Vouchers: `Vouchers`

### State and actions

`voucher` / `replica` are the rows of `vouchers` (absent, private or global) in
the master and as read; `unused` and `used` count the rows of `customer_vouchers`
of each customer without and with `timeUse`; `req` is what each admin request is
doing and `task` the call it left behind. `eligible` and `calm` are history: whom
the last grant was for, and which vouchers have met no failure, stale read,
overlap or partial update so far.

| action | code |
|---|---|
| `Create`, `Update`, `Remove` | a request begins (`voucher.service.ts:29, 68, 82`) |
| `InsertVoucher` | the row, then the grant (`:33-34`) |
| `ReadVoucher` | the comparison that starts a grant or a revocation (`:69-78`) |
| `FindVoucher`, `WriteVoucher`, `CountUsed`, `DeleteVoucher` | the reads and writes of `:79-90` and of `base.abstract.repository.ts:71-96` |
| `ListCustomers`, `InsertMany`, `Revoke` | the calls that are not awaited (`:21-27`, `customerVoucher.repository.ts:15-25`) |
| `RequestError`, `TaskError`, `Crash` | a failed call of a request (400), of a call left behind (the worker ends), a dead worker |
| `Verify`, `UseVoucher`, `Sync` | external: the client backend, replication |

A multi-row insert is one statement: all rows or none. It fails on its foreign
key when the voucher has been removed meanwhile. An id that nothing refers to any
more stands for a fresh one.

### Runs

| run | instance | checks |
|---|---|---|
| `vouchers` | 1 voucher, 2 customers (one verified later), 2 workers with a request each, 4 requests, 2 uses, lag, failures, 1 crash | `TypeOK`, `NobodyHoldsNone`, `UsedIsKept`; of calm vouchers `GrantsAreCarriedOut` (a global one is held by all that were eligible, a private one by nobody) and `HeldOnce` |

One voucher is enough: no operation touches two. Four requests are create, grant,
revoke and grant again, or any of them overtaken by a removal. Two uses let both
customers use theirs, or one of them use two grants.

What the code does and `calm` therefore excludes:

- An update that leaves `isGlobal` out revokes the vouchers of a global voucher
  and leaves the row global (`:72`): undefined differs from any stored value.
- A grant that is not done when the opposite update comes can end after the
  revocation, and the voucher is private and held.
- Two updates to global, or one that reads a stale row, grant twice.
- A grant that fails, or whose worker ends, leaves a global voucher nobody holds;
  nothing repeats it.

`UsedIsKept` says that a use is forgotten only with its voucher, and it must leave
the removal out: the code means to refuse to remove a voucher somebody has used
(`cannotDeleteBecauseUsed`, `voucher.service.ts:85-89`), but counts the rows with
`timeUse: Not(null)`, which TypeORM writes as `timeUse != NULL` and MySQL finds true of
no row (`customerVoucher.repository.ts:23` uses `IsNull()`). `CountUsed` is the count
as it is, and a used voucher is removed with the records of its use (CASCADE).

### Proofs (`VouchersProofs`)

From `VoucherAssumption` alone, for any number of vouchers, customers, requests
and workers:

- `TypeCorrect`: the type invariant is inductive as it stands.
- `NoneIsHeldByNobody`: `EveryRowStep` sums up what any step can do to the rows
  (write a voucher, remove it with its rows, grant it if it exists, revoke it,
  use it); with the type invariant, `NobodyHoldsNone` is inductive over those.
- `UsesAreKept`: only the removal of the voucher makes `used` smaller, from
  `EveryRowStep` again.
- `GrantsCarriedOut` and `NobodyHoldsTwice`: neither is inductive, as both speak of what
  is true when the calls are done. `CalmsInv` says what is true before: a calm voucher is
  at rest (`AtRest`: its rows fit its state), or in the hands of one request (`InHand`). From
  the comparison to the write that request may run beside the call it left behind, in
  either order, and `Underway` is about the state the voucher is to have: nobody holds a
  voucher before its grant is inserted, which is why the insert needs no check for doubles.

## 6. Tables found by a key: `Catalogue`

### State and actions

Seven services have one shape: look for the key of a row on the replica, then write
on the master. The model has one table of one `kind` (chosen in `Init`: blog,
category, product, service, option, points, admin), as no operation but the removal of
a category touches two. A row has its `name`, its `key` (the slug of the name for the
first three), its `order` and whether it is `promoted`. `Folded` is what a name is
reduced to: two names may have one slug; for points, the owner that is looked for when
a request names two. `calm` (history) is lost when a request begins beside another
one, or reads a replica that is behind.

| action | code |
|---|---|
| `Create`, `SetOption`, `Seed` | a creation, the upsert of the number for calls, the first administrator at the start of each worker |
| `Lookup`, `Count`, `Insert`, `Amend` | look, count for the order, insert; for points and options, write to the row found |
| `Update`, `Remove`, `ReadRow`, `CheckSlug` | the row is read, a new slug is looked for among the others |
| `Peek`, `Clear`, `FindPlace`, `Place` | the two `findOneAndUpdate` of a promotion and of a move: a read, then an `UPDATE` |
| `Refetch`, `Write`, `Delete` | `findByIdAndUpdate` and `permanentlyDelete` of the base repository |
| `RemoveCategory`, `RequestError`, `Sync` | the blogs go with their category (the foreign key, not the entity, decides: CASCADE); a failed query; replication |

### Run

| run | instance | checks |
|---|---|---|
| `catalogue` | all seven kinds, 3 names of which two share a slug, 3 rows, up to two of them to begin with, 2 requests that overlap, fail or read a replica that is behind | `TypeOK`, `OneRowPerKey`, `OrdersAreRanks`, `OnePromoted` |

Two requests are what two writers of a key need, or a promotion beside another; a third
would find what one of the two left. The theorems below hold for any number.

What the code does and the properties therefore exclude:

- Two creations at once, or one over a stale replica, give two rows one key. Only the
  user name of an administrator has a unique index (`admin.entity.ts`), and
  `OneRowPerKey` holds of it whatever happens.
- A service is renamed without a look (`services.service.ts`); points requested for a
  customer *and* a shoemaker are a row no request finds again.
- A move takes the order of another row and writes the holder's own order back to it:
  `findOneAndUpdate({ order }, { order })` (`blog.service.ts:57`). Two rows then share an
  order (`reordered`), and so they do after a removal.
- An update without an order asks for `NaN`, which fails - after the promotions were
  cleared. An update without a name is refused before any query.
- The slug of a blog and of a category stays when the name changes; a product's follows.

### Proofs (`CatalogueProofs`)

From `CatalogueAssumption`, for any names, rows, requests and bounds:

- `TypeCorrect`, by `TypeInv` = `TypeOK` and `TargetInv` (an update or a removal aims at
  a row, an insert does not).
- `AskInv`: while `calm`, one request is open at a time; only listed kinds are updated,
  only blogs are promoted. All that follows is about one request.
- `KeysAreApart` (`OneRowPerKey`), by `KeyInv`: a request at `count` or `insert` has found
  no row with its key, a product whose new name is settled has its slug to itself - the
  knowledge of an earlier await, which nothing in the state but `pc` remembers.
- `OrdersAreTheRanks` (`OrdersAreRanks`), by `RankInv`: at `insert` the order is the number
  of rows plus one. The library's theorems on cardinality carry it.
- `OneIsPromoted` (`OnePromoted`), by `PromotedInv`: from `clear` on, none but those born
  as promoted is, until the request writes its own.

## 7. Accounts: `Accounts`

### State and actions

`row` / `replica` hold the password, the messaging token and whether the account is
active; `tokens` is the redis set `admins-fcm-token`, `adding` the `sadd` of a worker
that is on its way; `texts` the passwords an owner was sent; `untold` counts the
approvals a shoemaker has yet to hear of. `kind` says whose accounts these are. `met`
and `astray` (history) are the accounts on which two requests met, or that share a
device; and on which one decided on a stale copy, was refused late or ended halfway.

| action | code |
|---|---|
| `UpdateInfo`, `ResetPassword`, `SetStatus` | a request begins (`authentication.service.ts:90`, `customer.service.ts:164` and the same of shoemakers, `shoemakers.service.ts:202`) |
| `Read`, `RemoveToken` | the copy is read; the old token leaves the set (awaited), the new one is sent to it (not awaited), and only then is the old password compared (`authentication.service.ts:94-107`) |
| `Write` | the columns the request names |
| `SendText`, `SendPush` | the SMS of a reset, whose failure is swallowed; the message of an approval |
| `TokenAdded`, `AddFails` | the `sadd` arrives, or is refused: nobody awaits it, and the worker ends |
| `Fail`, `Sync` | a query fails or a worker dies; replication |

### Run

| run | instance | checks |
|---|---|---|
| `accounts` | each kind of account; 2 accounts, 2 devices, 2 requests at a time on a worker each, 3 in all; lag, late and lost adds, failures | `TypeOK`, `TokensAreCurrent`, `PasswordIsSent`, `ApprovalIsTold` |

Two accounts and two devices are what it takes to give one's token to another; three
requests let a third one find what two have left. Passwords are numbered by the request
that chose them.

What the code does and the properties therefore exclude:

- `updateInfo` changes the set before it looks at the old password: a refused update
  leaves the set without the token of the row, or with one no row has.
- Two administrators on one device take each other's token away.
- An add can arrive after the removal that was meant to follow it.
- A reset whose SMS fails answers 200, and the owner does not know his password.
- Two changes of a status at once both find the shoemaker inactive: he is told twice, or
  is told of what is undone.

### Proofs (`AccountsProofs`)

From `AccountsAssumption`, for any accounts, devices, requests and bounds:

- `TypeCorrect`: the type invariant, inductive as it stands.
- `PasswordsAreSent` (`PasswordIsSent`), by `CarriesInv` and `SentInv`: the password of a
  row was sent, or a request at `text` carries it; and where no two requests met, one is
  at work at a time and the last text is the password.
- `ApprovalsAreTold` (`ApprovalIsTold`), by `ToldInv`: the copy a request has seen is the
  row until it writes, and `untold` is 1 exactly while a request is at `push`.
- `TokensStayCurrent` (`TokensAreCurrent`), by `TokenInv`, which follows a token from the
  row to the set and back. `ShareInv`: an account on which no two requests met has its
  tokens, and the one it is about to get, to itself. `CurrentInv`: the token of a row is
  in the set or on its way to it, unless its request is about to replace it by one that
  is. `OnlyInv`: as long as nothing went wrong on any account, what is in the set is named by
  a row or about to be, and the token a write is about to replace is in it no more. Each
  half needs the other accounts: a token is taken from the set by its name, not by its
  owner.

## 8. Daily notifications: `DailyCrons`

### State and actions

`signedIn` (people with a token) and `poor` (wallets below the threshold) are the rows
the handlers select; `due` and `job` are the timers of the workers and the Bull jobs they
add; `run` is what a slot is doing. History in it: `served` counts, for each person, the
inbox rows of this run, `joined` and `left` are the moves during it, a person and the number
of the change each. A person is a number, the place of the primary key in which the pages
are scanned.

| action | code |
|---|---|
| `Tick`, `Enqueue`, `EnqueueError` | the cron fires in each worker and adds a job, unawaited (`crons.service.ts:11-45`) |
| `Start`, `ReadPage`, `SavePage`, `SendPage`, `RunError`, `Complete` | a handler of `CustomersConsumer`: page, inbox rows in one transaction, messages |
| `Stall`, `Crash` | Bull's locks (external); a worker that dies |
| `SignIn`, `SignOut`, `Spend`, `TopUp` | external: the client backend |

### Run

| run | instance | checks |
|---|---|---|
| `crons` | 1 worker, customers 1, 2, 3, 5 and shoemaker 4, pages of two, a cron of customers or of shoemakers, two people come or go, 1 stall, 1 crash, failures | `TypeOK`, `PagesFollowTheList`, `PushesAreKept`, `JobsEnd` |

Five people and pages of two make two full pages and a last one; two changes move the
list by one page's place twice, or there and back. Runs of different workers do not
touch each other's state, so that one is enough; that *each* worker adds a job, and that the
cron of every second day adds the daily job too (`crons.service.ts:20-27`), multiplies
what a customer receives and is not a property of a run.

`PagesFollowTheList` is exact about `skip`/`take` over a table that changes: whoever
leaves moves one of those behind under the offset, and whoever joins moves one into the
next page; nobody else is skipped or told twice. `JobsEnd` needs no bound on the list:
an offset that grows past it ends the loop, whoever joins meanwhile (`MaxChanges`).

Fairness: a worker adds the job that is due, a run that has begun goes on (weak); a
waiting job is taken in the end (strong: a slot may be busy); Bull finds the job of a
dead worker (weak). Stalls of a live worker are not fair: they need not happen.

### Proofs (`DailyCronsProofs`)

`TypeCorrect`, `PagesFollow` and `PushesStayKept` state the three invariants for any finite
set of people, any page size, any workers, slots, stalls and crashes, and any number of
changes. Neither part of `PagesFollowTheList` is inductive: the one about skipping speaks of
runs that are over, and neither mentions the offset. `PagesInv` does. With `Reached` the
places that the pages read so far have taken, `Due` how often a person is on these pages, and
`Rank(L, x)` how many of the list L come before x:

- `SkipInv`: for *every* place x, those before x who were on the list all the time and are on
  none of these pages are no more than those who left from before x (x is passed), or they are
  so once the places not taken yet are counted in: `Rank(Waiting, x) + Reached <=
  left before x + Rank(L, x)`. A run is over when a page is empty, and then the
  second case is the first one.
- `AgainInv`: `Due` is at most one more than those who joined before the person, and a person
  who is on a page has been passed up to that difference: `Rank(L, p) + Due <= Reached +
  joined before p`. This is why being read again needs one more who joined.
- `KeptInv`: the tokens belong to the page, and before they are sent the rows are saved.

A change of the list moves `Rank` and the moves by the same number (`RankSplits`,
`MovesAdd`), so that whoever comes and goes between any two steps keeps the sums. A page is
read between the first of the list with rank `offset` (`HasRank`) and the one `BatchSize`
further (`PageSpares`); saving and sending leave `Due` and `Reached` as they are (`SameSlot`).
`QuietRunsTellAll` follows: if nobody moves, everybody on the list is told exactly once.
`joined` and `left` are sets of moves, not counters, so that their sums are cardinalities
and not folds, which would need an induction over data.

## 9. Migrations and entities: `Ddl`, `Schema`, `Entities`, `Migrations`, `Deployment`

- `Ddl`: a schema as a set of objects (table, column, unique index, index, foreign key)
  for each table, and the statements of `QueryRunner` as what they need, clash with, add
  and drop. Types, lengths and the text of defaults are left out.
- `Schema`: all 48 migrations, `up` and `down`, statement by statement.
- `Entities`: the 26 entities: table, columns, unique columns, relations that own one.
- `Migrations`: the runner of a data source (`migrationsRun`, `config/typeorm.ts:85`), in
  every worker at once. `Load` reads what is pending; `CheckTable`, `Execute`, `Record`,
  `Finish` run it; `Fail` is a statement the database refuses, after which the worker begins
  again (Nest retries, and `cluster.ts` forks a new one); `Fault` is a crash anywhere. MySQL
  commits before each statement on the schema, so that TypeORM's transaction covers next
  to nothing: `open` and `unsaved` are what it does cover. `BeginRevert` ... `EndRevert` are
  an operator who undoes the last migration with `connectionSource` while the service
  is stopped.
- `Deployment` composes them: workers serve requests through the entities over the
  database that the migrations made.

The runner is TypeORM's, which is not in the repository: `Migrations` models it from the
options the data source gives it, and says so in its map.

| run | instance | checks |
|---|---|---|
| `deploy` | 2 workers, a database at any of the 49 versions, 1 crash or 1 revert at any point | `TypeOK`, `RecordedIsApplied`, `RecordsAreInOrder`, `RacesTearNothing`, `EntitiesFit`, `RevertsAreExact` |

Two workers suffice for a race; the clustered workers beyond two are in one of the two
positions. Crash and revert are bounded by one together (`MaxUpsets`).

- `RacesTearNothing`: two workers that run one migration collide at a statement that cannot
  run twice, and one of them gets to its end. This does not rest on `ifNotExists`, which
  five tables alone have. A crash does tear: `Torn` holds for ever after, and every start
  fails. Nothing repairs it.
- `EntitiesFit`: after all of them, every column, unique index and relation that an
  entity declares is there, and no column the entity does not know wants a value.
- `RevertsAreExact`: the downs that fail are those of `Refused`, whose statements fail on the
  schema of their own migration, however far other workers had come before the service was
  stopped; the rest leaves the schema of the migration before. The run computes both sets on
  the 48 migrations (`StubbornOnes` says which are refused). Refused:
  `CreateCustomerVoucherTable` and `CreateBlogTable` (they drop a foreign key by a name it
  never had), `CreateFcmTokenColumnToAdmins` (drops `admins.address`),
  `CreateDeviceIdColumnToShoemakerCustomer` (drops a column under its foreign key). Lossy:
  `CreateRefundDataColumnToTrips`, which renames another migration's column and not back.

Not compared are delete rules, defaults and types, where the entities and the database do
differ: `blogs` SET NULL against CASCADE, the same of the logs of wallets and trips; the id
of `bonus_point_logs` uuid against int; one-to-one relations without their unique index.
TypeORM does not synchronize, so the database decides; `Catalogue.RemoveCategory` follows it.

### Proofs (`MigrationsProofs`)

The theorems hold for any number of workers, crashes and reverts, and for any migrations
that meet the assumptions of `Migrations`, which the run evaluates on the 48: `up` drops
nothing, and what a statement clashes with is added by no other (`UpOnlyAdds`,
`EachAddedOnce`); what a statement needs, an earlier one adds (`NeedsAreMet`); whatever adds
something clashes with it (`AddsClash`); a `down` that is not `Lossy` adds nothing, drops a
table made with `ifNotExists` whole or not at all (`DownOnlyDrops`), and, if it can run, drops
all that its `up` made (`DownDropsAll`).

For `RecordedStaysApplied` the property alone is not inductive. `ApplyInv` adds

- `RunsInv`: what precedes the statement a worker is at has been done, by whichever worker,
  and so has all of what its open transaction has yet to record;
- `WholeInv`: a table made with `ifNotExists` is whole or absent. It is why a worker that
  finds the table may skip the statement, although it never saw it succeed;
- `StoppedInv`: while the last recorded migration is undone no worker is past `Load`, so
  nobody believes in what is being dropped, and no recorded migration comes after it.

`RecordsStayInOrder` needs two more invariants and holds of a marred database, too.
`LinesInv`: what a worker has gone through is in the table or in its open transaction, and
comes before what it has left. `HeldInv`: for a statement that cannot run twice, at most
one worker is past it without having recorded its migration; once it is recorded, a worker
that still believes it pending finds the work done and fails. A revert may take that work
away, but then every worker reads the table anew.

`marred` ends these claims where they end in the code: a `down` refused after its first
statement keeps its row, and a lossy one takes columns of earlier migrations.

`RacesDoNotTear` rests on `ExactInv`, true as long as nothing crashed: what clashes with a
statement is that statement's own work (`OwnInv`), all that is there is the work of a
statement that has done all of its own (`OriginInv`), and of a migration not yet recorded each
statement done is behind a worker that goes on with it (`CarriedInv`). The last one is
the point: a worker that fails has met the work of another one, which goes on with whatever the
first one leaves behind (`FailsOnOthers`), because it is further in the same migration.

`RevertsTakeBack` adds that before a down nothing else is half done, so that the operator
finds exactly the schema of the last recorded migration (`SchemaIsExact`, `ExactIsSchema`), and
that down to its nth statement the database is `Undone(undo, n)`, which `Refused` is defined
by (`DownInv`). With a crash before it a down may meet half a later migration: there it is
only claimed of a database where `faults = 0`.

`ServesWhole` needs no such condition on crashes: a worker serves once all migrations are
recorded (`ServeInv`), recorded means applied, and nothing is there that no migration brings
(`BroughtInv`). `EntitiesFitUnmarred` follows with `EntitiesFitVersions`, the one statement about
the 48 migrations and the 26 entities that is a computation, which TLC does before the run.
The run checks `EntitiesFit` of marred databases as well; in general it is false of them.

## 10. What is not modelled

- **Read-only components** (trips, dashboard, export, the lists everywhere): no step of
  theirs changes a state. Sums are joined to rows by position (`export.service.ts:58`), over
  `SELECT`s without an order: whether they fit is left to MySQL, not to the code.
- **Pure I/O** (S3, Google sheets, search of places, the HTTP bootstrap, guards, pipes,
  filters, DTOs): no state of their own.
- **The socket client**: an HTTP call tried again every second for as long as it fails; the
  number of retries it passes along is never read (`socket.service.ts:37`). There is no
  state a model could get wrong.
- **Helpers**: date ranges depend on the server's time zone; identifiers, hashes and
  signatures are library calls. Slugs and random passwords are modelled where they are used.
- `returnUrl` writes nothing to the database. The transaction log is append-only and read by
  nothing.
- Columns beside the ones a property is about: `updateInfoCustomer`, the date of a login,
  discount prices, texts, screens, dates of vouchers.
- `repository.save` reads the row and writes the columns that differ, in two statements; the
  model takes it as one step. A change of another column in between is not lost, a change
  of the same one would be overwritten either way.
- A transaction whose `walletId` is null: the condition `id = null` is dropped by the
  library, and the first wallet of the table would be locked. `WalletOf` is total.
- Texts of notifications and push messages. Two of them show the balance where the amount is
  meant (`payment.service.ts:108, :144`); the warning of a low wallet speaks of 200,000 where
  the query asks for 500,000.
- Push messages, SMS and socket messages are modelled only where a property asks whether
  somebody was told (`Accounts`, `DailyCrons`); nothing in the state depends on them.

## 11. Only model-checked

- Liveness and fairness, which are out of the prover's reach: `PaidIsCredited`,
  `RequestsAnswered`, `CreatedIsDelivered`, `JobsEnd`.
- What `Migrations` and `Deployment` assume of the 48 migrations and the 26 entities, a
  computation on them and not an argument; and `EntitiesFit` of databases with a marred
  down.
