# A verification project for boat-backend

boat-backend is the server of a receipt keeper: FastAPI use cases over
PostgreSQL, one asyncio process per deployment unit, several of them at once.
What makes it hard is not the single use case but what happens between two of
them: two transactions at READ COMMITTED, a use case whose commit is deferred to
its caller, an external call made with a row lock held, a background task that
races a poller, a process that dies between two commits, a storage that takes no
part in transactions. The modules here model those parts statement by statement,
TLC checks them on small instances, and TLAPS proves the main results for every
value of the constants.

All paths below are relative to `src/app`, those under `alembic/` to `src`.

## 1. Inventory

| Component | State | Operations | Talks to | Modules |
|---|---|---|---|---|
| Transactional outbox (`core/db/outbox`, `main.py`) | `outbox_events` | publish, immediate dispatch, poll, claim, delete, mark failed | every module publishes in its own transaction; handlers live in notifications | `Delivery`, `Outbox` |
| Event dispatcher, serialization (`core/application`, `core/db/outbox/serialization.py`) | none (registries) | register, dispatch, serialize | called by the outbox | in `Outbox` |
| Credits (`modules/credits`) | `user_credits`, `credit_transactions` | grant, reserve, finalize, delete; queries | called inside transactions of ocr, promotions and auth | `Account`, `Credits` |
| OCR (`modules/ocr`) | none | extract receipt | holds the credit row while it calls Gemini | in `Credits` |
| Promotions (`modules/promotions`) | `promotions`, `promotion_codes`, `promotion_redemptions` | redeem by id, by code, at sign-up; monthly job; queries | grants credits in its transaction | `Promotions` |
| Auth (`modules/auth`) | `user_credentials`, `external_identities`, `auth_sessions`, `refresh_tokens` | sign-up, login, refresh, logout, withdraw | provisions users, redeems the sign-up promotion, deletes credits and push tokens | `Auth` |
| Notifications (`modules/notifications`) | notifications, settings, push tokens, schedule rules and occurrences | schedule, create, mark, register and unregister a device, push, clean up | handles outbox events, reads users and receipts | `Schedule`, `Notifications` |
| Files (`modules/files`) | `files` rows, objects in S3 | upload, delete, open | profile images and receipts refer to them | `Files` |
| Users (`modules/users`) | `users`, `user_settings` | provision, settings, profile image, clean up | called by auth; refers to files by URL | in `Files`, `Auth`, `Notifications` |
| Receipts (`modules/receipts`) | `receipts`, `receipt_attachments` | create, update, delete, list | candidates for notifications; names files by their ids | `Receipts` |
| Schema migrations (`alembic`) | `alembic_version`, every table | 27 upgrades and downgrades | the mapped classes of every module | `Migrations` |
| Usage (`modules/usage`) | none | read the balance | credits | not modelled |
| Example, HTTP, configuration, security, scripts | none | wiring | everything | not modelled |

### What is hard, and the properties that make each component correct

* **Outbox.** Claims are leases that may expire while the claimer is at work;
  clocks of hosts differ; crashes fall between claim, dispatch and delete. It is
  correct if a committed event is never lost, an event of a rolled back
  transaction is never dispatched, a double delivery needs an expired lease, a
  crash spends no retry, a stale worker changes nothing, and every committed
  event is settled in the end.
* **Credits.** `SELECT .. FOR UPDATE` locks nothing when there is no row; the
  session updates only the columns that changed; a write conflict may be a replay
  or not; the row stays locked across an external call. It is correct if the row
  is the sum of the ledger, a key is credited once, a replay has been credited,
  and nobody waits for ever.
* **Promotions.** Counters are read under one lock and written back later; the
  embedded grant may roll the caller's session back and return normally; the
  promotion of a sign-up is found by `LIMIT 1 FOR UPDATE`, which may wait for a
  row that is exhausted when it gets it. It is correct if limits hold of the rows,
  counters count them, a redemption and its credit are committed together, the
  client is told what happened, and the promotion of the month is there after a
  run of its job.
* **Auth.** Rotation, logout and withdrawal race on tokens, sessions and foreign
  keys; sign-up checks for an account before it takes its advisory locks. It is
  correct if a refresh token is exchanged once, a session has one live token, a
  revoked session stays unusable, nothing outlives a withdrawal, and an identity
  belongs to one account.
* **Notifications.** Runs of the scheduler overlap, stop and are repeated; they
  page through users with equal keys; consent may be withdrawn and tokens
  re-registered between two statements. It is correct if an occurrence has one
  notification, a run that ends has missed nobody, nothing is created or sent
  against the user's wish, and no live registration is thrown away.
* **Receipts.** A receipt is read, merged and written back without a lock, its
  attachments replaced by a DELETE and INSERTs, the list paged by cursors. It is
  correct if an undisturbed update is the patch it was asked for, no attachment
  outlives its receipt, and paging shows every receipt once.
* **Files, users.** A row and its object are changed by two systems that have no
  common transaction. They are correct if row and object differ only where a
  failure has come between them, and an image in use is not deleted.
* **Migrations.** A downgrade must undo its upgrade, rows written under the newer
  schema must not block it, a backfill must agree with the code that reads it.

The list of hazards with their lines is in `PROJECT.json`, each with the
properties that watch it, or with a note where none does.

## 2. Plan

Done, in this order:

1. `Outbox`, `OutboxProofs`; `Delivery`, which `Outbox` implements.
2. `Account`, `Credits`, `CreditsProofs`: the abstract serial account and the
   transactions that implement it.
3. `Promotions`, composed with `Credits`: redemption by id and by code, at sign-up,
   and the job of the month.
4. `Auth`: accounts, sessions and tokens.
5. `Schedule` (rules, instants and pages as operators) and `Notifications`.
6. `Files` with the profile images of `Users`.
7. `Receipts`, and `Library`, which lets files and receipts interleave.
8. `Migrations`.
9. The proofs about the components of 3 to 7: `PromotionsProofs`, `AuthProofs`,
   `NotificationsProofs`, `FilesProofs`, `ReceiptsProofs`, which also has the composition
   `Library`; and `SetFacts`, the lemmas about sums over sets and sorted sets that
   `CreditsProofs`, `ReceiptsProofs` and `NotificationsProofs` need.

Left:

* Sign-up as one transaction over `Auth` and `Promotions`, withdrawal as one over
  `Auth`, `Credits` and `Notifications`.
* The retries of the OCR client (`ocr/infrastructure/receipt_ocr_client.py`).

## 3. Modules

### 3.1 What every model assumes of PostgreSQL

Transactions run at READ COMMITTED, the default that `core/db/session.py` leaves
in place. One action is one statement (or a run of statements that nothing can
come between because the row is locked). A statement sees what was committed when
it started; a row lock lasts to the end of the transaction; `FOR UPDATE` of no row
locks nothing; a row that was waited for is read again and the WHERE clause
evaluated again; a unique index makes an insert wait for an uncommitted entry with
the same key; a foreign key locks the row it refers to against deletion;
deadlocks are detected and one transaction is aborted. These assumptions are about
code outside the repository; the definitions that stand for them are marked
external in the map.

### 3.2 `Delivery` and `Outbox`

`Delivery` is what the outbox promises, without rows, leases or clocks: a committed
event is tried by workers until one that has delivered it settles it, or it has
failed so often that it stays as a dead letter. Two workers may try one event, and
an event may be delivered more than once; it cannot be settled undelivered, tried
before its commit, or fail without its failure being counted one by one.

| Model | Code |
|---|---|
| `rows`, `occurred_at`, `retry_count`, `id` | the columns of `OutboxEvent` (`orm.py`) |
| `txn`, `Publish`, `Commit`, `Rollback` | the caller's transaction, `publisher.py`, `push_dependencies.py` |
| `pc`, `claim`, `left` of a worker | the local state of `run_once` and of the background task |
| `ImmediateClaim`, `ImmediateSkip` | `immediate_dispatch.py:29-62` |
| `RelayWake`, `RelayClaim`, `RelaySleep`, `CommitClaim` | `relay.py:56-117` |
| `DispatchOk`, `DispatchFail` | a call of the dispatcher, between transactions |
| `DeleteSucceeded`, `MarkFailed` | `relay.py:119-141`, `immediate_dispatch.py:64-95` |
| `Abandon`, `Cancel`, `Restart` | a crash or database error, the cancellation by `lifespan`, a new process |

Every worker reads its own clock (`Reading`): up to `Skew` behind real time. The
claim writes `max(now, occurred_at + 1 us)`, so the clock's unit in the model
stands for the smallest step that two claims may differ by. `handled` and
`failures` are history variables: they are read by properties, never by guards.

`Outbox` implements `Delivery` (`IsAtLeastOnce`) under this mapping: an event whose
transaction is committed is *stored* while its row is there and *settled* after; the
retries are `retry_count`; *delivered* is what was handled at some generation; a
worker *tries* the event of its claim; its result is `pc`, once that says so.

### 3.3 `Account` and `Credits`

`Account` is what the credit account promises: grants and uses that happen one at
a time. `Credits` has the statements: the duplicate check, `SELECT .. FOR UPDATE`,
`save()` that looks the record up again, the two statements of the flush with their
unique and check constraints, the commit; the reservation that holds the row
through the OCR call; the two deletes of a withdrawal. `Overlay` is the UPDATE the
session emits: the columns that differ from the record `save()` found. The code checks
for a duplicate once, before the lock; an entry committed after that is met by
the unique index (`FlushConflict`), and the answer is that of a replay.

`flush_pending_writes` is one call and two statements. Nothing relates the two mapped
classes to each other, so SQLAlchemy's unit of work takes them in the order of their
names: `CreditTransaction` is inserted (`InsertEntry`) before `UserCredit` is inserted or
updated (`WriteRow`). A grant that has found no row, and so locked none, has its key
when it comes to the row. If another grant with this key has locked the row meanwhile,
the two wait for each other: `BlockedBy` says who waits for whom, and `BreakDeadlock` ends
one of two that do, as PostgreSQL does.

### 3.4 `Promotions`

Extends `Credits` and embeds its grant: a redemption *is* a grant of `Credits`
(`GrantCredit` runs its steps, `CommitRedemption` its commit together with the
rows of the redemption), so the deferred commit and the rollback of the shared
session are the real ones. Locks are taken in the order code, promotion, credit
row. An inactive or expired promotion may be rejected at any time
(`RejectRedemption`), since times and flags are data here.

| Model | Code |
|---|---|
| `FindCandidates`, `ChooseCandidate`, `PassOver`, `SignUpWithout` | `find_signup_promotion_for_update`: `ORDER BY .. LIMIT 1 FOR UPDATE`; a row that no longer fits when its lock is granted is passed over and the next one tried |
| `Rank`, `BeneficiaryOf` | the order of the candidates; `signup_beneficiary_key`, the same for a person who signs up again |
| `FindMonthly`, `InsertMonthly`, `CommitMonthly`, `KillJob` | `jobs/ensure_monthly_recharge_promotion.py`: look, insert, the conflict of two runs, the commit |
| `FindNothing` | `PromotionNotFoundError` |

### 3.5 `Auth`

Rows are named by the request that inserts them. The tables are `credentials`,
`links` (`external_identities`), `sessions` with `revoked`, and `tokens`. Locks are
functions of where a transaction is: `HeldTokens`, `HeldSessions` and
`HeldCredentials` say what it has locked, `Wanted...` and `Shared...` what its next
statement has to lock, and a statement may run when its transaction is not
`Waiting`. `SharedSessions` are the share locks of foreign keys, which exclude a
deletion but not the update of `revoked_at`. A `DELETE .. WHERE session_id` is two
actions, the snapshot (`SelectTokens`) and the locking (`LockTokens`), since rows
committed in between are not deleted. The cascades of a withdrawal see rows that
its own statements did not. Expiry of tokens is a rejection that is possible at
any time.

| Model | Code |
|---|---|
| `CheckNewUser`, `LockIdentity`, `LockEmail`, `CreateAccount` | `signup/use_case.py:110-157`, the synchronizer |
| `FindAccount`, `FlushLogin`, `CommitLogin` | `login/use_case.py:34-87`; the flush is that of `create_session` |
| `TakeToken`, `ValidateSession`, `Rotate` | `rotate_refresh_token`, then the commit |
| `LocateSession`, `RevokeSession`, `SelectTokens`, `LockTokens`, `CommitLogout` | `revoke_session_by_refresh_token` |
| `Admit`, `SelectAccountTokens` ... `CommitWithdrawal` | `exists_active_session`, `delete_account_auth_state`, `withdraw/use_case.py` |

### 3.6 `Schedule` and `Notifications`

`Schedule` has no state: local time and instants, the rules with their validation
and their seeded values, when a rule is due to a user or a receipt, and the
keyset pages (`FactsPage`, `ActivityPage`, `ExpiringPage`): the rows behind the cursor
(`AfterFact` where it is an instant with an id), in the order of their query (`ById`,
`ByRegistration`; `Sorted` is the ORDER BY), cut off at the limit (`Page`). The use case
goes over the items of a page one by one and their order within it says nothing, so a
page has them as a set. `Notifications` has the processes:

| Model | Code |
|---|---|
| a run: next rule, next page, `Reserve`, settings, create, commit | `create_due_notifications/use_case.py`, one transaction per occurrence; `ON CONFLICT DO NOTHING` waits for an uncommitted occurrence |
| a dispatch: `Find`, `ReadSettings`, `ListTokens`, `Send`, `CleanUp`, `Swallow`, `Crash` | `send_notification_push/use_case.py` and `NotificationPushDispatcher` |
| `ReadLock`, `ReadSelect`, `ReadCommit` | `mark_notification_read/use_case.py` |
| `UpdateSettings`, `Delete`, `Register`, `Unregister`, `Withdraw`, `CleanUpStale` | the repository, the router, `jobs/cleanup_stale_tokens.py` |
| `Expire` | a device that FCM no longer knows (external) |

`Consents` and `WantsPush` are what the settings of a user say, or the defaults of
`NotificationSettings.create` where there is no row. `AtRest` are the states the
processes begin in: any database in which no occurrence is notified twice, commands, rules,
users and receipts as the code admits them (`TypedWorld`: rules that `create` accepts, with
a key of their own, batches of at least one row, ids and instants that are numbers), and
processes that have not begun. `NotificationSpec` starts there, and so does every world of
`MCNotifications`.

The outbox is reduced to what `Outbox` shows of it: the event of a committed
notification is handled until a handler returns. `steady` and `seen` are history
variables, changed by `Observe` beside every step: `steady` is what a run has been owing
without a break since it began (the occurrences that are due, to users and receipts that
were registered before the cutoff and, for marketing, to users who consent), `seen` what was
so at some moment of a dispatch.

### 3.7 `Files`, `Receipts` and `Library`

`Files`: an upload validates all its files and then stores and commits them one by
one; a deletion looks whether the file is referred to, deletes the object and then
the row; a download reads the row and then the object; a profile image is validated
and then written. Any call of the storage may fail and any process be lost.

`Receipts`: an update reads the receipt (`Find`), its files (`ReadFiles`), merges,
reads it again (`Load`), flushes the columns that differ (`Dirty`), deletes the
attachments and inserts the new ones (`Clear`, `Attach`). `Blockers` says which row,
key-share and unique-index locks the next statement waits for, `Deadlocked` when two
requests wait for each other. The list is one statement per page: status filter,
four orders (`Ordered`), the rows behind the cursor of the last one (`AfterCursor`).
`Dates` are the numbers that stand for a day of some month. A receipt is `Lawful` when
a rename would not be refused for what it already is; a rename alone is never refused
for a lawful one. The rules alone are not enough: two updates that race leave a receipt
with six images (finding 3), and every later update of it is refused.

`FilesAtRest` and `ReceiptsAtRest` are the states the calls and requests begin in, and
`FilesSpec` and `ReceiptsSpec` start there. The worlds of `MCLibrary` are such states.

`Library` puts both over one database. They share no column that either checks (a
receipt names its files by id, and neither module asks the other), so that the
composition is their interleaving: each step of `Library` is one of the two and leaves
the variables of the other alone. `LibrarySpec` is that, from the states both begin in.

### 3.8 `Migrations`

A schema is a set of parts: columns with their nullability and default, unique keys,
indexes, references and checks. A revision is a step up and a step down between two
schemas, and an operator on the row whose contents it rewrites. `Orm` is the schema
of the mapped classes, table by table. `Upgrade`, `Downgrade`, the insertion of one
row by the code of the current revision, and its removal are the actions. Within a step
the order of its DDL and its UPDATE counts: `MeetsUp` and `MeetsDown` are the schema that
the UPDATE meets, which the rows must satisfy before and after it, as they must the schema
at the end. `Converted` is the CASE list of 0023 and `Parsed` the aliases of the code,
each written down from its own source, so that a difference between them would show.
Primary keys, the predicates of partial indexes and ON DELETE are not compared.

## 4. Runs and bounds

| Run | Instance | What it shows |
|---|---|---|
| `outbox_safety` | 1 event, its task, 2 symmetric pollers, lease 1, 2 retries, skew 1, time to 7, 1 fault | no loss, leases, spacing, harmless stale workers, `Outbox` implements `Delivery` |
| `outbox_liveness` | 2 events, one that cannot be deserialized, 1 poller, time to 20, 1 fault | every committed event is settled |
| `credits_serial` | 3 grants (2 of one key), 2 analyses, 1 user with a row | refinement of `Account`, row = sum of ledger, replays were credited |
| `credits_safety` | the same grants, a user without a row, 1 analysis, 1 withdrawal | what survives the races of first grants; nobody waits for ever |
| `credits_lost_grant` | 2 grants to a user without a row | a finding |
| `promotions` | four scenarios: *Races*, 4 redemptions of 2 promotions (one repeated) and an analysis; *Limits*, 4 redemptions of 1 promotion by 3 users, limits 2/1/1; *Newcomers*, 3 sign-ups (two of one person) for a promotion with room for one and a second with room for two, or for none; *Month*, 2 runs of the job, a redemption of what they make, and one of a sign-up promotion by its id | atomicity, idempotency, limits and counters, the job, no deadlock |
| `promotions_false_grant` | 2 redemptions | a finding |
| `auth` | 1 account; 5 scenarios of 4 or 5 requests out of 2 sign-ups, 3 logins, 3 refreshes, 1 logout, 2 withdrawals | tokens, logout, withdrawal, one account per identity, every request is answered |
| `notifications` | 2 runs, 2 dispatches, 1 change by users, 1 fault; five worlds: *Reminders*, 3 users, two registered at one instant, rules singly or with one that aborts; *Warranties*, 5 receipts with equal keys, two runs for different dates; *Dispatches*, 2 notifications, 2 devices, or 1 notification and 2 changes, so that a dead token is registered again before it is cleaned up; *Together*, a run, its dispatch and a reader | one notification per occurrence, nobody missed, consent, pushes, registrations, everything ends |
| `library` | *Races*: any two of 11 updates of one receipt, an update with two deletions or a creation, three swaps of images, two swaps and a rename; *Lists*: 5 receipts, 4 statuses, 4 orders, pages of 1 and 2, a creation, an update and a deletion meanwhile; *FileWorlds*: two stored files and any three of 9 calls, 1 fault | patches, attachments, paging, rows and objects, images in use, every request is answered |
| `library_limit` | the same | a finding |
| `migrations` | all 27 revisions, every path up and down, one row of one of five tables | the schema does not depend on the path, the latest one is the mapped classes', no legal row blocks a step, backfills agree with the code |

Why the bounds are enough. *Outbox*: time 7 lets a row be claimed, its lease
expire, be claimed by the other poller, expire again and be failed to its last
retry, with the first worker still dispatching; two pollers and the task are the
largest number of workers a pair property speaks of; `TimeMatters` stops the clock
once no guard can depend on it, and `MaxClock` = 20 of the liveness run is never
what stops it. One fault puts a crash, an error or a cancellation at any step.
*Credits*: every pair of requests of one user is there (grant/grant with one key
and with two, grant/analysis, analysis/analysis, grant/withdrawal,
analysis/withdrawal), each starting at any time. *Promotions*: every limit binds
in *Limits*, the user of *Races* has no credit row, so that the embedded grant does
meet its write conflict, and in *Newcomers* the first candidate is exhausted by one
sign-up while another waits for it. The scenario is chosen by `MCInit`; the requests
of the other ones are over from the start.

*Auth* has five scenarios in place of one big instance (`Scenario` in `MCAuth`), each
the requests that race on one kind of row, with a withdrawal beside them. Three
refreshes are needed for a token that is issued and exchanged again while a logout is
waiting for the first one; two withdrawals for the deadlock between them and for an
account that is gone when the second comes to it.

*Notifications*: two runs are what one occurrence can be reserved by; pages of one
and two rows end within a group of equal keys; the change and the fault each fall at
any step, and dispatches retry for as long as there are events. *Library*: updates
that change the name, the dates, the period, the images, or several, from a row of
today's rules and from one of older rules; a third request waits behind one that waits,
and makes cycles of locks longer than two. *Migrations* has no bound but the one row: a step
rewrites each row by itself.

`CHECK_DEADLOCK FALSE` is used where requests are finite in number: the system
stops when all have been answered. The outbox and migration runs check for deadlock.
The type invariants (`TypeOK` of `Outbox` and `Auth`, `CreditTypeOK`,
`PromotionTypeOK`, `FileTypes`, `RequestTypes`, and the types inside `RunInvariant` and
`DispatchInvariant`) are definitions that no run lists; all of them are proved.

### Fairness

`FairSpec` of `Outbox`: a poller that is neither cancelled nor crashed goes on
(`run_forever` loops and survives every exception), the background task runs, time
passes. A cancelled poller is restarted: the deployment starts a new process.
`PromptDispatch` adds the assumption that no dispatch outlives its own lease; the
code bounds neither, and without it a row whose every dispatch is overtaken would
be dispatched for ever without its retries being counted, so nothing is claimed
then. The liveness run has it, the safety run does not.

`CreditFairSpec`: PostgreSQL grants a lock that is free, a coroutine that can run is
run, the OCR client answers or times out
(`ocr/infrastructure/receipt_ocr_client.py:388`), a deadlock is detected. Weak
fairness of each request is enough since a lock, once free, is either taken or
stays free, and requests are finite in number.

`Fairness` of `Auth` asks no more than that some request goes on as long as one can,
and that a deadlock is broken: `BreakDeadlock` is the detector of PostgreSQL, for pairs
that wait for each other. The same is enough for `PromotionFairness`, and for the jobs
of the month: no step of a request is ever repeated, so that none can hold up another
for ever.

`Fairness` of `Notifications` and of `Library` is weak fairness of each run, dispatch,
request and call: coroutines of one event loop, each of whose awaits ends. Faults
(`Abort`, `Crash`, `Swallow`, `Fault`, `Lose`) and what users do are never fair.

## 5. What is proved

`OutboxProofs`, for any events, pollers, lease, retry limit, batch size, skew and
bounds: `TypeCorrect`, `DeliveryInvariantHolds` and from it `NoCommittedEventLost`,
`LeasesSeparate`, `RedeliveriesAreSpaced`, `RetriesArePaid`, `NoPhantoms`, the action
property `StaleWorkersAreHarmless`, and `DeliveryImplemented`. None of the safety properties is
inductive alone. The argument is the generation: a row's `occurred_at` only grows
(`RowsGrow`), a committed claim is a value the row has had (`ClaimsCommitted`), and a
claim in progress is the only one and either the row's first or more than a lease above
the row's value (`ClaimsLocked`). So two live claims differ by more than a lease, and
the `WHERE` clause of a stale worker matches no row.

`DeliveryImplemented` is the refinement of `Delivery` under the mapping of section
3.2. Its step needs one thing more than the invariant, `TasksWait`: the background task of
an event has not begun before the transaction has ended. A claim is a `Begin`, a delete
that hits its row a `Settle`, a counted failure a `Fail` that ends its attempt, and a
crash, a cancellation, a stale write or a skipped claim is an end of the attempt or a
stutter.

`CreditsProofs`, for any users, requests, keys and amounts: `CreditInvariantHolds` (writers
hold the lock, what they write is consistent, a locked row is there or is the holder's own
insert, an inserted entry has its key to itself) and from it `CreditTypeCorrect`,
`LocksExclude`, `KeysCreditedOnce`, `HeldRowsStay`. With the hypothesis `Settled` (every
user has a row, nobody is withdrawn) `SerialAccountImplemented`: the transactions implement
`Account`, since from its `SELECT .. FOR UPDATE` on a transaction works on the balance as it
is (`SerialInvariant`). `Settled` is not a convenience: without it the run
`credits_lost_grant` refutes the refinement, and with it `BalanceMatchesLedger`. Under the
same hypothesis `BalancesMatchLedgers` proves the sum: each step of `Account` adds its
amount to the balance and its entry to the ledger (`SummedLedger`), so the row stays the sum
of the committed entries. `ReplaysAreCredited` follows from `SerialInvariant`: a settled
user's grant can meet no write conflict but that of its own key.

`OnlyPairsGetStuck` says where `BreakDeadlock` is needed, and that it is enough: whatever
grants, analyses and withdrawals overlap, a group of requests that all wait within the group
(`BlockedBy`) has two that wait for each other (`Deadlocked`), a grant with the row of its
user and one that has the key of this grant: a withdrawal that has deleted the ledger, or a
grant that found no row and has inserted its entry. Its hypothesis is `KeysNameUsers`; the
keys the code makes all contain the user or, for a sign-up, its own redemption
(`create_promotion_redemption/use_case.py:86-89`,
`create_promotion_code_redemption/use_case.py:91-94`). Without it two grants and two
withdrawals of different users can wait in a circle of four, as TLC has shown. Who holds a
row and waits is a grant about to insert its entry (`HoldersInStep`): with its entry in, it
would wait for a row that it has or that nobody else has (`LockedRowsExist`). It waits for a
withdrawal or a grant that has its key, that one waits for the row of its user, and this is
the row of the grant. No run lists `OnlyPairsAreStuck`; TLC has checked it, `HoldersInStep`,
and that a request has no step exactly when it is blocked, on the instance of
`credits_safety`.

`PromotionsProofs`, about `PromotionSpec`: `PromotionsRefineCredits` first, so that all
of `CreditInvariant` holds of the composition. `PromotionInvariant` adds what the locks
of codes and promotions protect: one transaction at a time has such a row
(`PromotionLocksExclude`); the counters it has read are those of the row
(`HoldersAreCurrent`); the room it has found is there until it commits (`RoomIsKept`); and
a redemption is written exactly as long as its grant has not rolled the session back
(`PendingInStep`). From it `PromotionLimitsKept`, `PromotionCountersMatch`,
`RedemptionsAreCredited` and `KeysRedeemedOnce`. It holds for
users without a credit row too: what finding 2 breaks is the answer, not the tables.

`NoRedemptionIsStuck` is the part of `RedemptionsAndJobsEnd` that is a safety property,
which a proof can reach: in no state is there a group of open transactions each of which
waits for one of the group, or for one that has ended. `WaitsFor` adds to the `BlockedBy`
of `Credits` the codes, the promotions and the jobs; TLC was asked, on every state of the
run, whether an open transaction has no step exactly when it waits for someone, and it is
so. `LocksInStepAlways` says how far the holder of a lock must have come. So whoever waits
does it for someone with a higher `Layer` (code, promotion, credit row; the key of an
entry is never waited for, since redemptions with one key have one promotion and its
lock), except for sign-ups, which may wait for each other while they choose; but those
lock promotions from the latest one down, so each waits for one that still wants an
earlier promotion (`WaitsGoUp`). Of a group that waits in a circle, the furthest members
and the earliest promotion among them lead to a contradiction (`NobodyWaitsInVain`).

`AuthProofs`, about `Spec` of `Auth`: `AuthInvariant` says that foreign keys hold of the
committed rows (`ForeignKeysHold`), that no two transactions hold one lock (`LocksExclude`),
that what one has read under its locks is still so, and that at its commit a withdrawal has
seen every session and token of its account (`HeldRowsAreCurrent`); that a session that was
logged out is revoked or gone (`LoggedOutForGood`), which makes `LogoutIsFinal` a matter of
the check that alone lets a refresh pass (`OnlyTheCheckPasses`); that what requests remember
was committed once (`MemoryIsOfRows`), and that the identities of an account share its
address (`LinksShareAddress`). From it `OneAccountPerIdentity`,
`RefreshTokensExchangedOnce`, `LogoutIsFinal`, `WithdrawalIsFinal`. `LoginsSucceedTogether`
has the hypothesis `OneSubjectPerAddress`: an issuer verifies an address for one of its
subjects. It is needed, and the code relies on the issuer for it: of two subjects of one
issuer with one verified address the second would be linked to the account of the first and
meet `UNIQUE (credentials_id, issuer)` (`auth/infrastructure/persistence/orm.py:51`).

`NotificationsProofs`, about `NotificationSpec`: `RunInvariant` (an occurrence that is
reserved and not committed belongs to one run and has no row; the consent a run has read
under its lock is that of the user, and what a reader has locked is visible) gives
`OccurrencesNotifiedOnce` and `MarketingNeedsConsent`. `DispatchInvariant` relates what a
dispatch has read to the history `seen` of what was so while it ran, and gives
`PushesAreWanted` and `RegistrationsKept`.

`ScanInvariant` is why a completed run has missed nobody, for any users, receipts, rules,
limits and other runs. An occurrence that has been owed all along is, wherever the run
stands, either notified or ahead of it (`Ahead`): in the list of the page it is at, behind
the cursor of a page that is still to be read, or of a later rule. It needs to be known that
the list holds what its rule says, of which marketing is valid for its user and a receipt
with a name is not turned away (`RightToDo`), that cursors are of the kind their rule
pages by, and that nothing is left over between two pages or rules (`RightPosition`). Each
action then has one lemma (`ScanOf...`). A page is complete up to its cursor
(`SortedIsComplete`, `PageIsComplete`): a row that fits the query is on it or behind the
cursor it hands on, since the order of the query is strict and total, ties of instants
included. Keys of rules differ (`TypedWorld`), so an occurrence tells which rule the run has
to come to. An occurrence is taken from the list when it is reserved and created, when it
has a row already, or when it is turned away, and the last is possible only for what is not owed
(`ScanOfDrop`, `OwedMatchCadence`, `OwedShowInActivity`). When another run rolls back what it
had reserved, the row was never visible, so nothing has counted on it. A change of settings,
a receipt that is deleted or an account that is erased takes the occurrence out of `steady`.
`NoneAssumption` says only that no value is neither a number nor a cursor.

`FilesProofs`, about `FilesSpec`: `FilesInvariant` says for each step of an upload and a
deletion which of row and object may be missing, and gives `RowsAgreeWithObjects` and
`ImagesInUseKept`.

`ReceiptsProofs`, about `ReceiptsSpec`: `ReceiptsInvariant` has the exclusion of row,
key-share and unique-index locks (`LocksHold`) and, for a request that nobody has
disturbed, that what it has read is what is there (`Undisturbed`). It gives
`AttachmentsKeepReceipts` and `LoneUpdatesPatch`. The latter rests on the arithmetic of
dates: the expiry of a period is a valid day and not before the purchase (`DaysFollow`,
`MonthsFollow`). `PagesInvariant` gives `PagesShowAll`: whatever has stayed listed under
one key was shown once if it is not behind the cursor, and not yet if it is. What it
needs of `ORDER BY .. LIMIT` is that a finite set has a strictly ascending enumeration,
and that a prefix of it holds all that precedes its last element (`OrderedRows`,
`PageKeepsPages`). `FieldsAssumption` only says that null, and a field left out, are not
numbers, and that today is a date. `LibraryIsSafe` has the properties of files and receipts
in the composed system.

`SetFacts` has the two inductions that are needed, over finite sets: that a sum over a set
unfolds one element at a time (`SumTakesAnyElement`, for the `MapThenSumSet` of the
community modules), and that a finite set has a last element and an ascending enumeration
(`AscendingExists`, for the pages of receipts and of the scheduler). The induction theorems
of the library take an operator as parameter; the proofs here take a minimal counterexample
instead, which exists because strict inclusion of finite sets is well-founded
(`MinimalSubset`). That a set of natural numbers has a least one (`LeastExists`) follows
from the second.

`MCNotifications` and `MCLibrary` begin in states that satisfy `AtRest`, `FilesAtRest` and
`ReceiptsAtRest`. `MCPromotions` and `MCAuth` begin as `PromotionInit` and `Init` say, but
that the requests of other scenarios are over before they start; in the specifications they
may just as well never take a step. So each theorem covers what its run checks. The
invariants of the proofs were checked by TLC on the instances of the runs before they
were proved.

Only model-checked: liveness (`EventuallySettled`, `EveryRequestEnds`,
`RedemptionsAndJobsEnd`, `EveryRequestAnswered`,
`EverythingEnds`), which is out of the prover's reach, and the four invariants of
`Migrations`. Those are about one fixed chain of 27 revisions with no constant to generalise
over: TLC has visited every state the model has. A proof would first have to unfold
`Built`, which is recursive over the revisions, and that is an induction over data.

## 6. Findings

1. *Lost first grant* (`credits_lost_grant`): two grants to a user without a row may
   leave the row without one of them while the ledger has both.
2. *Granted, but rolled back* (`promotions_false_grant`): the loser of two such inserts is
   answered as a replay though its key was never credited; inside a redemption the client
   is then told `credit_granted=True` and nothing is stored.
3. *Six images* (`library_limit`): two updates that replace the images of a receipt at
   once leave it with the images of both.

Remarks, met while modelling, that no run shows:

* `relay.py:151`: the docstring of `run_forever` says that a cancellation finishes the
  batch; it interrupts the dispatch, and the event is delivered again after its lease.
* `relay.py:34` and `immediate_dispatch.py:105` call the immediate path
  delete-then-dispatch; the code and the model claim, dispatch and then delete.
* `credits/infrastructure/persistence/repository.py:132-136`: the ledger is deleted
  before the wallet; an analysis that commits in between leaves its ledger entry.
* `auth/application/commands/signup/use_case.py:112` looks for an existing account
  before it locks. Two sign-ups with one identity end in a unique violation instead,
  an internal error in place of `USER_ALREADY_EXISTS` (`SignUpConflict`); two with one
  verified address and different identities both succeed.
* A schedule rule of kind `inactive_receipt` without a lookback passes
  `NotificationScheduleRule.create`, but every run fails when it comes to it
  (`notifications/domain/due_notification.py:134`); the rules after it are not reached.
  *Reminders* has such a rule.
* Setting a profile image and deleting its file may each miss the other and leave an
  image without a file; `ImageInUseKept` holds for files that were in use all along.
* Of two partial updates of one receipt one may be lost, when the other has read the
  receipt before it and reads it again after it; one of the purchase date and one of the
  expiry may leave an expiry before the purchase: each is validated against what it has read.
* A receipt's file ids are not checked for existence or owner, and a file may be
  deleted while a receipt names it.
* An upload of several files that fails at one of them leaves the earlier ones stored
  and committed, while the client is told that it failed.

## 7. What is not modelled

Field validation beyond what a property needs, formatting, responses and settings; what the
OCR service, Firebase and FCM answer (they are nondeterministic where they appear) and the
normalisation of OCR results; the queries, which only read, with the exception of the paged
list and the scheduler's pages; the list's category and text filters and its rejection of a
cursor made for another order; column types and lengths in the migrations, their primary
keys, index predicates and ON DELETE; the field-by-field encoding of events; Usage, Example,
the HTTP layer and the scripts.
